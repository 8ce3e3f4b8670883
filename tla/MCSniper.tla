------------------------------ MODULE MCSniper ------------------------------
(* Small instances of Sniper for TLC. *)
EXTENDS Sniper, TLC

CONSTANTS w1, w2, t1, t2, p1, p2, feed, poll

\* Every watch is armed for the same token.
MCTokenOf == [w \in Watch |-> t1]

\* Worker runs with the same key can be exchanged, and so can the lanes that see ticks.
Symmetry == Permutations(Proc) \cup Permutations(Hot)
=============================================================================
