----------------------------- MODULE MCRestore -----------------------------
(* Small instances of Restore for TLC. *)
EXTENDS Restore, TLC

CONSTANTS o1, o2, p1, p2, k1, ma

\* Every order has the token, side and price of the others, in one market.
MCKeyOf == [o \in Order |-> k1]
MCMarketOf == [o \in Order |-> ma]
MCListed == IF o2 \in Order THEN <<o1, o2>> ELSE <<o1>>

\* Worker runs with the same key can be exchanged.
Symmetry == Permutations(Proc)
=============================================================================
