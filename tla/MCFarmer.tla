------------------------------ MODULE MCFarmer ------------------------------
(* Constants of the Farmer runs. *)
EXTENDS Farmer

NoFav == [r \in {"FAV"} |-> 0]
OneFav == [r \in {"FAV"} |-> 1]
NoLong == [r \in {"LONG"} |-> 0]
OneLong == [r \in {"LONG"} |-> 1]
=============================================================================
