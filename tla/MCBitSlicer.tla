---------------------------- MODULE MCBitSlicer -----------------------------
(* Columns with at most two 1 bits.  Every step is linear over exclusive   *)
(* or, so what holds for the columns with one bit holds for all; those     *)
(* with two bits check the linearity.                                      *)
EXTENDS BitSlicer

Positions == Index \X Index

ColumnOf(P) == [r \in Index |-> {b \in Index : <<r, b>> \in P}]

MCColumns == {ColumnOf({p, q}) : p, q \in Positions}
=============================================================================
