------------------------------- MODULE MCDineIn -------------------------------
(* DineIn on two tables. *)
EXTENDS DineIn, TLC

CONSTANTS t1, t2, o1, o2, o3

MCPrice == [o \in Order |-> IF o = o1 THEN 2 ELSE 1]

Symmetry == Permutations(Session) \cup Permutations(Extra) \cup Permutations(Table)
=============================================================================
