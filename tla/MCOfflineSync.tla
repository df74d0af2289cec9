--------------------------- MODULE MCOfflineSync ---------------------------
(* Instances of OfflineSync for TLC. *)
EXTENDS OfflineSync

CONSTANTS o1, o2, d1, d2

\* Both orders on one till / one order on each of two tills.
OneTill == [o \in Order |-> d1]
TwoTills == [o \in Order |-> IF o = o1 THEN d1 ELSE d2]
=============================================================================
