------------------------------- MODULE MCKitchen -------------------------------
EXTENDS Kitchen
CONSTANTS o1, o2, o3, k1, k2, s1

\* The orders of one table, each with a line for the same station.
MCNeeds == [o \in Order |-> {1}]
MCSessionOf == [o \in Order |-> s1]
=============================================================================
