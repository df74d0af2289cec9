---------------------------- MODULE MCServiceCalls ----------------------------
EXTENDS ServiceCalls
CONSTANTS w1, w2, w3, t1

MCServerOf == [p \in Place |-> IF p = t1 THEN w1 ELSE Nobody]

\* w3 works in another section.
MCZone == [w \in Waiter |-> IF w = w3 THEN {} ELSE Table]
=============================================================================
