------------------------------ MODULE MCDelivery ------------------------------
EXTENDS Delivery
CONSTANTS o1, o2, a, b, d1
=============================================================================
