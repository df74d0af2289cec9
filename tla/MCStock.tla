-------------------------------- MODULE MCStock --------------------------------
(* Stock with three ingredients: orders share some, and all orders together    *)
(* need more of ingredient 2 than there is.                                     *)
EXTENDS Stock

CONSTANTS o1, o2, o3

Amount(a, b, c) == [i \in Ingredient |-> IF i = 1 THEN a ELSE IF i = 2 THEN b ELSE c]
MCNeed == [o \in Order |-> IF o = o1 THEN Amount(1, 1, 0)
                           ELSE IF o = o2 THEN Amount(1, 2, 0) ELSE Amount(0, 1, 1)]
MCInitial == Amount(2, 3, 1)
=============================================================================
