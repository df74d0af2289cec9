------------------------------- MODULE Inventory -------------------------------
(***************************************************************************)
(* What the ingredients' stock promises, whatever rows the transactions    *)
(* lock and in whichever order: an order takes all it needs at once, if it *)
(* is all there, and takes it once; cancelling gives back at once whatever *)
(* the orders cancelled together had taken; and nothing else moves stock.  *)
(***************************************************************************)
EXTENDS Naturals, Functions

CONSTANTS Ingredient, Order, Need, Initial

VARIABLES stock, taken, given

Init ==
  /\ stock = Initial
  /\ taken = [o \in Order |-> FALSE]
  /\ given = [o \in Order |-> 0]

Take(o) ==
  /\ ~taken[o]
  /\ \A i \in Ingredient : stock[i] >= Need[o][i]
  /\ stock' = [i \in Ingredient |-> stock[i] - Need[o][i]]
  /\ taken' = [taken EXCEPT ![o] = TRUE]
  /\ UNCHANGED given

\* What the orders of S need of ingredient i.
NeedOf(S, i) == SumFunctionOnSet([o \in Order |-> Need[o][i]], S)

GiveBack(S) ==
  /\ \A o \in S : taken[o]
  /\ stock' = [i \in Ingredient |-> stock[i] + NeedOf(S, i)]
  /\ given' = [o \in Order |-> IF o \in S THEN given[o] + 1 ELSE given[o]]
  /\ UNCHANGED taken

Next == (\E o \in Order : Take(o)) \/ (\E S \in SUBSET Order : GiveBack(S))

Spec == Init /\ [][Next]_<<stock, taken, given>>
================================================================================
