--------------------------------- MODULE Stock ---------------------------------
(***************************************************************************)
(* Ingredients taken for orders and given back when they are cancelled, in *)
(* transactions that lock rows of products and the table orders.           *)
(*                                                                         *)
(*   stock[i]  products.stock_qty of ingredient i, as committed            *)
(*   ord[o]    orders.status, as committed; "open" is confirmed .. served  *)
(*   taken[o]  stock_movements has o's 'order_recipe_deduction' rows       *)
(*   given[o]  how often it has o's 'order_cancel_restore' rows            *)
(*   seated    the table's session is its current one                      *)
(*   lock[i]   the transaction that holds the row (SELECT ... FOR UPDATE)  *)
(*   tx[w]     the transaction API worker w is in                          *)
(*                                                                         *)
(* A transaction reads, waits for locks one at a time, and writes with its *)
(* COMMIT.  Ingredient ids are numbers: rows are locked in their order.    *)
(***************************************************************************)
EXTENDS Naturals, FiniteSetsExt

CONSTANTS Ingredient, Order,
          Need,      \* [Order -> [Ingredient -> Nat]]: by the recipes of its items
          Initial,   \* [Ingredient -> Nat]
          AtTable,   \* the orders of the one table session of the model
          Qr,        \* the orders that guests send from their phones
          Worker, Calls, NoOne,
          MaxGiven   \* bound: no order given back so often is asked to be cancelled

Call == {"create", "kitchen", "kitchenCancel", "serve", "cancel", "reject", "cancelTable"}

ASSUME IngredientAssumption == Ingredient \subseteq Nat /\ IsFiniteSet(Ingredient)
ASSUME OrderAssumption == IsFiniteSet(Order)
ASSUME NeedAssumption ==
  /\ Need \in [Order -> [Ingredient -> Nat]]
  /\ \A o \in Order : \E i \in Ingredient : Need[o][i] > 0
ASSUME InitialAssumption == Initial \in [Ingredient -> Nat]
ASSUME CallsAssumption == Calls \subseteq Call /\ AtTable \subseteq Order /\ Qr \subseteq Order
ASSUME NoOneAssumption == NoOne \notin Worker
ASSUME MaxGivenAssumption == MaxGiven \in Nat

VARIABLES stock, ord, taken, given, seated, lock, tx

db == <<stock, ord, taken, given, seated>>
vars == <<stock, ord, taken, given, seated, lock, tx>>

OrderStatus == {"none", "pending", "open", "completed", "cancelled"}

\* "alter" waits for the table lock of ALTER TABLE orders, "work" takes row
\* locks; os is the order of the request, was and bill what was read of it and
\* of the table, todo the orders whose ingredients
\* are still to be taken or given back, left the rows still to lock for the
\* one in now, wrote what the transaction has put into the rows in mine.
Tx == [pc    : {"idle", "read", "alter", "work"},
       call  : Call,
       os    : SUBSET Order,
       was   : OrderStatus,
       bill  : BOOLEAN,
       todo  : SUBSET Order,
       now   : SUBSET Order,
       done  : SUBSET Order,
       left  : SUBSET Ingredient,
       mine  : SUBSET Ingredient,
       wrote : [Ingredient -> Nat]]

Idle == [pc |-> "idle", call |-> "create", os |-> {}, was |-> "none", bill |-> FALSE,
         todo |-> {}, now |-> {}, done |-> {}, left |-> {}, mine |-> {},
         wrote |-> [i \in Ingredient |-> 0]]

TypeOK ==
  /\ stock \in [Ingredient -> Nat]
  /\ ord \in [Order -> OrderStatus]
  /\ taken \in [Order -> BOOLEAN]
  /\ given \in [Order -> Nat]
  /\ seated \in BOOLEAN
  /\ lock \in [Ingredient -> Worker \cup {NoOne}]
  /\ tx \in [Worker -> Tx]

Init ==
  /\ stock = Initial
  /\ ord = [o \in Order |-> "none"]
  /\ taken = [o \in Order |-> FALSE]
  /\ given = [o \in Order |-> 0]
  /\ seated = TRUE
  /\ lock = [i \in Ingredient |-> NoOne]
  /\ tx = [w \in Worker |-> Idle]

-----------------------------------------------------------------------------
(* Requests *)

Shown == {"pending", "open"}

\* What a till, a kitchen screen or a guest asks for, by what it shows.  Some
\* screen may still show an order as it was before it was served or cancelled.
Known(call, o) ==
  CASE call = "create" -> /\ ord[o] = "none" /\ \A w \in Worker : o \notin tx[w].os
                          /\ o \in AtTable => seated
    [] call \in {"kitchen", "kitchenCancel", "serve"} -> ord[o] # "none"
    [] call = "cancel" -> ord[o] # "none" /\ given[o] < MaxGiven
    [] call = "reject" -> o \in Qr /\ ord[o] # "none"
    [] call = "cancelTable" -> o \in AtTable

Begin(w) ==
  /\ tx[w].pc = "idle"
  /\ \E call \in Calls, o \in Order :
       /\ Known(call, o)
       /\ tx' = [tx EXCEPT ![w] = [Idle EXCEPT !.pc = "read", !.call = call, !.os = {o}]]
  /\ UNCHANGED <<db, lock>>

\* updateOrderStatusHandler alters the table orders: ACCESS EXCLUSIVE.
Alters(w) == tx[w].call \in {"serve", "cancel"}
Exclusive(w) == tx[w].pc = "work" /\ Alters(w)
HasRead(w) == tx[w].pc \in {"alter", "work"}

NextRow(w) == Min(tx[w].left)

\* w waits for x to commit or roll back.
Waits(w, x) ==
  /\ w # x
  /\ \/ tx[w].pc = "read" /\ Exclusive(x)
     \/ tx[w].pc = "alter" /\ HasRead(x)
     \/ tx[w].left # {} /\ lock[NextRow(w)] = x
Free(w) == \A x \in Worker : ~Waits(w, x)

\* Orders whose ingredients the transaction takes or gives back.
Reads(w) ==
  CASE tx[w].call = "create" -> tx[w].os
    [] tx[w].call = "reject" -> tx[w].os
    [] tx[w].call = "cancelTable" -> {o \in AtTable : seated /\ ord[o] \in Shown}
    [] OTHER -> {}

\* The first SELECT.  rejectQrOrderHandler throws unless the order is pending.
Read(w) ==
  /\ tx[w].pc = "read"
  /\ Free(w)
  /\ tx[w].call = "reject" => \A o \in tx[w].os : ord[o] = "pending"
  /\ \E o \in tx[w].os :
       tx' = [tx EXCEPT ![w].pc = IF Alters(w) THEN "alter" ELSE "work",
                        ![w].was = ord[o], ![w].bill = seated,
                        ![w].todo = Reads(w)]
  /\ UNCHANGED <<db, lock>>

\* Mutant of Alter: the table is not altered, and so not locked.
AlterUnlocked(w) ==
  /\ tx[w].pc = "alter"
  /\ tx' = [tx EXCEPT ![w].pc = "work",
                      ![w].todo = IF tx[w].call = "cancel" /\ tx[w].was # "completed"
                                  THEN tx[w].os ELSE {}]
  /\ UNCHANGED <<db, lock>>

\* ALTER TABLE orders; then a cancelled order is reversed unless it was read as
\* completed.
Alter(w) ==
  /\ tx[w].pc = "alter"
  /\ Free(w)
  /\ tx' = [tx EXCEPT ![w].pc = "work",
                      ![w].todo = IF tx[w].call = "cancel" /\ tx[w].was # "completed"
                                  THEN tx[w].os ELSE {}]
  /\ UNCHANGED <<db, lock>>

-----------------------------------------------------------------------------
(* applyOrderRecipeDeduction and reverseOrderRecipeDeduction *)

\* The rows of products to lock for order o.
RowsOf(w, o) ==
  IF tx[w].call = "create" \/ taken[o]
  THEN {i \in Ingredient : Need[o][i] > 0} ELSE {}

NextOrder(w) ==
  /\ tx[w].pc = "work"
  /\ tx[w].now = {}
  /\ \E o \in tx[w].todo :
       tx' = [tx EXCEPT ![w].todo = @ \ {o}, ![w].now = {o}, ![w].left = RowsOf(w, o)]
  /\ UNCHANGED <<db, lock>>

\* What the transaction sees of a row it has locked.
Seen(w, i) == IF i \in tx[w].mine THEN tx[w].wrote[i] ELSE stock[i]

Enough(w, o, i) == tx[w].call = "create" => Seen(w, i) >= Need[o][i]

Changed(w, o, i) ==
  IF tx[w].call = "create" THEN Seen(w, i) - Need[o][i] ELSE Seen(w, i) + Need[o][i]

\* Mutant of Put: the new quantity is computed from the committed one.
PutFromCommitted(w, o, i) ==
  tx' = [tx EXCEPT ![w].left = @ \ {i}, ![w].mine = @ \cup {i},
                   ![w].wrote[i] = IF tx[w].call = "create" THEN stock[i] - Need[o][i]
                                                            ELSE stock[i] + Need[o][i]]

Put(w, o, i) ==
  tx' = [tx EXCEPT ![w].left = @ \ {i}, ![w].mine = @ \cup {i},
                   ![w].wrote[i] = Changed(w, o, i)]

\* Mutant of TakeRow: the row is read without FOR UPDATE.
TakeRowUnlocked(w) ==
  /\ tx[w].left # {}
  /\ \E o \in tx[w].now : Enough(w, o, NextRow(w)) /\ Put(w, o, NextRow(w))
  /\ UNCHANGED <<db, lock>>

\* Mutant of TakeRow: rows are locked in the order of the recipe.
TakeRowAny(w) ==
  /\ \E o \in tx[w].now, i \in tx[w].left :
       /\ lock[i] \in {NoOne, w}
       /\ Enough(w, o, i)
       /\ lock' = [lock EXCEPT ![i] = w]
       /\ Put(w, o, i)
  /\ UNCHANGED db

\* Mutant of TakeRow: what is there is compared after the UPDATE.
TakeRowBelowZero(w) ==
  /\ tx[w].left # {}
  /\ Free(w)
  /\ \E o \in tx[w].now : Put(w, o, NextRow(w))
  /\ lock' = [lock EXCEPT ![NextRow(w)] = w]
  /\ UNCHANGED db

\* SELECT ... FOR UPDATE of the next row, then its UPDATE.
TakeRow(w) ==
  /\ tx[w].left # {}
  /\ Free(w)
  /\ \E o \in tx[w].now : Enough(w, o, NextRow(w)) /\ Put(w, o, NextRow(w))
  /\ lock' = [lock EXCEPT ![NextRow(w)] = w]
  /\ UNCHANGED db

OrderDone(w) ==
  /\ tx[w].now # {}
  /\ tx[w].left = {}
  /\ tx' = [tx EXCEPT ![w].done = @ \cup {o \in tx[w].now :
                                            tx[w].call = "create" \/ taken[o]},
                      ![w].now = {}]
  /\ UNCHANGED <<db, lock>>

-----------------------------------------------------------------------------
(* The end of a transaction *)

Released(w) == [i \in Ingredient |-> IF lock[i] = w THEN NoOne ELSE lock[i]]

\* The orders whose status the transaction writes: cancelTableSessionHandler
\* cancels whatever its session has by then.
Writes(w) ==
  IF tx[w].call = "cancelTable"
  THEN {o \in AtTable : tx[w].bill /\ ord[o] # "none"} ELSE tx[w].os

NewStatus(call) ==
  CASE call = "create" -> "pending"
    [] call = "kitchen" -> "open"
    [] call = "serve" -> "completed"
    [] OTHER -> "cancelled"

\* The session ends: cancelTableSessionHandler, and closeTableSessionIfNoActiveOrders
\* after the cancellation of a table's order.
Leaves(w) ==
  \/ tx[w].call = "cancelTable"
  \/ /\ tx[w].call \in {"cancel", "kitchenCancel"}
     /\ tx[w].os \subseteq AtTable
     /\ \A o \in AtTable : ord'[o] \in {"none", "completed", "cancelled"}

\* UPDATE orders, and COMMIT.
Commit(w) ==
  /\ tx[w].pc = "work"
  /\ tx[w].todo = {}
  /\ tx[w].now = {}
  /\ stock' = [i \in Ingredient |-> Seen(w, i)]
  /\ ord' = [o \in Order |-> IF o \in Writes(w) THEN NewStatus(tx[w].call) ELSE ord[o]]
  /\ taken' = [o \in Order |-> taken[o] \/ (tx[w].call = "create" /\ o \in tx[w].done)]
  /\ given' = [o \in Order |-> IF tx[w].call # "create" /\ o \in tx[w].done
                               THEN given[o] + 1 ELSE given[o]]
  /\ seated' = (seated /\ ~Leaves(w))
  /\ lock' = Released(w)
  /\ tx' = [tx EXCEPT ![w] = Idle]

\* Mutant of Rollback: the transaction is left open on its connection.
RollbackKeepsLocks(w) ==
  /\ tx[w].pc # "idle"
  /\ tx' = [tx EXCEPT ![w] = Idle]
  /\ UNCHANGED <<db, lock>>

\* ROLLBACK: a handler throws, or the process dies.
Rollback(w) ==
  /\ tx[w].pc # "idle"
  /\ lock' = Released(w)
  /\ tx' = [tx EXCEPT ![w] = Idle]
  /\ UNCHANGED db

\* Transactions that wait for each other; PostgreSQL rolls one of them back.
Stuck(S) == S # {} /\ \A w \in S : \E x \in S : Waits(w, x)
Victim(w) == (\E S \in SUBSET Worker : w \in S /\ Stuck(S)) /\ Rollback(w)

\* A handler throws: the order is not pending, or InsufficientStockError.
Throws(w) ==
  /\ \/ /\ tx[w].pc = "read" /\ tx[w].call = "reject"
        /\ \A o \in tx[w].os : ord[o] # "pending"
     \/ /\ tx[w].left # {} /\ tx[w].call = "create"
        /\ \A o \in tx[w].now : ~Enough(w, o, NextRow(w))
  /\ Free(w)
  /\ Rollback(w)

Step(w) == Read(w) \/ Alter(w) \/ NextOrder(w) \/ TakeRow(w) \/ OrderDone(w) \/ Commit(w)

Next == \E w \in Worker : Begin(w) \/ Step(w) \/ Rollback(w)

Spec == Init /\ [][Next]_vars

\* A transaction goes on, PostgreSQL gives a lock to those that wait for it in
\* turn (hence strong fairness), and it breaks a circle of waits.
Fairness == \A w \in Worker : SF_vars(Step(w)) /\ SF_vars(Throws(w)) /\ WF_vars(Victim(w))

FairSpec == Spec /\ Fairness

-----------------------------------------------------------------------------
(* Properties *)

\* What orders have taken of ingredient i, and what was given back of it.
Took(i) == [o \in Order |-> IF taken[o] THEN Need[o][i] ELSE 0]
GaveBack(i) == [o \in Order |-> given[o] * Need[o][i]]

\* What is left and what orders took add up to what there was, and was given
\* back: no deduction and no return is lost to another one.
StockAccounts ==
  \A i \in Ingredient :
    stock[i] + SumFunctionOnSet(Took(i), Order)
      = Initial[i] + SumFunctionOnSet(GaveBack(i), Order)

\* Each COMMIT is one step of the inventory, or none: an order has all its
\* ingredients or nothing of them, and no other transaction sees a part, though
\* rows are locked, read and written one by one.
I == INSTANCE Inventory
InventorySpec == I!Spec

\* Nothing is given back of an order that has been completed by then, though it
\* was read before the transaction waited for its locks.
ServedIsKept ==
  [][\A o \in Order : given'[o] > given[o] => ord[o] # "completed"]_vars

\* An order's ingredients are given back at most once, as the comment of
\* reverseOrderRecipeDeduction says; a second cancellation gives them back again.
RestoredAtMostOnce == \A o \in Order : given[o] <= 1

\* Cancelling an order that was not completed gives its ingredients back: not by
\* the kitchen, and not if an order commits while its table is cancelled.
CancelGivesBack ==
  [][\A o \in Order : ord[o] \in Shown /\ ord'[o] = "cancelled" => given'[o] > given[o]]_vars

\* Transactions that take or give back for a single order never wait for each
\* other in a circle: they lock ingredients in ascending order.
NoWaitCycle ==
  \A S \in SUBSET {w \in Worker : tx[w].call \in {"create", "reject"}} : ~Stuck(S)

\* Every request ends.
EveryRequestEnds == \A w \in Worker : tx[w].pc # "idle" ~> tx[w].pc = "idle"
=============================================================================
