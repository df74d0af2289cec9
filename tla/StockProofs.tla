----------------------------- MODULE StockProofs -----------------------------
(***************************************************************************)
(* Proofs about Stock, for any ingredients, orders and transactions:       *)
(*   TypeCorrect     no quantity is ever negative                          *)
(*   NoDeadlock      single orders never wait for each other in a circle   *)
(*   ServedKept      nothing comes back of an order completed meanwhile    *)
(*   SerialGivesBack one request at a time, and unless the kitchen cancels,*)
(*                   ingredients come back whenever they should            *)
(*   StockAccounted  what is missing of an ingredient is what orders took  *)
(*                   and did not give back, however transactions overlap   *)
(*   IsInventory     and each commit takes, or gives back, all at once     *)
(***************************************************************************)
EXTENDS Stock, SumTheorems

-----------------------------------------------------------------------------
(* The least and the greatest of a set of ingredients *)

Below(i) == {k \in Ingredient : k < i}
Above(i) == {k \in Ingredient : k > i}

\* A family of sets of ingredients has one that strictly includes no other.
LEMMA SmallestSet ==
  ASSUME NEW F, F # {}, \A A \in F : A \subseteq Ingredient
  PROVE  \E A \in F : \A B \in F : ~(B \subseteq A /\ B # A)
<1>1. \A A \in F : IsFiniteSet(A) /\ A \in SUBSET Ingredient
  BY FS_Subset, IngredientAssumption
<1>2. F \subseteq FiniteSubsetsOf(Ingredient)
  BY <1>1 DEF FiniteSubsetsOf
<1>3. \E A \in F : \A B \in F : <<B, A>> \notin StrictSubsetOrdering(Ingredient)
  BY <1>2, FS_StrictSubsetOrderingWellFounded, WFMin
<1> QED
  BY <1>1, <1>3 DEF StrictSubsetOrdering

\* Min is a member of its set, and no member is smaller.
LEMMA MinIsLeast ==
  ASSUME NEW S, S \subseteq Ingredient, S # {}
  PROVE  Min(S) \in S /\ \A j \in S : Min(S) <= j
<1>1. \A i \in S : i \in Nat
  BY IngredientAssumption
<1>2. PICK A \in {Below(i) : i \in S} : \A B \in {Below(i) : i \in S} : ~(B \subseteq A /\ B # A)
  <2> DEFINE F == {Below(i) : i \in S}
  <2>1. F # {} /\ \A A \in F : A \subseteq Ingredient
    BY DEF Below
  <2> HIDE DEF F
  <2>2. \E A \in F : \A B \in F : ~(B \subseteq A /\ B # A)
    BY <2>1, SmallestSet
  <2> QED
    BY <2>2 DEF F
<1>3. PICK i \in S : A = Below(i)
  OBVIOUS
<1>4. ASSUME NEW j \in S PROVE i <= j
  <2>1. ~(Below(j) \subseteq Below(i) /\ Below(j) # Below(i))
    BY <1>2, <1>3
  <2>2. SUFFICES ASSUME j < i PROVE FALSE
    BY <1>1
  <2>3. j \in Below(i) /\ j \notin Below(j)
    BY <1>1, <2>2 DEF Below
  <2>4. ASSUME NEW k \in Below(j) PROVE k \in Below(i)
    <3>1. k \in Nat /\ i \in Nat /\ j \in Nat
      BY <1>1, IngredientAssumption DEF Below
    <3> QED
      BY <2>2, <3>1 DEF Below
  <2> QED
    BY <2>1, <2>3, <2>4
<1> QED
  BY <1>4 DEF Min

\* A set of ingredients has a greatest one.
LEMMA HasGreatest ==
  ASSUME NEW S, S \subseteq Ingredient, S # {}
  PROVE  \E i \in S : \A j \in S : j <= i
<1>1. \A i \in S : i \in Nat
  BY IngredientAssumption
<1>2. PICK A \in {Above(i) : i \in S} : \A B \in {Above(i) : i \in S} : ~(B \subseteq A /\ B # A)
  <2> DEFINE F == {Above(i) : i \in S}
  <2>1. F # {} /\ \A A \in F : A \subseteq Ingredient
    BY DEF Above
  <2> HIDE DEF F
  <2>2. \E A \in F : \A B \in F : ~(B \subseteq A /\ B # A)
    BY <2>1, SmallestSet
  <2> QED
    BY <2>2 DEF F
<1>3. PICK i \in S : A = Above(i)
  OBVIOUS
<1>4. ASSUME NEW j \in S PROVE j <= i
  <2>1. ~(Above(j) \subseteq Above(i) /\ Above(j) # Above(i))
    BY <1>2, <1>3
  <2>2. SUFFICES ASSUME i < j PROVE FALSE
    BY <1>1
  <2>3. j \in Above(i) /\ j \notin Above(j)
    BY <1>1, <2>2 DEF Above
  <2>4. ASSUME NEW k \in Above(j) PROVE k \in Above(i)
    <3>1. k \in Nat /\ i \in Nat /\ j \in Nat
      BY <1>1, IngredientAssumption DEF Above
    <3> QED
      BY <2>2, <3>1 DEF Above
  <2> QED
    BY <2>1, <2>3, <2>4
<1> QED
  BY <1>4

-----------------------------------------------------------------------------
(* What a step does to the transaction of w, and to no other *)

Others(w) == \A x \in Worker : x # w => tx'[x] = tx[x]

LEMMA IdleType == Idle \in Tx
  BY DEF Idle, Tx, Call, OrderStatus

LEMMA Fields ==
  ASSUME TypeOK, NEW w \in Worker
  PROVE  /\ tx[w] \in Tx
         /\ tx[w].pc \in {"idle", "read", "alter", "work"}
         /\ tx[w].call \in Call
         /\ tx[w].os \subseteq Order
         /\ tx[w].was \in OrderStatus
         /\ tx[w].bill \in BOOLEAN
         /\ tx[w].todo \subseteq Order
         /\ tx[w].now \subseteq Order
         /\ tx[w].done \subseteq Order
         /\ tx[w].left \subseteq Ingredient
         /\ tx[w].mine \subseteq Ingredient
         /\ tx[w].wrote \in [Ingredient -> Nat]
  BY DEF TypeOK, Tx

LEMMA BeginDoes ==
  ASSUME TypeOK, NEW w \in Worker, Begin(w)
  PROVE  /\ tx' \in [Worker -> Tx]
         /\ Others(w)
         /\ \E call \in Calls, o \in Order :
              /\ Known(call, o)
              /\ tx'[w] = [Idle EXCEPT !.pc = "read", !.call = call, !.os = {o}]
         /\ UNCHANGED <<db, lock>>
<1>1. PICK call \in Calls, o \in Order :
         /\ Known(call, o)
         /\ tx' = [tx EXCEPT ![w] = [Idle EXCEPT !.pc = "read", !.call = call, !.os = {o}]]
  BY DEF Begin
<1>2. [Idle EXCEPT !.pc = "read", !.call = call, !.os = {o}] \in Tx
  BY CallsAssumption DEF Idle, Tx, Call, OrderStatus
<1> QED
  BY <1>1, <1>2 DEF Begin, TypeOK, Others

LEMMA ReadDoes ==
  ASSUME TypeOK, NEW w \in Worker, Read(w)
  PROVE  /\ tx[w].pc = "read"
         /\ tx' \in [Worker -> Tx]
         /\ Others(w)
         /\ \E o \in tx[w].os :
              tx'[w] = [tx[w] EXCEPT !.pc = IF Alters(w) THEN "alter" ELSE "work",
                                     !.was = ord[o], !.bill = seated, !.todo = Reads(w)]
         /\ tx[w].call = "reject" => \A o \in tx[w].os : ord[o] = "pending"
         /\ UNCHANGED <<db, lock>>
<1>1. PICK o \in tx[w].os :
         tx' = [tx EXCEPT ![w].pc = IF Alters(w) THEN "alter" ELSE "work",
                          ![w].was = ord[o], ![w].bill = seated,
                          ![w].todo = Reads(w)]
  BY DEF Read
<1> DEFINE r == [tx[w] EXCEPT !.pc = IF Alters(w) THEN "alter" ELSE "work",
                              !.was = ord[o], !.bill = seated, !.todo = Reads(w)]
<1>2. Reads(w) \subseteq Order
  BY Fields, CallsAssumption DEF Reads
<1>3. ord[o] \in OrderStatus /\ seated \in BOOLEAN
  BY Fields DEF TypeOK
<1>4. r \in Tx
  BY <1>2, <1>3, Fields DEF Tx
<1>5. tx' = [tx EXCEPT ![w] = r]
  BY <1>1, Fields DEF TypeOK, Tx
<1> QED
  BY <1>4, <1>5 DEF Read, TypeOK, Others

LEMMA AlterDoes ==
  ASSUME TypeOK, NEW w \in Worker, Alter(w)
  PROVE  /\ tx[w].pc = "alter"
         /\ tx' \in [Worker -> Tx]
         /\ Others(w)
         /\ tx'[w] = [tx[w] EXCEPT !.pc = "work",
                        !.todo = IF tx[w].call = "cancel" /\ tx[w].was # "completed"
                                 THEN tx[w].os ELSE {}]
         /\ UNCHANGED <<db, lock>>
<1> DEFINE r == [tx[w] EXCEPT !.pc = "work",
                   !.todo = IF tx[w].call = "cancel" /\ tx[w].was # "completed"
                            THEN tx[w].os ELSE {}]
<1>1. r \in Tx
  BY Fields DEF Tx
<1>2. tx' = [tx EXCEPT ![w] = r]
  BY Fields DEF Alter, TypeOK, Tx
<1> QED
  BY <1>1, <1>2 DEF Alter, TypeOK, Others

LEMMA NextOrderDoes ==
  ASSUME TypeOK, NEW w \in Worker, NextOrder(w)
  PROVE  /\ tx[w].pc = "work" /\ tx[w].now = {}
         /\ tx' \in [Worker -> Tx]
         /\ Others(w)
         /\ \E o \in tx[w].todo :
              tx'[w] = [tx[w] EXCEPT !.todo = tx[w].todo \ {o}, !.now = {o},
                                     !.left = RowsOf(w, o)]
         /\ UNCHANGED <<db, lock>>
<1>1. PICK o \in tx[w].todo :
         tx' = [tx EXCEPT ![w].todo = @ \ {o}, ![w].now = {o}, ![w].left = RowsOf(w, o)]
  BY DEF NextOrder
<1> DEFINE r == [tx[w] EXCEPT !.todo = tx[w].todo \ {o}, !.now = {o}, !.left = RowsOf(w, o)]
<1>2. RowsOf(w, o) \subseteq Ingredient
  BY DEF RowsOf
<1>3. r \in Tx
  BY <1>2, Fields DEF Tx
<1>4. tx' = [tx EXCEPT ![w] = r]
  BY <1>1, Fields DEF TypeOK, Tx
<1> QED
  BY <1>3, <1>4 DEF NextOrder, TypeOK, Others

\* A row is taken with enough of it there, so what is left is not negative.
LEMMA TakeRowDoes ==
  ASSUME TypeOK, NEW w \in Worker, TakeRow(w)
  PROVE  LET i == NextRow(w)
         IN  /\ i \in tx[w].left
             /\ \A j \in tx[w].left : i <= j
             /\ lock' = [lock EXCEPT ![i] = w]
             /\ tx' \in [Worker -> Tx]
             /\ Others(w)
             /\ \E n \in Nat :
                  tx'[w] = [tx[w] EXCEPT !.left = tx[w].left \ {i}, !.mine = tx[w].mine \cup {i},
                              !.wrote = [tx[w].wrote EXCEPT ![i] = n]]
             /\ UNCHANGED db
<1> DEFINE i == NextRow(w)
<1>1. i \in tx[w].left /\ \A j \in tx[w].left : i <= j
  BY Fields, MinIsLeast DEF TakeRow, NextRow
<1>2. PICK o \in tx[w].now : Enough(w, o, i) /\ Put(w, o, i)
  BY DEF TakeRow
<1>3. i \in Ingredient /\ o \in Order
  BY <1>1, Fields
<1>4. Seen(w, i) \in Nat /\ Need[o][i] \in Nat
  BY <1>3, Fields, NeedAssumption DEF Seen, TypeOK
<1>5. Changed(w, o, i) \in Nat
  BY <1>2, <1>4 DEF Changed, Enough
<1> DEFINE n == Changed(w, o, i)
           r == [tx[w] EXCEPT !.left = tx[w].left \ {i}, !.mine = tx[w].mine \cup {i},
                              !.wrote = [tx[w].wrote EXCEPT ![i] = n]]
<1>6. r \in Tx
  BY <1>3, <1>5, Fields DEF Tx
<1>7. tx' = [tx EXCEPT ![w] = r]
  BY <1>2, Fields DEF Put, TypeOK, Tx
<1> QED
  BY <1>1, <1>5, <1>6, <1>7 DEF TakeRow, TypeOK, Others

LEMMA OrderDoneDoes ==
  ASSUME TypeOK, NEW w \in Worker, OrderDone(w)
  PROVE  /\ tx[w].left = {}
         /\ tx' \in [Worker -> Tx]
         /\ Others(w)
         /\ \E S \in SUBSET tx[w].now :
              /\ tx'[w] = [tx[w] EXCEPT !.done = tx[w].done \cup S, !.now = {}]
              /\ \A o \in tx[w].now : tx[w].call = "create" \/ taken[o] => o \in S
         /\ UNCHANGED <<db, lock>>
<1> DEFINE S == {o \in tx[w].now : tx[w].call = "create" \/ taken[o]}
           r == [tx[w] EXCEPT !.done = tx[w].done \cup S, !.now = {}]
<1>1. r \in Tx
  BY Fields DEF Tx
<1>2. tx' = [tx EXCEPT ![w] = r]
  BY Fields DEF OrderDone, TypeOK, Tx
<1>3. /\ S \in SUBSET tx[w].now
      /\ \A o \in tx[w].now : tx[w].call = "create" \/ taken[o] => o \in S
  OBVIOUS
<1> HIDE DEF S
<1> QED
  BY <1>1, <1>2, <1>3 DEF OrderDone, TypeOK, Others

\* However a transaction ends, it is idle and holds no row.
LEMMA EndDoes ==
  ASSUME TypeOK, NEW w \in Worker, Commit(w) \/ Rollback(w)
  PROVE  /\ lock' = Released(w)
         /\ tx' \in [Worker -> Tx]
         /\ Others(w)
         /\ tx'[w] = Idle
<1>1. lock' = Released(w) /\ tx' = [tx EXCEPT ![w] = Idle]
  BY DEF Commit, Rollback
<1> QED
  BY <1>1, IdleType DEF TypeOK, Others

-----------------------------------------------------------------------------
(* Types *)

LEMMA CommitType ==
  ASSUME TypeOK, NEW w \in Worker, Commit(w)
  PROVE  /\ stock' \in [Ingredient -> Nat]
         /\ ord' \in [Order -> OrderStatus]
         /\ taken' \in [Order -> BOOLEAN]
         /\ given' \in [Order -> Nat]
         /\ seated' \in BOOLEAN
<1>1. \A i \in Ingredient : Seen(w, i) \in Nat
  BY Fields DEF Seen, TypeOK
<1>2. NewStatus(tx[w].call) \in OrderStatus
  BY Fields DEF NewStatus, OrderStatus
<1> QED
  BY <1>1, <1>2 DEF Commit, TypeOK

LEMMA ReleasedType ==
  ASSUME TypeOK, NEW w \in Worker
  PROVE  Released(w) \in [Ingredient -> Worker \cup {NoOne}]
  BY DEF Released, TypeOK

\* Every variable keeps its type: whatever transactions overlap, roll back or
\* wait, no quantity in products is ever negative.
THEOREM TypeCorrect == Spec => []TypeOK
<1>1. Init => TypeOK
  BY IdleType, InitialAssumption DEF Init, TypeOK, OrderStatus
<1>2. TypeOK /\ [Next]_vars => TypeOK'
  <2> SUFFICES ASSUME TypeOK, [Next]_vars PROVE TypeOK'
    OBVIOUS
  <2>1. CASE UNCHANGED vars
    BY <2>1 DEF vars, db, TypeOK
  <2>2. ASSUME NEW w \in Worker, Begin(w) PROVE TypeOK'
    BY <2>2, BeginDoes DEF TypeOK, db
  <2>3. ASSUME NEW w \in Worker, Read(w) \/ Alter(w) \/ NextOrder(w) \/ OrderDone(w)
        PROVE  TypeOK'
    BY <2>3, ReadDoes, AlterDoes, NextOrderDoes, OrderDoneDoes DEF TypeOK, db
  <2>4. ASSUME NEW w \in Worker, TakeRow(w) PROVE TypeOK'
    BY <2>4, TakeRowDoes DEF TypeOK, db
  <2>5. ASSUME NEW w \in Worker, Commit(w) PROVE TypeOK'
    <3>1. lock' \in [Ingredient -> Worker \cup {NoOne}] /\ tx' \in [Worker -> Tx]
      BY <2>5, EndDoes, ReleasedType
    <3> QED
      BY <2>5, <3>1, CommitType DEF TypeOK
  <2>6. ASSUME NEW w \in Worker, Rollback(w) PROVE TypeOK'
    <3>1. lock' \in [Ingredient -> Worker \cup {NoOne}] /\ tx' \in [Worker -> Tx]
      BY <2>6, EndDoes, ReleasedType
    <3> QED
      BY <2>6, <3>1 DEF Rollback, TypeOK, db
  <2> QED
    BY <2>1, <2>2, <2>3, <2>4, <2>5, <2>6 DEF Next, Step
<1> QED
  BY <1>1, <1>2, PTL DEF Spec

-----------------------------------------------------------------------------
(* No circle of waits *)

\* A transaction in a state like r takes rows in ascending order for one order
\* only, and it waits for the table lock only if it alters the table.
Ascends(r) ==
  /\ r.call \in {"create", "reject"} =>
       /\ \E o : r.os \subseteq {o} /\ r.todo \subseteq {o}
       /\ r.todo # {} => r.mine = {} /\ r.left = {}
       /\ \A i \in r.mine, j \in r.left : i < j
  /\ r.pc = "alter" => r.call \in {"serve", "cancel"}
  /\ r.pc \in {"idle", "read"} => r.todo = {} /\ r.mine = {} /\ r.left = {}

\* A row is held only by a transaction that has written it.
LockInv ==
  /\ TypeOK
  /\ \A w \in Worker : Ascends(tx[w])
  /\ \A i \in Ingredient, w \in Worker : lock[i] = w => i \in tx[w].mine

LEMMA LockStep == LockInv /\ TypeOK' /\ [Next]_vars => LockInv'
<1> SUFFICES ASSUME LockInv, TypeOK', [Next]_vars PROVE LockInv'
  OBVIOUS
<1>0. TypeOK
  BY DEF LockInv
<1>1. CASE UNCHANGED vars
  BY <1>1 DEF vars, db, LockInv
<1>2. ASSUME NEW w \in Worker, Others(w), Ascends(tx'[w]),
             \A i \in Ingredient : lock'[i] = w => i \in tx'[w].mine,
             \A i \in Ingredient, x \in Worker \ {w} : lock'[i] = x => lock[i] = x
      PROVE  LockInv'
  BY <1>2 DEF LockInv, Others
<1>3. ASSUME NEW w \in Worker, Begin(w) PROVE LockInv'
  <2>1. PICK call \in Calls, o \in Order :
          tx'[w] = [Idle EXCEPT !.pc = "read", !.call = call, !.os = {o}]
    BY <1>0, <1>3, BeginDoes
  <2>2. Ascends(tx'[w])
    BY <2>1 DEF Ascends, Idle
  <2>3. Others(w) /\ lock' = lock
    BY <1>0, <1>3, BeginDoes
  <2>4. \A i \in Ingredient : lock[i] # w
    <3>1. tx[w].pc = "idle"
      BY <1>3 DEF Begin
    <3> QED
      BY <3>1 DEF LockInv, Ascends
  <2> QED
    BY <1>2, <2>2, <2>3, <2>4
<1>4. ASSUME NEW w \in Worker, Read(w) PROVE LockInv'
  <2>1. PICK o \in tx[w].os :
          tx'[w] = [tx[w] EXCEPT !.pc = IF Alters(w) THEN "alter" ELSE "work",
                                 !.was = ord[o], !.bill = seated, !.todo = Reads(w)]
    BY <1>0, <1>4, ReadDoes
  <2>2. Others(w) /\ lock' = lock /\ tx[w].pc = "read"
    BY <1>0, <1>4, ReadDoes
  <2>3. /\ tx'[w].pc \in {"alter", "work"}
        /\ tx'[w].pc = "alter" => Alters(w)
        /\ tx'[w].call = tx[w].call /\ tx'[w].os = tx[w].os
        /\ tx'[w].todo = Reads(w) /\ tx'[w].mine = tx[w].mine
        /\ tx'[w].left = tx[w].left
    BY <1>0, <2>1, Fields DEF Tx
  <2>4. tx[w].call \in {"create", "reject"} => Reads(w) = tx[w].os
    BY DEF Reads
  <2>5. tx[w].mine = {} /\ tx[w].left = {} /\ Ascends(tx[w])
    BY <2>2 DEF LockInv, Ascends
  <2>6. Ascends(tx'[w])
    BY <2>3, <2>4, <2>5 DEF Ascends, Alters
  <2> QED
    BY <1>2, <2>2, <2>3, <2>6 DEF LockInv
<1>5. ASSUME NEW w \in Worker, Alter(w) PROVE LockInv'
  <2>1. Others(w) /\ lock' = lock /\ tx[w].pc = "alter"
    BY <1>0, <1>5, AlterDoes
  <2> DEFINE T == IF tx[w].call = "cancel" /\ tx[w].was # "completed" THEN tx[w].os ELSE {}
  <2>a. tx'[w] = [tx[w] EXCEPT !.pc = "work", !.todo = T]
    BY <1>0, <1>5, AlterDoes
  <2> HIDE DEF T
  <2>2. tx'[w].pc = "work" /\ tx'[w].call = tx[w].call /\ tx'[w].mine = tx[w].mine
    BY <1>0, <2>a, Fields DEF Tx
  <2>3. tx[w].call \in {"serve", "cancel"}
    BY <2>1 DEF LockInv, Ascends
  <2>4. Ascends(tx'[w])
    BY <2>2, <2>3 DEF Ascends
  <2> QED
    BY <1>2, <2>1, <2>2, <2>4 DEF LockInv
<1>6. ASSUME NEW w \in Worker, NextOrder(w) PROVE LockInv'
  <2>1. PICK o \in tx[w].todo :
          tx'[w] = [tx[w] EXCEPT !.todo = tx[w].todo \ {o}, !.now = {o}, !.left = RowsOf(w, o)]
    BY <1>0, <1>6, NextOrderDoes
  <2>2. Others(w) /\ lock' = lock /\ tx[w].pc = "work"
    BY <1>0, <1>6, NextOrderDoes
  <2>3. /\ tx'[w].pc = "work" /\ tx'[w].call = tx[w].call /\ tx'[w].os = tx[w].os
        /\ tx'[w].todo = tx[w].todo \ {o} /\ tx'[w].mine = tx[w].mine
    BY <1>0, <2>1, <2>2, Fields DEF Tx
  <2>4. Ascends(tx[w])
    BY DEF LockInv
  <2>5. Ascends(tx'[w])
    BY <2>3, <2>4 DEF Ascends
  <2> QED
    BY <1>2, <2>2, <2>3, <2>5 DEF LockInv
<1>7. ASSUME NEW w \in Worker, TakeRow(w) PROVE LockInv'
  <2> DEFINE i == NextRow(w)
  <2>1. PICK n \in Nat :
          tx'[w] = [tx[w] EXCEPT !.left = tx[w].left \ {i}, !.mine = tx[w].mine \cup {i},
                                 !.wrote = [tx[w].wrote EXCEPT ![i] = n]]
    BY <1>0, <1>7, TakeRowDoes
  <2>2. /\ Others(w) /\ lock' = [lock EXCEPT ![i] = w]
        /\ i \in tx[w].left /\ \A j \in tx[w].left : i <= j
    BY <1>0, <1>7, TakeRowDoes
  <2> HIDE DEF i
  <2>3. /\ tx'[w].pc = tx[w].pc /\ tx'[w].call = tx[w].call /\ tx'[w].os = tx[w].os
        /\ tx'[w].todo = tx[w].todo /\ tx'[w].mine = tx[w].mine \cup {i}
        /\ tx'[w].left = tx[w].left \ {i}
    BY <1>0, <2>1, Fields DEF Tx
  <2>4. tx[w].left \subseteq Ingredient /\ i \in Ingredient /\ Ingredient \subseteq Nat
    BY <1>0, <2>2, Fields, IngredientAssumption
  <2>5. Ascends(tx[w])
    BY DEF LockInv
  <2>6. \A j \in tx'[w].left : i < j
    BY <2>2, <2>3, <2>4
  <2>7. Ascends(tx'[w])
    BY <2>2, <2>3, <2>5, <2>6 DEF Ascends
  <2>8. \A k \in Ingredient : lock'[k] = IF k = i THEN w ELSE lock[k]
    BY <1>0, <2>2 DEF TypeOK
  <2> QED
    BY <1>2, <2>2, <2>3, <2>7, <2>8 DEF LockInv
<1>8. ASSUME NEW w \in Worker, OrderDone(w) PROVE LockInv'
  <2>1. PICK S \in SUBSET tx[w].now :
          tx'[w] = [tx[w] EXCEPT !.done = tx[w].done \cup S, !.now = {}]
    BY <1>0, <1>8, OrderDoneDoes
  <2>2. Others(w) /\ lock' = lock
    BY <1>0, <1>8, OrderDoneDoes
  <2>3. /\ tx'[w].pc = tx[w].pc /\ tx'[w].call = tx[w].call /\ tx'[w].os = tx[w].os
        /\ tx'[w].todo = tx[w].todo /\ tx'[w].mine = tx[w].mine /\ tx'[w].left = tx[w].left
    BY <1>0, <2>1, Fields DEF Tx
  <2>4. Ascends(tx'[w])
    BY <2>3 DEF LockInv, Ascends
  <2> QED
    BY <1>2, <2>2, <2>3, <2>4 DEF LockInv
<1>9. ASSUME NEW w \in Worker, Commit(w) \/ Rollback(w) PROVE LockInv'
  <2>1. lock' = Released(w) /\ Others(w) /\ tx'[w] = Idle
    BY <1>0, <1>9, EndDoes
  <2>2. \A i \in Ingredient : lock'[i] = IF lock[i] = w THEN NoOne ELSE lock[i]
    BY <2>1 DEF Released
  <2>3. \A x \in Worker : x # NoOne
    BY NoOneAssumption
  <2>4. Ascends(tx'[w])
    <3>1. Idle.call = "create" /\ Idle.os = {} /\ Idle.todo = {} /\ Idle.mine = {} /\ Idle.left = {} /\ Idle.pc = "idle"
      BY DEF Idle
    <3> QED
      BY <2>1, <3>1 DEF Ascends
  <2> QED
    BY <1>2, <2>1, <2>2, <2>3, <2>4
<1> QED
  BY <1>1, <1>3, <1>4, <1>5, <1>6, <1>7, <1>8, <1>9 DEF Next, Step

\* LockInv holds in every behaviour.
LEMMA LockAlways == Spec => []LockInv
<1>1. Init => LockInv
  <2> SUFFICES ASSUME Init PROVE LockInv
    OBVIOUS
  <2>1. TypeOK
    BY IdleType, InitialAssumption DEF Init, TypeOK, OrderStatus
  <2>2. Ascends(Idle)
    BY DEF Ascends, Idle
  <2> QED
    BY <2>1, <2>2, NoOneAssumption DEF Init, LockInv
<1> QED
  BY <1>1, LockStep, TypeCorrect, PTL DEF Spec

\* Transactions that take or give back for a single order never wait for each
\* other in a circle, however many they are: the one that waits for the greatest
\* row would have to be waited for by one that has already passed it.
THEOREM NoDeadlock == Spec => []NoWaitCycle
<1>1. LockInv => NoWaitCycle
  <2> SUFFICES ASSUME LockInv,
                      NEW S \in SUBSET {w \in Worker : tx[w].call \in {"create", "reject"}},
                      Stuck(S)
               PROVE  FALSE
    BY DEF NoWaitCycle
  <2>0. TypeOK
    BY DEF LockInv
  <2>1. ASSUME NEW w \in S
        PROVE  /\ tx[w].left # {}
               /\ \E x \in S : lock[NextRow(w)] = x
    <3>1. PICK x \in S : Waits(w, x)
      BY DEF Stuck
    <3>2. ~(tx[w].pc = "read" /\ Exclusive(x))
      BY DEF Exclusive, Alters
    <3>3. ~(tx[w].pc = "alter" /\ HasRead(x))
      BY DEF LockInv, Ascends
    <3> QED
      BY <3>1, <3>2, <3>3 DEF Waits
  <2>2. ASSUME NEW w \in S
        PROVE  NextRow(w) \in tx[w].left /\ NextRow(w) \in Ingredient
    BY <2>0, <2>1, <2>2, Fields, MinIsLeast DEF NextRow
  <2>3. PICK w \in S : \A x \in S : NextRow(x) <= NextRow(w)
    <3> DEFINE R == {NextRow(x) : x \in S}
    <3>1. R \subseteq Ingredient /\ R # {}
      BY <2>2 DEF Stuck
    <3>2. \E i \in R : \A j \in R : j <= i
      BY <3>1, HasGreatest
    <3> QED
      BY <3>2
  <2>4. PICK x \in S : lock[NextRow(w)] = x
    BY <2>1
  <2>5. NextRow(w) \in tx[x].mine
    BY <2>2, <2>4 DEF LockInv
  <2>6. NextRow(w) < NextRow(x)
    BY <2>2, <2>5 DEF LockInv, Ascends
  <2>7. NextRow(w) \in Nat /\ NextRow(x) \in Nat
    BY <2>2, IngredientAssumption
  <2> QED
    BY <2>3, <2>6, <2>7
<1> QED
  BY <1>1, LockAlways, PTL

-----------------------------------------------------------------------------
(* One request at a time: what was read is still so *)

\* Orders the transaction in a state like r has in hand.
InHand(r) == r.todo \cup r.now \cup r.done

\* What a transaction in a state like r knows is still so.
Current(r) ==
  /\ r.pc \in {"idle", "read"} => InHand(r) = {}
  /\ \A o, p \in r.os : o = p
  /\ r.pc # "idle" =>
       \A o \in r.os :
         /\ r.call = "create" => ord[o] = "none"
         /\ r.call \notin {"create", "cancelTable"} => ord[o] # "none"
         /\ r.pc = "alter" => r.was = ord[o]
  /\ r.call # "create" => \A o \in InHand(r) : ord[o] # "none"

SerialInv == TypeOK /\ \A w \in Worker : Current(tx[w])

LEMMA SerialStep ==
  ASSUME NEW w \in Worker, \A x \in Worker : x = w,
         SerialInv, TypeOK', Begin(w) \/ Step(w) \/ Rollback(w)
  PROVE  SerialInv'
<1>0. TypeOK /\ Current(tx[w])
  BY DEF SerialInv
<1>2. ASSUME UNCHANGED db, Current(tx'[w]) PROVE SerialInv'
  BY <1>2 DEF SerialInv, db, Current
<1>3. CASE Begin(w)
  <2>1. PICK call \in Calls, o \in Order :
          /\ Known(call, o)
          /\ tx'[w] = [Idle EXCEPT !.pc = "read", !.call = call, !.os = {o}]
    BY <1>0, <1>3, BeginDoes
  <2>2. UNCHANGED db
    BY <1>3 DEF Begin
  <2>3. /\ tx'[w].pc = "read" /\ tx'[w].call = call /\ tx'[w].os = {o}
        /\ InHand(tx'[w]) = {}
    BY <2>1 DEF Idle, InHand
  <2>4. /\ call = "create" => ord[o] = "none"
        /\ call \notin {"create", "cancelTable"} => ord[o] # "none"
    BY <2>1, CallsAssumption DEF Known, Call
  <2>5. Current(tx'[w])
    BY <2>3, <2>4 DEF Current
  <2> QED
    BY <1>2, <2>2, <2>5 DEF SerialInv
<1>4. CASE Read(w)
  <2>1. PICK o \in tx[w].os :
          tx'[w] = [tx[w] EXCEPT !.pc = IF Alters(w) THEN "alter" ELSE "work",
                                 !.was = ord[o], !.bill = seated, !.todo = Reads(w)]
    BY <1>0, <1>4, ReadDoes
  <2>2. UNCHANGED db /\ tx[w].pc = "read"
    BY <1>0, <1>4, ReadDoes
  <2>3. tx[w].call = "reject" => \A p \in tx[w].os : ord[p] = "pending"
    BY <1>0, <1>4, ReadDoes
  <2>4. /\ tx'[w].pc \in {"alter", "work"} /\ tx'[w].call = tx[w].call
        /\ tx'[w].os = tx[w].os /\ tx'[w].was = ord[o] /\ tx'[w].bill = seated
        /\ tx'[w].todo = Reads(w) /\ tx'[w].now = tx[w].now /\ tx'[w].done = tx[w].done
    BY <1>0, <2>1, Fields DEF Tx
  <2>5. InHand(tx'[w]) = Reads(w)
    BY <1>0, <2>2, <2>4 DEF Current, InHand
  <2>6. tx[w].call # "create" => \A p \in Reads(w) : ord[p] # "none"
    BY <2>3 DEF Reads, Shown
  <2>7. \A p \in tx[w].os : p = o
    BY <1>0 DEF Current
  <2>8. Current(tx'[w])
    BY <1>0, <2>2, <2>4, <2>5, <2>6, <2>7 DEF Current
  <2> QED
    BY <1>2, <2>2, <2>8
<1>5. CASE Alter(w)
  <2> DEFINE T == IF tx[w].call = "cancel" /\ tx[w].was # "completed" THEN tx[w].os ELSE {}
  <2>1. tx'[w] = [tx[w] EXCEPT !.pc = "work", !.todo = T]
    BY <1>0, <1>5, AlterDoes
  <2>2. UNCHANGED db /\ tx[w].pc = "alter"
    BY <1>0, <1>5, AlterDoes
  <2> HIDE DEF T
  <2>4. /\ tx'[w].pc = "work" /\ tx'[w].call = tx[w].call /\ tx'[w].os = tx[w].os
        /\ tx'[w].todo = T /\ tx'[w].now = tx[w].now /\ tx'[w].done = tx[w].done
        /\ tx'[w].bill = tx[w].bill
    BY <1>0, <2>1, Fields DEF Tx
  <2>5. \A o \in T : ord[o] # "none"
    BY <1>0, <2>2 DEF T, Current
  <2>6. Current(tx'[w])
    BY <1>0, <2>2, <2>4, <2>5 DEF Current, InHand
  <2> QED
    BY <1>2, <2>2, <2>6
<1>6. CASE NextOrder(w)
  <2>1. PICK o \in tx[w].todo :
          tx'[w] = [tx[w] EXCEPT !.todo = tx[w].todo \ {o}, !.now = {o}, !.left = RowsOf(w, o)]
    BY <1>0, <1>6, NextOrderDoes
  <2>2. UNCHANGED db /\ tx[w].pc = "work"
    BY <1>0, <1>6, NextOrderDoes
  <2>3. /\ tx'[w].pc = tx[w].pc /\ tx'[w].call = tx[w].call /\ tx'[w].os = tx[w].os
        /\ tx'[w].bill = tx[w].bill /\ tx'[w].was = tx[w].was
        /\ InHand(tx'[w]) \subseteq InHand(tx[w])
    BY <1>0, <2>1, Fields DEF Tx, InHand
  <2>4. Current(tx'[w])
    BY <1>0, <2>3 DEF Current
  <2> QED
    BY <1>2, <2>2, <2>4
<1>7. CASE TakeRow(w)
  <2> DEFINE i == NextRow(w)
  <2>1. PICK n \in Nat :
          tx'[w] = [tx[w] EXCEPT !.left = tx[w].left \ {i}, !.mine = tx[w].mine \cup {i},
                                 !.wrote = [tx[w].wrote EXCEPT ![i] = n]]
    BY <1>0, <1>7, TakeRowDoes
  <2>2. UNCHANGED db
    BY <1>0, <1>7, TakeRowDoes
  <2> HIDE DEF i
  <2>3. /\ tx'[w].pc = tx[w].pc /\ tx'[w].call = tx[w].call /\ tx'[w].os = tx[w].os
        /\ tx'[w].bill = tx[w].bill /\ tx'[w].was = tx[w].was
        /\ InHand(tx'[w]) = InHand(tx[w])
    BY <1>0, <2>1, Fields DEF Tx, InHand
  <2>4. Current(tx'[w])
    BY <1>0, <2>3 DEF Current
  <2> QED
    BY <1>2, <2>2, <2>4
<1>8. CASE OrderDone(w)
  <2>1. PICK S \in SUBSET tx[w].now :
          tx'[w] = [tx[w] EXCEPT !.done = tx[w].done \cup S, !.now = {}]
    BY <1>0, <1>8, OrderDoneDoes
  <2>2. UNCHANGED db
    BY <1>0, <1>8, OrderDoneDoes
  <2>3. /\ tx'[w].pc = tx[w].pc /\ tx'[w].call = tx[w].call /\ tx'[w].os = tx[w].os
        /\ tx'[w].bill = tx[w].bill /\ tx'[w].was = tx[w].was
        /\ InHand(tx'[w]) \subseteq InHand(tx[w])
    BY <1>0, <2>1, Fields DEF Tx, InHand
  <2>4. Current(tx'[w])
    BY <1>0, <2>3 DEF Current
  <2> QED
    BY <1>2, <2>2, <2>4
<1>9. /\ Idle.pc = "idle" /\ Idle.call = "create" /\ Idle.os = {} /\ InHand(Idle) = {}
  BY DEF Idle, InHand
<1>10. CASE Rollback(w)
  <2>1. UNCHANGED db /\ tx'[w] = Idle
    BY <1>0, <1>10, EndDoes DEF Rollback
  <2>2. Current(Idle)
    BY <1>9 DEF Current
  <2> QED
    BY <1>2, <2>1, <2>2
<1>11. CASE Commit(w)
  <2>1. tx'[w] = Idle
    BY <1>0, <1>11, EndDoes
  <2>2. Current(tx[w])'
    BY <1>9, <2>1 DEF Current
  <2> QED
    BY <2>2 DEF SerialInv
<1> QED
  BY <1>3, <1>4, <1>5, <1>6, <1>7, <1>8, <1>10, <1>11 DEF Step

LEMMA SerialInit == Init => SerialInv
<1> SUFFICES ASSUME Init PROVE SerialInv
  OBVIOUS
<1>1. TypeOK
  BY IdleType, InitialAssumption DEF Init, TypeOK, OrderStatus
<1>2. Current(Idle)
  BY DEF Current, Idle, InHand
<1> QED
  BY <1>1, <1>2 DEF Init, SerialInv

LEMMA SerialAlways ==
  ASSUME NEW w0, Worker = {w0}
  PROVE  Spec => []SerialInv
<1>1. SerialInv /\ TypeOK' /\ [Next]_vars => SerialInv'
  <2> SUFFICES ASSUME SerialInv, TypeOK', [Next]_vars PROVE SerialInv'
    OBVIOUS
  <2>1. CASE UNCHANGED vars
    BY <2>1 DEF vars, db, SerialInv, Current
  <2>2. CASE Next
    <3>1. PICK w \in Worker : Begin(w) \/ Step(w) \/ Rollback(w)
      BY <2>2 DEF Next
    <3>2. \A x \in Worker : x = w
      OBVIOUS
    <3> QED
      BY <3>1, <3>2, SerialStep
  <2> QED
    BY <2>1, <2>2
<1> QED
  BY <1>1, SerialInit, TypeCorrect, PTL DEF Spec

-----------------------------------------------------------------------------
(* Nothing is given back of what was served *)

\* A transaction that alters the table orders is the only one that has read it;
\* so what the others know of completed orders is still so.
Fresh(w) ==
  /\ tx[w].pc \in {"idle", "read"} => InHand(tx[w]) = {}
  /\ \A o, p \in tx[w].os : o = p
  /\ tx[w].pc = "alter" =>
       /\ InHand(tx[w]) = {}
       /\ Alters(w)
       /\ tx[w].was # "completed" => \A o \in tx[w].os : ord[o] # "completed"
  /\ Exclusive(w) => \A x \in Worker \ {w} : ~HasRead(x)
  /\ tx[w].call # "create" => \A o \in InHand(tx[w]) : ord[o] # "completed"

ServeInv == TypeOK /\ \A w \in Worker : Fresh(w)

\* While the orders stay, the transaction of w alone matters.
LEMMA FreshOthers ==
  ASSUME ServeInv, NEW w \in Worker, Others(w), UNCHANGED ord, Fresh(w)',
         HasRead(w)' => HasRead(w) \/ \A x \in Worker \ {w} : ~Exclusive(x),
         TypeOK'
  PROVE  ServeInv'
<1> SUFFICES ASSUME NEW x \in Worker, x # w PROVE Fresh(x)'
  BY DEF ServeInv
<1>1. Fresh(x) /\ tx'[x] = tx[x]
  BY DEF ServeInv, Others
<1>2. \A y \in Worker : y # w => HasRead(y)' = HasRead(y)
  BY DEF Others, HasRead
<1>3. Exclusive(x)' => \A y \in Worker \ {x} : ~HasRead(y)'
  BY <1>1, <1>2 DEF Fresh, Exclusive, Alters
<1> QED
  BY <1>1, <1>3 DEF Fresh, Alters

LEMMA ServeStep ==
  ASSUME ServeInv, TypeOK', NEW w \in Worker, Begin(w) \/ Step(w) \/ Rollback(w)
  PROVE  ServeInv'
<1>0. TypeOK /\ Fresh(w)
  BY DEF ServeInv
<1>1. CASE Begin(w)
  <2>1. PICK call \in Calls, o \in Order :
          tx'[w] = [Idle EXCEPT !.pc = "read", !.call = call, !.os = {o}]
    BY <1>0, <1>1, BeginDoes
  <2>2. Others(w) /\ UNCHANGED ord
    BY <1>0, <1>1, BeginDoes DEF db
  <2>3. /\ tx'[w].pc = "read" /\ tx'[w].os = {o} /\ InHand(tx'[w]) = {}
    BY <2>1 DEF Idle, InHand
  <2>4. Fresh(w)' /\ ~HasRead(w)'
    BY <2>3 DEF Fresh, Exclusive, HasRead
  <2> QED
    BY <2>2, <2>4, FreshOthers
<1>2. CASE Read(w)
  <2>1. PICK o \in tx[w].os :
          tx'[w] = [tx[w] EXCEPT !.pc = IF Alters(w) THEN "alter" ELSE "work",
                                 !.was = ord[o], !.bill = seated, !.todo = Reads(w)]
    BY <1>0, <1>2, ReadDoes
  <2>2. Others(w) /\ UNCHANGED ord /\ tx[w].pc = "read"
    BY <1>0, <1>2, ReadDoes DEF db
  <2>3. tx[w].call = "reject" => \A p \in tx[w].os : ord[p] = "pending"
    BY <1>0, <1>2, ReadDoes
  <2>4. \A x \in Worker \ {w} : ~Exclusive(x)
    BY <1>2, <2>2 DEF Read, Free, Waits
  <2>5. /\ tx'[w].pc = (IF Alters(w) THEN "alter" ELSE "work") /\ tx'[w].call = tx[w].call
        /\ tx'[w].os = tx[w].os /\ tx'[w].was = ord[o]
        /\ tx'[w].todo = Reads(w) /\ tx'[w].now = tx[w].now /\ tx'[w].done = tx[w].done
    BY <1>0, <2>1, Fields DEF Tx
  <2>6. InHand(tx'[w]) = Reads(w)
    BY <1>0, <2>2, <2>5 DEF Fresh, InHand
  <2>7. tx[w].call # "create" => \A p \in Reads(w) : ord[p] # "completed"
    BY <2>3 DEF Reads, Shown
  <2>8. Alters(w) => Reads(w) = {}
    BY DEF Alters, Reads
  <2>9. \A p \in tx[w].os : p = o
    BY <1>0 DEF Fresh
  <2>10. Alters(w)' = Alters(w)
    BY <2>5 DEF Alters
  <2>11. Fresh(w)'
    BY <1>0, <2>2, <2>5, <2>6, <2>7, <2>8, <2>9, <2>10 DEF Fresh, Exclusive
  <2> QED
    BY <2>2, <2>4, <2>11, FreshOthers
<1>3. CASE Alter(w)
  <2> DEFINE T == IF tx[w].call = "cancel" /\ tx[w].was # "completed" THEN tx[w].os ELSE {}
  <2>1. tx'[w] = [tx[w] EXCEPT !.pc = "work", !.todo = T]
    BY <1>0, <1>3, AlterDoes
  <2>2. Others(w) /\ UNCHANGED ord /\ tx[w].pc = "alter"
    BY <1>0, <1>3, AlterDoes DEF db
  <2>3. \A o \in T : ord[o] # "completed"
    BY <1>0, <2>2 DEF Fresh
  <2> HIDE DEF T
  <2>4. \A x \in Worker \ {w} : ~HasRead(x)
    BY <1>3, <2>2 DEF Alter, Free, Waits
  <2>5. \A x \in Worker \ {w} : ~HasRead(x)'
    BY <2>2, <2>4 DEF Others, HasRead
  <2>6. /\ tx'[w].pc = "work" /\ tx'[w].call = tx[w].call /\ tx'[w].os = tx[w].os
        /\ InHand(tx'[w]) = T
    BY <1>0, <2>1, <2>2, Fields DEF Tx, InHand, Fresh
  <2>7. Fresh(w)'
    BY <1>0, <2>2, <2>3, <2>5, <2>6 DEF Fresh
  <2>8. HasRead(w)
    BY <2>2 DEF HasRead
  <2> QED
    BY <2>2, <2>7, <2>8, FreshOthers
<1>4. CASE NextOrder(w) \/ TakeRow(w) \/ OrderDone(w)
  <2>1. /\ tx'[w].pc = tx[w].pc /\ tx'[w].call = tx[w].call /\ tx'[w].os = tx[w].os
        /\ tx'[w].was = tx[w].was /\ InHand(tx'[w]) \subseteq InHand(tx[w])
    <3>1. CASE NextOrder(w)
      <4>1. PICK o \in tx[w].todo :
              tx'[w] = [tx[w] EXCEPT !.todo = tx[w].todo \ {o}, !.now = {o}, !.left = RowsOf(w, o)]
        BY <1>0, <3>1, NextOrderDoes
      <4> QED
        BY <1>0, <4>1, Fields DEF Tx, InHand
    <3>2. CASE TakeRow(w)
      <4> DEFINE i == NextRow(w)
      <4>1. PICK n \in Nat :
              tx'[w] = [tx[w] EXCEPT !.left = tx[w].left \ {i}, !.mine = tx[w].mine \cup {i},
                                     !.wrote = [tx[w].wrote EXCEPT ![i] = n]]
        BY <1>0, <3>2, TakeRowDoes
      <4> HIDE DEF i
      <4> QED
        BY <1>0, <4>1, Fields DEF Tx, InHand
    <3>3. CASE OrderDone(w)
      <4>1. PICK S \in SUBSET tx[w].now :
              tx'[w] = [tx[w] EXCEPT !.done = tx[w].done \cup S, !.now = {}]
        BY <1>0, <3>3, OrderDoneDoes
      <4> QED
        BY <1>0, <4>1, Fields DEF Tx, InHand
    <3> QED
      BY <1>4, <3>1, <3>2, <3>3
  <2>2. Others(w) /\ UNCHANGED ord
    BY <1>0, <1>4, NextOrderDoes, TakeRowDoes, OrderDoneDoes DEF db
  <2>3. \A x \in Worker \ {w} : HasRead(x)' = HasRead(x)
    BY <2>2 DEF Others, HasRead
  <2>4. Exclusive(w)' = Exclusive(w) /\ Alters(w)' = Alters(w) /\ HasRead(w)' = HasRead(w)
    BY <2>1 DEF Exclusive, Alters, HasRead
  <2>5. Fresh(w)'
    BY <1>0, <2>1, <2>2, <2>3, <2>4 DEF Fresh
  <2> QED
    BY <2>2, <2>4, <2>5, FreshOthers
<1>5. Idle.pc = "idle" /\ Idle.os = {} /\ InHand(Idle) = {}
  BY DEF Idle, InHand
<1>6. CASE Rollback(w)
  <2>1. Others(w) /\ UNCHANGED ord /\ tx'[w] = Idle
    BY <1>0, <1>6, EndDoes DEF Rollback, db
  <2>2. Fresh(w)' /\ ~HasRead(w)'
    BY <1>5, <2>1 DEF Fresh, Exclusive, HasRead
  <2> QED
    BY <2>1, <2>2, FreshOthers
<1>7. CASE Commit(w)
  <2>1. Others(w) /\ tx'[w] = Idle
    BY <1>0, <1>7, EndDoes
  <2>2. Fresh(w)' /\ ~HasRead(w)'
    BY <1>5, <2>1 DEF Fresh, Exclusive, HasRead
  <2>3. tx[w].pc = "work"
    BY <1>7 DEF Commit
  <2> SUFFICES ASSUME NEW x \in Worker, x # w PROVE Fresh(x)'
    BY <2>2 DEF ServeInv
  <2>4. Fresh(x) /\ tx'[x] = tx[x]
    BY <2>1 DEF ServeInv, Others
  <2>5. Exclusive(x)' => \A y \in Worker \ {x} : ~HasRead(y)'
    <3>1. \A y \in Worker : HasRead(y)' => HasRead(y)
      BY <2>1, <2>2 DEF Others, HasRead
    <3> QED
      BY <2>4, <3>1 DEF Fresh, Exclusive, Alters
  <2>6. CASE tx[w].call = "serve"
    <3>1. Exclusive(w)
      BY <2>3, <2>6 DEF Exclusive, Alters
    <3>2. tx[x].pc \in {"idle", "read"}
      BY <1>0, <3>1, Fields DEF Fresh, HasRead
    <3> QED
      BY <2>4, <2>5, <3>2 DEF Fresh
  <2>7. CASE tx[w].call # "serve"
    <3>1. \A o \in Order : ord[o] # "completed" => ord'[o] # "completed"
      BY <1>7, <2>7 DEF Commit, NewStatus
    <3>2. tx[x].os \subseteq Order /\ InHand(tx[x]) \subseteq Order
      BY <1>0, Fields DEF InHand
    <3> QED
      BY <2>4, <2>5, <3>1, <3>2 DEF Fresh, Alters
  <2> QED
    BY <2>6, <2>7
<1> QED
  BY <1>1, <1>2, <1>3, <1>4, <1>6, <1>7 DEF Step

\* However transactions overlap, wait or are rolled back: nothing is given back
\* of an order that has been completed when the transaction commits, although it
\* looked before it waited for its locks.  The ALTER TABLE of every status update
\* is what shuts the others out.
THEOREM ServedKept == Spec => ServedIsKept
<1> DEFINE Keeps == \A o \in Order : given'[o] > given[o] => ord[o] # "completed"
<1>1. Init => ServeInv
  <2> SUFFICES ASSUME Init PROVE ServeInv
    OBVIOUS
  <2>1. TypeOK
    BY IdleType, InitialAssumption DEF Init, TypeOK, OrderStatus
  <2>2. Idle.pc = "idle" /\ Idle.os = {} /\ InHand(Idle) = {}
    BY DEF Idle, InHand
  <2> QED
    BY <2>1, <2>2 DEF Init, ServeInv, Fresh, Exclusive
<1>2. ServeInv /\ TypeOK' /\ [Next]_vars => ServeInv'
  <2> SUFFICES ASSUME ServeInv, TypeOK', [Next]_vars PROVE ServeInv'
    OBVIOUS
  <2>1. CASE UNCHANGED vars
    BY <2>1 DEF vars, db, ServeInv, Fresh, Exclusive, Alters, HasRead
  <2>2. CASE Next
    BY <2>2, ServeStep DEF Next
  <2> QED
    BY <2>1, <2>2
<1>3. ServeInv /\ [Next]_vars => [Keeps]_vars
  <2> SUFFICES ASSUME ServeInv, Next, NEW o \in Order, given'[o] > given[o]
               PROVE  ord[o] # "completed"
    OBVIOUS
  <2>1. PICK w \in Worker : Begin(w) \/ Step(w) \/ Rollback(w)
    BY DEF Next
  <2>2. given[o] \in Nat
    BY DEF ServeInv, TypeOK
  <2>3. given' # given
    BY <2>2
  <2>4. Commit(w)
    BY <2>1, <2>3 DEF Begin, Step, Read, Alter, NextOrder, TakeRow, OrderDone, Rollback, db
  <2>5. tx[w].call # "create" /\ o \in tx[w].done
    BY <2>2, <2>4 DEF Commit
  <2> QED
    BY <2>5 DEF ServeInv, Fresh, InHand
<1> QED
  BY <1>1, <1>2, <1>3, TypeCorrect, PTL DEF Spec, ServedIsKept

-----------------------------------------------------------------------------
(* One request at a time: given back whenever it should be *)

\* Nothing the transaction in a state like r is due to do has been passed over.
Complete(r) ==
  /\ r.pc # "idle" => r.call # "kitchenCancel"
  /\ r.pc = "alter" => r.call \in {"serve", "cancel"}
  /\ r.pc = "work" =>
       /\ r.call = "create" => r.os \subseteq InHand(r)
       /\ r.call \in {"cancel", "reject"} =>
            \A o \in r.os : ord[o] \in Shown => o \in InHand(r)
       /\ r.call = "cancelTable" /\ r.bill =>
            \A o \in AtTable : ord[o] \in Shown => o \in InHand(r)

Restores == {"cancel", "reject", "cancelTable"}

\* Every order that exists has taken its ingredients.
GiveInv ==
  /\ SerialInv
  /\ \A o \in Order : ord[o] # "none" => taken[o]
  /\ \A w \in Worker : Complete(tx[w])

LEMMA CommitHand ==
  ASSUME NEW w \in Worker, Commit(w)
  PROVE  InHand(tx[w]) = tx[w].done
  BY DEF Commit, InHand

\* A transaction that cancels an open order gives its ingredients back.
LEMMA CommitGives ==
  ASSUME NEW w \in Worker, GiveInv, Commit(w),
         NEW o \in Order, ord[o] \in Shown, ord'[o] = "cancelled"
  PROVE  given'[o] > given[o]
<1>1. o \in Writes(w) /\ NewStatus(tx[w].call) = "cancelled"
  BY DEF Commit, Shown
<1>2. tx[w].pc = "work" /\ Complete(tx[w]) /\ tx[w].call \in Call
  BY Fields DEF Commit, GiveInv, SerialInv
<1>3. tx[w].call \in Restores
  BY <1>1, <1>2 DEF NewStatus, Restores, Call, Complete
<1>4. o \in InHand(tx[w])
  BY <1>1, <1>2, <1>3 DEF Complete, Writes, Restores
<1>5. o \in tx[w].done /\ tx[w].call # "create"
  BY <1>3, <1>4, CommitHand DEF Restores
<1>6. given'[o] = given[o] + 1 /\ given[o] \in Nat
  BY <1>5 DEF Commit, GiveInv, SerialInv, TypeOK
<1> QED
  BY <1>6

LEMMA GiveStep ==
  ASSUME NEW w \in Worker, \A x \in Worker : x = w, "kitchenCancel" \notin Calls,
         GiveInv, SerialInv', Begin(w) \/ Step(w) \/ Rollback(w)
  PROVE  GiveInv'
<1>0. TypeOK /\ Current(tx[w]) /\ Complete(tx[w])
  BY DEF GiveInv, SerialInv
<1>1. ASSUME UNCHANGED db, Complete(tx'[w]) PROVE GiveInv'
  BY <1>1 DEF GiveInv, db, Complete
<1>2. CASE Begin(w)
  <2>1. PICK call \in Calls, o \in Order :
          tx'[w] = [Idle EXCEPT !.pc = "read", !.call = call, !.os = {o}]
    BY <1>0, <1>2, BeginDoes
  <2>2. UNCHANGED db
    BY <1>2 DEF Begin
  <2>3. tx'[w].pc = "read" /\ tx'[w].call = call
    BY <2>1 DEF Idle
  <2>4. Complete(tx'[w])
    BY <2>3 DEF Complete
  <2> QED
    BY <1>1, <2>2, <2>4
<1>3. CASE Read(w)
  <2>1. PICK o \in tx[w].os :
          tx'[w] = [tx[w] EXCEPT !.pc = IF Alters(w) THEN "alter" ELSE "work",
                                 !.was = ord[o], !.bill = seated, !.todo = Reads(w)]
    BY <1>0, <1>3, ReadDoes
  <2>2. UNCHANGED db /\ tx[w].pc = "read"
    BY <1>0, <1>3, ReadDoes
  <2>3. /\ tx'[w].pc = IF Alters(w) THEN "alter" ELSE "work"
        /\ tx'[w].call = tx[w].call /\ tx'[w].os = tx[w].os /\ tx'[w].bill = seated
        /\ Reads(w) \subseteq InHand(tx'[w])
    BY <1>0, <2>1, Fields DEF Tx, InHand
  <2>4. Complete(tx'[w])
    BY <1>0, <2>2, <2>3 DEF Complete, Alters, Reads
  <2> QED
    BY <1>1, <2>2, <2>4
<1>4. CASE Alter(w)
  <2> DEFINE T == IF tx[w].call = "cancel" /\ tx[w].was # "completed" THEN tx[w].os ELSE {}
  <2>1. tx'[w] = [tx[w] EXCEPT !.pc = "work", !.todo = T]
    BY <1>0, <1>4, AlterDoes
  <2>2. UNCHANGED db /\ tx[w].pc = "alter"
    BY <1>0, <1>4, AlterDoes
  <2> HIDE DEF T
  <2>3. /\ tx'[w].pc = "work" /\ tx'[w].call = tx[w].call /\ tx'[w].os = tx[w].os
        /\ T \subseteq InHand(tx'[w])
    BY <1>0, <2>1, Fields DEF Tx, InHand
  <2>4. tx[w].call = "cancel" => \A o \in tx[w].os : ord[o] \in Shown => o \in T
    BY <1>0, <2>2 DEF T, Current, Shown
  <2>5. Complete(tx'[w])
    BY <1>0, <2>2, <2>3, <2>4 DEF Complete
  <2> QED
    BY <1>1, <2>2, <2>5
<1>5. CASE NextOrder(w)
  <2>1. PICK o \in tx[w].todo :
          tx'[w] = [tx[w] EXCEPT !.todo = tx[w].todo \ {o}, !.now = {o}, !.left = RowsOf(w, o)]
    BY <1>0, <1>5, NextOrderDoes
  <2>2. UNCHANGED db /\ tx[w].now = {}
    BY <1>0, <1>5, NextOrderDoes
  <2>3. /\ tx'[w].pc = tx[w].pc /\ tx'[w].call = tx[w].call /\ tx'[w].os = tx[w].os
        /\ tx'[w].bill = tx[w].bill /\ InHand(tx'[w]) = InHand(tx[w])
    BY <1>0, <2>1, <2>2, Fields DEF Tx, InHand
  <2>4. Complete(tx'[w])
    BY <1>0, <2>3 DEF Complete
  <2> QED
    BY <1>1, <2>2, <2>4
<1>6. CASE TakeRow(w)
  <2> DEFINE i == NextRow(w)
  <2>1. PICK n \in Nat :
          tx'[w] = [tx[w] EXCEPT !.left = tx[w].left \ {i}, !.mine = tx[w].mine \cup {i},
                                 !.wrote = [tx[w].wrote EXCEPT ![i] = n]]
    BY <1>0, <1>6, TakeRowDoes
  <2>2. UNCHANGED db
    BY <1>0, <1>6, TakeRowDoes
  <2> HIDE DEF i
  <2>3. /\ tx'[w].pc = tx[w].pc /\ tx'[w].call = tx[w].call /\ tx'[w].os = tx[w].os
        /\ tx'[w].bill = tx[w].bill /\ InHand(tx'[w]) = InHand(tx[w])
    BY <1>0, <2>1, Fields DEF Tx, InHand
  <2>4. Complete(tx'[w])
    BY <1>0, <2>3 DEF Complete
  <2> QED
    BY <1>1, <2>2, <2>4
<1>7. CASE OrderDone(w)
  <2>1. PICK S \in SUBSET tx[w].now :
          /\ tx'[w] = [tx[w] EXCEPT !.done = tx[w].done \cup S, !.now = {}]
          /\ \A o \in tx[w].now : tx[w].call = "create" \/ taken[o] => o \in S
    BY <1>0, <1>7, OrderDoneDoes
  <2>2. UNCHANGED db
    BY <1>0, <1>7, OrderDoneDoes
  <2>3. S = tx[w].now
    <3>1. \A o \in tx[w].now : tx[w].call # "create" => ord[o] # "none" /\ o \in Order
      BY <1>0, Fields DEF Current, InHand, Shown
    <3> QED
      BY <2>1, <3>1 DEF GiveInv
  <2>4. /\ tx'[w].pc = tx[w].pc /\ tx'[w].call = tx[w].call /\ tx'[w].os = tx[w].os
        /\ tx'[w].bill = tx[w].bill /\ InHand(tx'[w]) = InHand(tx[w])
    BY <1>0, <2>1, <2>3, Fields DEF Tx, InHand
  <2>5. Complete(tx'[w])
    BY <1>0, <2>4 DEF Complete
  <2> QED
    BY <1>1, <2>2, <2>5
<1>8. CASE Rollback(w)
  <2>1. UNCHANGED db /\ tx'[w] = Idle
    BY <1>0, <1>8, EndDoes DEF Rollback
  <2>2. Complete(Idle)
    BY DEF Complete, Idle
  <2> QED
    BY <1>1, <2>1, <2>2
<1>9. CASE Commit(w)
  <2>1. tx'[w].pc = "idle"
    BY <1>0, <1>9, EndDoes DEF Idle
  <2>2. Complete(tx[w])'
    BY <2>1 DEF Complete
  <2>3. ASSUME NEW o \in Order, ord'[o] # "none" PROVE taken'[o]
    <3>1. /\ ord'[o] = IF o \in Writes(w) THEN NewStatus(tx[w].call) ELSE ord[o]
          /\ taken'[o] = (taken[o] \/ (tx[w].call = "create" /\ o \in tx[w].done))
          /\ tx[w].pc = "work"
      BY <1>9 DEF Commit
    <3>2. CASE ord[o] # "none"
      BY <3>1, <3>2 DEF GiveInv
    <3>3. CASE ord[o] = "none"
      <4>1. o \in Writes(w)
        BY <2>3, <3>1, <3>3
      <4>2. o \in tx[w].os
        BY <3>3, <4>1 DEF Writes
      <4>3. tx[w].call = "create"
        <5>1. tx[w].call \in Call /\ tx[w].call # "kitchenCancel" /\ tx[w].call # "cancelTable"
          BY <1>0, <3>1, <3>3, <4>1, Fields DEF Complete, Writes
        <5> QED
          BY <1>0, <3>1, <3>3, <4>2, <5>1 DEF Current, Call, Shown
      <4>4. o \in tx[w].done
        BY <1>0, <1>9, <3>1, <4>2, <4>3, CommitHand DEF Complete
      <4> QED
        BY <3>1, <4>3, <4>4
    <3> QED
      BY <3>2, <3>3
  <2> QED
    BY <2>2, <2>3 DEF GiveInv
<1> QED
  BY <1>2, <1>3, <1>4, <1>5, <1>6, <1>7, <1>8, <1>9 DEF Step

\* One request at a time, and the kitchen cancels no ticket: an order that is
\* cancelled before it is completed gives its ingredients back, whichever of the
\* other calls cancels it.
THEOREM SerialGivesBack ==
  ASSUME NEW w0, Worker = {w0}, "kitchenCancel" \notin Calls
  PROVE  Spec => CancelGivesBack
<1> DEFINE Gives == \A o \in Order : ord[o] \in Shown /\ ord'[o] = "cancelled" => given'[o] > given[o]
<1>1. Init => GiveInv
  <2> SUFFICES ASSUME Init PROVE GiveInv
    OBVIOUS
  <2>1. Complete(Idle)
    BY DEF Complete, Idle
  <2>2. SerialInv
    BY SerialInit
  <2> QED
    BY <2>1, <2>2 DEF Init, GiveInv
<1>2. ASSUME NEW w \in Worker PROVE \A x \in Worker : x = w
  OBVIOUS
<1>3. GiveInv /\ SerialInv' /\ [Next]_vars => GiveInv'
  <2> SUFFICES ASSUME GiveInv, SerialInv', [Next]_vars PROVE GiveInv'
    OBVIOUS
  <2>1. CASE UNCHANGED vars
    BY <2>1 DEF vars, db, GiveInv, Complete
  <2>2. CASE Next
    <3>1. PICK w \in Worker : Begin(w) \/ Step(w) \/ Rollback(w)
      BY <2>2 DEF Next
    <3> QED
      BY <1>2, <3>1, GiveStep
  <2> QED
    BY <2>1, <2>2
<1>4. GiveInv /\ [Next]_vars => [Gives]_vars
  <2> SUFFICES ASSUME GiveInv, Next, NEW o \in Order, ord[o] \in Shown, ord'[o] = "cancelled"
               PROVE  given'[o] > given[o]
    OBVIOUS
  <2>1. PICK w \in Worker : Begin(w) \/ Step(w) \/ Rollback(w)
    BY DEF Next
  <2>2. ord' # ord
    BY DEF Shown
  <2>3. Commit(w)
    BY <2>1, <2>2 DEF Begin, Step, Read, Alter, NextOrder, TakeRow, OrderDone, Rollback, db
  <2> QED
    BY <2>3, CommitGives
<1> QED
  BY <1>1, <1>3, <1>4, SerialAlways, PTL DEF Spec, CancelGivesBack

-----------------------------------------------------------------------------
(* What was taken and given back accounts for what is left *)

\* Order o, in hand in transaction w, has changed its copy of row i.
Counts(w, o, i) ==
  o \in tx[w].done \/ (o \in tx[w].now /\ i \in RowsOf(w, o) \ tx[w].left)

\* How much of ingredient i transaction w has taken or given back, by order.
Moved(w, i) == [o \in Order |-> IF Counts(w, o, i) THEN Need[o][i] ELSE 0]

\* No order is created twice, or changed before it exists.
Exists(w) ==
  /\ tx[w].call = "create" =>
       \A o \in tx[w].os :
         /\ ord[o] = "none"
         /\ \A x \in Worker \ {w} : tx[x].call = "create" => o \notin tx[x].os
  /\ tx[w].call \notin {"create", "cancelTable"} => \A o \in tx[w].os : ord[o] # "none"
  /\ \A o \in InHand(tx[w]) :
       IF tx[w].call = "create" THEN o \in tx[w].os ELSE ord[o] # "none"

\* An order goes through todo, now and done once.
InTurn(w) ==
  /\ tx[w].pc # "work" => InHand(tx[w]) = {} /\ tx[w].mine = {}
  /\ tx[w].todo \cap (tx[w].now \cup tx[w].done) = {} /\ tx[w].now \cap tx[w].done = {}
  /\ tx[w].now = {} => tx[w].left = {}
  /\ \A o \in tx[w].now : tx[w].now = {o} /\ tx[w].left \subseteq RowsOf(w, o)
  /\ tx[w].call # "create" => \A o \in tx[w].done : taken[o]

\* The transaction that has written a row holds it until its end, and has it as
\* it was, less or more what it moved.
Copy(w, i) ==
  IF i \in tx[w].mine
  THEN /\ lock[i] = w
       /\ IF tx[w].call = "create"
          THEN tx[w].wrote[i] + SumFunctionOnSet(Moved(w, i), Order) = stock[i]
          ELSE tx[w].wrote[i] = stock[i] + SumFunctionOnSet(Moved(w, i), Order)
  ELSE \A o \in Order : Moved(w, i)[o] = 0

Own(w) == Exists(w) /\ InTurn(w) /\ \A i \in Ingredient : Copy(w, i)

AccountInv ==
  /\ TypeOK
  /\ \A o \in Order : taken[o] => ord[o] # "none"
  /\ \A w \in Worker : Own(w)
  /\ StockAccounts

\* Amounts are numbers.
LEMMA MovedType ==
  ASSUME NEW w, NEW i \in Ingredient
  PROVE  /\ \A o \in Order : Moved(w, i)[o] \in Nat
         /\ SumFunctionOnSet(Moved(w, i), Order) \in Nat
<1>1. \A o \in Order : Moved(w, i)[o] \in Nat
  BY NeedAssumption DEF Moved
<1>2. PICK f : f = Moved(w, i)
  OBVIOUS
<1>3. SumFunctionOnSet(f, Order) \in Nat
  BY <1>1, <1>2, OrderAssumption, SumNat
<1> QED
  BY <1>1, <1>2, <1>3

\* A step that leaves a transaction and the flags of its orders alone leaves
\* what it moved alone.
LEMMA MovedKept ==
  ASSUME TypeOK, NEW x \in Worker, tx'[x] = tx[x],
         \A o \in tx[x].now : tx[x].call = "create" \/ taken'[o] = taken[o]
  PROVE  /\ \A o \in tx[x].now : RowsOf(x, o)' = RowsOf(x, o)
         /\ \A i \in Ingredient : Moved(x, i)' = Moved(x, i)
<1>1. \A o \in tx[x].now : RowsOf(x, o)' = RowsOf(x, o)
  BY DEF RowsOf
<1>2. ASSUME NEW i \in Ingredient, NEW o \in Order
      PROVE  Counts(x, o, i)' = Counts(x, o, i)
  BY <1>1 DEF Counts
<1> QED
  BY <1>1, <1>2 DEF Moved

\* Before its COMMIT a transaction changes its own state, and locks.
LEMMA KeepOthers ==
  ASSUME AccountInv, TypeOK', NEW w \in Worker, UNCHANGED db, Others(w), Own(w)',
         \A x \in Worker \ {w}, i \in Ingredient : lock[i] = x => lock'[i] = x
  PROVE  AccountInv'
<1>0. TypeOK /\ UNCHANGED <<stock, ord, taken, given>>
  BY DEF AccountInv, db
<1>1. ASSUME NEW x \in Worker, x # w PROVE Own(x)'
  <2>1. tx'[x] = tx[x] /\ Own(x)
    BY <1>1 DEF Others, AccountInv
  <2>2. /\ \A o \in tx[x].now : RowsOf(x, o)' = RowsOf(x, o)
        /\ \A i \in Ingredient : Moved(x, i)' = Moved(x, i)
    BY <1>0, <2>1, MovedKept
  <2>3. Exists(x)'
    <3>1. ASSUME tx[x].call = "create", NEW o \in tx[x].os, NEW y \in Worker \ {x},
                 tx'[y].call = "create"
          PROVE  o \notin tx'[y].os
      <4>1. CASE y = w
        BY <1>1, <2>1, <3>1, <4>1 DEF Own, Exists
      <4>2. CASE y # w
        BY <2>1, <3>1, <4>2 DEF Own, Exists, Others
      <4> QED
        BY <4>1, <4>2
    <3> QED
      BY <1>0, <2>1, <3>1 DEF Own, Exists
  <2>4. InTurn(x)'
    BY <1>0, <2>1, <2>2 DEF Own, InTurn
  <2>5. ASSUME NEW i \in Ingredient PROVE Copy(x, i)'
    <3>1. Copy(x, i) /\ (lock[i] = x => lock'[i] = x)
      BY <1>1, <2>1 DEF Own
    <3> QED
      BY <1>0, <2>1, <2>2, <3>1 DEF Copy
  <2> QED
    BY <2>3, <2>4, <2>5 DEF Own
<1>2. StockAccounts'
  BY <1>0 DEF AccountInv, StockAccounts, Took, GaveBack
<1> QED
  BY <1>0, <1>1, <1>2 DEF AccountInv


LEMMA EarlySteps ==
  ASSUME AccountInv, TypeOK', NEW w \in Worker,
         Begin(w) \/ Read(w) \/ Alter(w) \/ Rollback(w)
  PROVE  AccountInv'
<1>0. TypeOK /\ Own(w)
  BY DEF AccountInv
<1>1. CASE Begin(w)
  <2>1. PICK call \in Calls, o \in Order :
          /\ Known(call, o)
          /\ tx'[w] = [Idle EXCEPT !.pc = "read", !.call = call, !.os = {o}]
    BY <1>0, <1>1, BeginDoes
  <2>2. UNCHANGED <<db, lock>> /\ Others(w) /\ ord' = ord
    BY <1>0, <1>1, BeginDoes DEF db
  <2>3. /\ tx'[w].call = call /\ tx'[w].os = {o}
        /\ InHand(tx'[w]) = {} /\ tx'[w].mine = {} /\ tx'[w].left = {}
    BY <2>1 DEF Idle, InHand
  <2>4. /\ call = "create" => ord[o] = "none" /\ \A x \in Worker : o \notin tx[x].os
        /\ call \in {"kitchen", "kitchenCancel", "serve", "cancel", "reject"} => ord[o] # "none"
    BY <2>1 DEF Known, Shown
  <2>5. call \in Call
    BY CallsAssumption
  <2>6. Exists(w)'
    BY <2>2, <2>3, <2>4, <2>5 DEF Exists, Others, Call
  <2>7. InTurn(w)' /\ \A i \in Ingredient : Copy(w, i)'
    BY <2>3 DEF InHand, InTurn, Copy, Moved, Counts
  <2> QED
    BY <2>2, <2>6, <2>7, KeepOthers DEF Own
<1>2. CASE Read(w)
  <2>1. PICK o \in tx[w].os :
          tx'[w] = [tx[w] EXCEPT !.pc = IF Alters(w) THEN "alter" ELSE "work",
                                 !.was = ord[o], !.bill = seated, !.todo = Reads(w)]
    BY <1>0, <1>2, ReadDoes
  <2>2. UNCHANGED <<db, lock>> /\ Others(w) /\ ord' = ord /\ taken' = taken /\ tx[w].pc = "read"
    BY <1>0, <1>2, ReadDoes DEF db
  <2>3. tx[w].call = "reject" => \A p \in tx[w].os : ord[p] = "pending"
    BY <1>0, <1>2, ReadDoes
  <2>4. InHand(tx[w]) = {} /\ tx[w].mine = {} /\ tx[w].left = {}
    BY <1>0, <2>2 DEF Own, InTurn, InHand
  <2>5. /\ tx'[w].pc = IF Alters(w) THEN "alter" ELSE "work"
        /\ tx'[w].call = tx[w].call /\ tx'[w].os = tx[w].os
        /\ tx'[w].todo = Reads(w) /\ tx'[w].now = {} /\ tx'[w].done = {}
        /\ tx'[w].mine = {} /\ tx'[w].left = {} /\ InHand(tx'[w]) = Reads(w)
    BY <1>0, <2>1, <2>4, Fields DEF Tx, InHand
  <2>6. \A p \in Reads(w) : IF tx[w].call = "create" THEN p \in tx[w].os ELSE ord[p] # "none"
    BY <2>3 DEF Reads, Shown
  <2>7. Exists(w)'
    BY <1>0, <2>2, <2>5, <2>6 DEF Own, Exists, Others
  <2>8. tx'[w].pc = "alter" => Reads(w) = {}
    BY <2>5 DEF Alters, Reads
  <2>9. InTurn(w)' /\ \A i \in Ingredient : Copy(w, i)'
    BY <2>5, <2>8 DEF InTurn, Copy, Moved, Counts
  <2> QED
    BY <2>2, <2>7, <2>9, KeepOthers DEF Own
<1>3. CASE Alter(w)
  <2> DEFINE T == IF tx[w].call = "cancel" /\ tx[w].was # "completed" THEN tx[w].os ELSE {}
  <2>1. tx'[w] = [tx[w] EXCEPT !.pc = "work", !.todo = T]
    BY <1>0, <1>3, AlterDoes
  <2>2. UNCHANGED <<db, lock>> /\ Others(w) /\ ord' = ord /\ tx[w].pc = "alter"
    BY <1>0, <1>3, AlterDoes DEF db
  <2>3. \A o \in T : tx[w].call = "cancel" /\ ord[o] # "none"
    BY <1>0 DEF Own, Exists
  <2> HIDE DEF T
  <2>4. InHand(tx[w]) = {} /\ tx[w].mine = {} /\ tx[w].left = {}
    BY <1>0, <2>2 DEF Own, InTurn, InHand
  <2>5. /\ tx'[w].pc = "work" /\ tx'[w].call = tx[w].call /\ tx'[w].os = tx[w].os
        /\ tx'[w].todo = T /\ tx'[w].now = {} /\ tx'[w].done = {}
        /\ tx'[w].mine = {} /\ tx'[w].left = {} /\ InHand(tx'[w]) = T
    BY <1>0, <2>1, <2>4, Fields DEF Tx, InHand
  <2>6. Exists(w)'
    BY <1>0, <2>2, <2>3, <2>5 DEF Own, Exists, Others
  <2>7. InTurn(w)' /\ \A i \in Ingredient : Copy(w, i)'
    BY <2>5 DEF InTurn, Copy, Moved, Counts
  <2> QED
    BY <2>2, <2>6, <2>7, KeepOthers DEF Own
<1>4. CASE Rollback(w)
  <2>1. UNCHANGED db /\ lock' = Released(w) /\ Others(w) /\ tx'[w] = Idle
    BY <1>0, <1>4, EndDoes DEF Rollback
  <2>2. /\ tx'[w].call = "create" /\ tx'[w].os = {} /\ InHand(tx'[w]) = {}
        /\ tx'[w].mine = {} /\ tx'[w].left = {}
    BY <2>1 DEF Idle, InHand
  <2>3. Exists(w)'
    BY <2>2 DEF Exists
  <2>4. InTurn(w)' /\ \A i \in Ingredient : Copy(w, i)'
    BY <2>2 DEF InHand, InTurn, Copy, Moved, Counts
  <2>5. \A x \in Worker \ {w}, i \in Ingredient : lock[i] = x => lock'[i] = x
    BY <2>1 DEF Released
  <2> QED
    BY <2>1, <2>3, <2>4, <2>5, KeepOthers DEF Own
<1> QED
  BY <1>1, <1>2, <1>3, <1>4

\* What a transaction sees of a row is what is committed, less or more what it
\* moved itself.
LEMMA SeenIs ==
  ASSUME TypeOK, NEW w \in Worker, NEW i \in Ingredient, Copy(w, i)
  PROVE  IF tx[w].call = "create"
         THEN Seen(w, i) + SumFunctionOnSet(Moved(w, i), Order) = stock[i]
         ELSE Seen(w, i) = stock[i] + SumFunctionOnSet(Moved(w, i), Order)
<1>1. CASE i \in tx[w].mine
  BY <1>1 DEF Copy, Seen
<1>2. CASE i \notin tx[w].mine
  <2>1. PICK f : f = Moved(w, i)
    OBVIOUS
  <2>2. \A p \in Order : f[p] = 0
    BY <1>2, <2>1 DEF Copy
  <2>3. SumFunctionOnSet(f, Order) = 0
    BY <2>2, OrderAssumption, SumZero
  <2> QED
    BY <1>2, <2>1, <2>3 DEF Seen, TypeOK
<1> QED
  BY <1>1, <1>2

\* What is done for the order now in hand leaves what the transaction moved.
LEMMA InHandSteps ==
  ASSUME AccountInv, TypeOK', NEW w \in Worker, NextOrder(w) \/ OrderDone(w)
  PROVE  AccountInv'
<1>0. TypeOK /\ Own(w) /\ UNCHANGED <<db, lock>> /\ Others(w)
  BY NextOrderDoes, OrderDoneDoes DEF AccountInv
<1>a. ord' = ord /\ taken' = taken /\ stock' = stock /\ lock' = lock
  BY <1>0 DEF db
<1>1. ASSUME InTurn(w)', tx'[w].call = tx[w].call, tx'[w].os = tx[w].os,
             InHand(tx'[w]) \subseteq InHand(tx[w]),
             tx'[w].mine = tx[w].mine, tx'[w].wrote = tx[w].wrote,
             \A o \in Order, i \in Ingredient : Moved(w, i)'[o] = Moved(w, i)[o]
      PROVE  AccountInv'
  <2>1. Exists(w)'
    BY <1>0, <1>a, <1>1 DEF Own, Exists, Others
  <2>2. ASSUME NEW i \in Ingredient PROVE Moved(w, i)' = Moved(w, i)
    BY <1>1 DEF Moved
  <2>3. ASSUME NEW i \in Ingredient PROVE Copy(w, i)'
    <3>1. Copy(w, i)
      BY <1>0 DEF Own
    <3> QED
      BY <1>a, <1>1, <2>2, <3>1 DEF Copy
  <2> QED
    BY <1>0, <1>a, <1>1, <2>1, <2>3, KeepOthers DEF Own
<1>2. CASE NextOrder(w)
  <2>1. PICK o \in tx[w].todo :
          tx'[w] = [tx[w] EXCEPT !.todo = tx[w].todo \ {o}, !.now = {o}, !.left = RowsOf(w, o)]
    BY <1>0, <1>2, NextOrderDoes
  <2>2. tx[w].pc = "work" /\ tx[w].now = {}
    BY <1>0, <1>2, NextOrderDoes
  <2>3. /\ tx'[w].pc = "work" /\ tx'[w].call = tx[w].call /\ tx'[w].os = tx[w].os
        /\ tx'[w].todo = tx[w].todo \ {o} /\ tx'[w].now = {o} /\ tx'[w].done = tx[w].done
        /\ tx'[w].mine = tx[w].mine /\ tx'[w].wrote = tx[w].wrote
        /\ tx'[w].left = RowsOf(w, o) /\ InHand(tx'[w]) = InHand(tx[w])
    BY <1>0, <2>1, <2>2, Fields DEF Tx, InHand
  <2>4. RowsOf(w, o)' = RowsOf(w, o)
    BY <1>a, <2>3 DEF RowsOf
  <2>5. InTurn(w)'
    BY <1>0, <1>a, <2>2, <2>3, <2>4 DEF Own, InTurn
  <2>6. \A p \in Order, i \in Ingredient : Counts(w, p, i)' = Counts(w, p, i)
    BY <2>2, <2>3, <2>4 DEF Counts
  <2> QED
    BY <1>1, <2>3, <2>5, <2>6 DEF Moved
<1>3. CASE OrderDone(w)
  <2> DEFINE S == {o \in tx[w].now : tx[w].call = "create" \/ taken[o]}
  <2>1. tx' = [tx EXCEPT ![w].done = @ \cup S, ![w].now = {}] /\ tx[w].now # {} /\ tx[w].left = {}
    BY <1>3 DEF OrderDone
  <2>2. S \subseteq tx[w].now /\ \A o \in S : tx[w].call = "create" \/ taken[o]
    OBVIOUS
  <2>3. \A o \in tx[w].now : (o \in S <=> tx[w].call = "create" \/ taken[o])
    OBVIOUS
  <2> HIDE DEF S
  <2>4. tx[w].pc = "work"
    BY <1>0, <2>1 DEF Own, InTurn, InHand
  <2>5. /\ tx'[w].pc = "work" /\ tx'[w].call = tx[w].call /\ tx'[w].os = tx[w].os
        /\ tx'[w].todo = tx[w].todo /\ tx'[w].now = {} /\ tx'[w].done = tx[w].done \cup S
        /\ tx'[w].mine = tx[w].mine /\ tx'[w].wrote = tx[w].wrote
        /\ tx'[w].left = {} /\ InHand(tx'[w]) \subseteq InHand(tx[w])
    BY <1>0, <2>1, <2>2, <2>4, Fields DEF Tx, TypeOK, InHand
  <2>6. InTurn(w)'
    BY <1>0, <1>a, <2>2, <2>5 DEF Own, InTurn
  <2>7. ASSUME NEW o \in Order, NEW i \in Ingredient PROVE Moved(w, i)'[o] = Moved(w, i)[o]
    <3>1. Counts(w, o, i)' <=> o \in tx[w].done \cup S
      BY <2>5 DEF Counts
    <3>2. CASE o \notin tx[w].now
      BY <2>2, <3>1, <3>2 DEF Moved, Counts
    <3>3. CASE o \in tx[w].now
      <4>1. Counts(w, o, i)' <=> o \in S
        BY <1>0, <3>1, <3>3 DEF Own, InTurn
      <4>2. Counts(w, o, i) <=> i \in RowsOf(w, o)
        BY <1>0, <2>1, <3>3 DEF Own, InTurn, Counts
      <4>3. RowsOf(w, o) = IF o \in S THEN {k \in Ingredient : Need[o][k] > 0} ELSE {}
        BY <2>3, <3>3 DEF RowsOf
      <4>4. Need[o][i] \in Nat
        BY NeedAssumption
      <4> QED
        BY <4>1, <4>2, <4>3, <4>4 DEF Moved
    <3> QED
      BY <3>2, <3>3
  <2> QED
    BY <1>1, <2>5, <2>6, <2>7
<1> QED
  BY <1>2, <1>3

\* A row is taken by one transaction at a time, for one order, and changed by
\* what that order needs of it.
LEMMA TakeRowStep ==
  ASSUME AccountInv, TypeOK', NEW w \in Worker, TakeRow(w)
  PROVE  AccountInv'
<1>n. PICK i : i = NextRow(w)
  OBVIOUS
<1>0. /\ TypeOK /\ Own(w) /\ UNCHANGED db /\ Others(w)
      /\ i \in tx[w].left /\ lock' = [lock EXCEPT ![i] = w]
  BY <1>n, TakeRowDoes DEF AccountInv
<1>1. PICK o \in tx[w].now : Enough(w, o, i) /\ Put(w, o, i)
  BY <1>n DEF TakeRow
<1>2. i \in Ingredient /\ o \in Order /\ tx[w].pc = "work" /\ Need[o][i] \in Nat
      /\ Seen(w, i) \in Nat /\ stock[i] \in Nat
  <2>1. i \in Ingredient /\ o \in Order
    BY <1>0, <1>1, Fields
  <2>2. tx[w].pc = "work"
    BY <1>0, <1>1 DEF Own, InTurn, InHand
  <2> QED
    BY <1>0, <2>1, <2>2, Fields, NeedAssumption DEF Seen, TypeOK
<1>3. \A x \in Worker \ {w} : lock[i] # x
  BY <1>0, <1>n DEF TakeRow, Free, Waits
<1>4. /\ tx'[w].pc = "work" /\ tx'[w].call = tx[w].call /\ tx'[w].os = tx[w].os
      /\ tx'[w].todo = tx[w].todo /\ tx'[w].now = tx[w].now /\ tx'[w].done = tx[w].done
      /\ tx'[w].mine = tx[w].mine \cup {i} /\ tx'[w].left = tx[w].left \ {i}
      /\ tx'[w].wrote = [tx[w].wrote EXCEPT ![i] = Changed(w, o, i)]
      /\ InHand(tx'[w]) = InHand(tx[w])
  BY <1>0, <1>1, <1>2, Fields DEF Put, Tx, TypeOK, InHand
<1>5. /\ ord' = ord /\ taken' = taken /\ stock' = stock
      /\ \A j \in Ingredient : lock'[j] = IF j = i THEN w ELSE lock[j]
  BY <1>0 DEF db, TypeOK
<1>6. \A p : RowsOf(w, p)' = RowsOf(w, p)
  BY <1>4, <1>5 DEF RowsOf
<1>7. Exists(w)'
  BY <1>0, <1>4, <1>5 DEF Own, Exists, Others
<1>8. InTurn(w)'
  BY <1>0, <1>4, <1>5, <1>6 DEF Own, InTurn
<1>9. tx[w].now = {o} /\ i \in RowsOf(w, o)
  BY <1>0, <1>1 DEF Own, InTurn
<1>10. ASSUME NEW j \in Ingredient, j # i PROVE Copy(w, j)'
  <2>1. \A p \in Order : Counts(w, p, j)' = Counts(w, p, j)
    BY <1>4, <1>6, <1>10 DEF Counts
  <2>2. Moved(w, j)' = Moved(w, j)
    BY <2>1 DEF Moved
  <2>3. /\ j \in tx'[w].mine <=> j \in tx[w].mine
        /\ tx'[w].wrote[j] = tx[w].wrote[j] /\ lock'[j] = lock[j] /\ Copy(w, j)
    BY <1>0, <1>4, <1>5, <1>10, Fields DEF Own
  <2> QED
    BY <1>4, <1>5, <2>2, <2>3 DEF Copy
<1>11. Copy(w, i)'
  <2>1. PICK f : f = Moved(w, i)
    OBVIOUS
  <2>2. PICK g : g = Moved(w, i)'
    OBVIOUS
  <2>3. ASSUME NEW p \in Order, p # o PROVE g[p] = f[p]
    <3>1. Counts(w, p, i)' = Counts(w, p, i)
      BY <1>4, <1>9, <2>3 DEF Counts
    <3> QED
      BY <2>1, <2>2, <3>1 DEF Moved
  <2>4. f[o] = 0 /\ g[o] = Need[o][i]
    <3>1. ~Counts(w, o, i)
      BY <1>0, <1>1 DEF Counts, Own, InTurn
    <3>2. Counts(w, o, i)'
      BY <1>1, <1>4, <1>6, <1>9 DEF Counts
    <3> QED
      BY <1>2, <2>1, <2>2, <3>1, <3>2 DEF Moved
  <2>5. \A p \in Order : f[p] \in Nat /\ g[p] \in Nat
    <3>1. \A p \in Order : f[p] \in Nat
      BY <1>2, <2>1, MovedType
    <3> QED
      BY <1>2, <2>3, <2>4, <3>1
  <2>6. SumFunctionOnSet(g, Order) = SumFunctionOnSet(f, Order) + Need[o][i]
    <3>1. SumFunctionOnSet(g, Order) + f[o] = SumFunctionOnSet(f, Order) + g[o]
      BY <1>2, <2>3, <2>5, OrderAssumption, SumChange
    <3>2. SumFunctionOnSet(g, Order) \in Nat /\ SumFunctionOnSet(f, Order) \in Nat
      BY <2>5, OrderAssumption, SumNat
    <3> QED
      BY <1>2, <2>4, <3>1, <3>2
  <2>7. SumFunctionOnSet(f, Order) \in Nat
    BY <2>5, OrderAssumption, SumNat
  <2>8. IF tx[w].call = "create" THEN Seen(w, i) + SumFunctionOnSet(f, Order) = stock[i]
        ELSE Seen(w, i) = stock[i] + SumFunctionOnSet(f, Order)
    <3>1. Copy(w, i)
      BY <1>0, <1>2 DEF Own
    <3> QED
      BY <1>0, <1>2, <2>1, <3>1, SeenIs
  <2>9. tx'[w].wrote[i] = Changed(w, o, i)
    BY <1>0, <1>2, <1>4, Fields
  <2>10. IF tx[w].call = "create"
         THEN tx'[w].wrote[i] + SumFunctionOnSet(g, Order) = stock[i]
         ELSE tx'[w].wrote[i] = stock[i] + SumFunctionOnSet(g, Order)
    BY <1>1, <1>2, <2>6, <2>7, <2>8, <2>9 DEF Changed, Enough
  <2> QED
    BY <1>2, <1>4, <1>5, <2>2, <2>10 DEF Copy
<1>12. \A x \in Worker \ {w}, j \in Ingredient : lock[j] = x => lock'[j] = x
  BY <1>3, <1>5
<1> QED
  BY <1>0, <1>7, <1>8, <1>10, <1>11, <1>12, KeepOthers DEF Own

\* A transaction that commits moves its amounts into the database.
LEMMA CommitAccounts ==
  ASSUME AccountInv, NEW w \in Worker, Commit(w)
  PROVE  StockAccounts'
<1> SUFFICES ASSUME NEW i \in Ingredient
             PROVE  stock'[i] + SumFunctionOnSet(Took(i)', Order)
                      = Initial[i] + SumFunctionOnSet(GaveBack(i)', Order)
  BY DEF StockAccounts
<1>0. TypeOK /\ Own(w) /\ tx[w].pc = "work" /\ tx[w].now = {}
  BY DEF AccountInv, Commit
<1>1. PICK t, m, b, t1, b1 :
        t = Took(i) /\ m = Moved(w, i) /\ b = GaveBack(i) /\ t1 = Took(i)' /\ b1 = GaveBack(i)'
  OBVIOUS
<1>2. ASSUME NEW o \in Order
      PROVE  /\ Need[o][i] \in Nat /\ given[o] \in Nat
             /\ t[o] = (IF taken[o] THEN Need[o][i] ELSE 0) /\ t[o] \in Nat
             /\ b[o] = given[o] * Need[o][i] /\ b[o] \in Nat
             /\ m[o] = (IF o \in tx[w].done THEN Need[o][i] ELSE 0) /\ m[o] \in Nat
             /\ t1[o] = (IF taken'[o] THEN Need[o][i] ELSE 0)
             /\ b1[o] = given'[o] * Need[o][i]
  <2>1. Need[o][i] \in Nat /\ given[o] \in Nat
    BY <1>0, NeedAssumption DEF TypeOK
  <2>2. /\ t[o] = (IF taken[o] THEN Need[o][i] ELSE 0)
        /\ b[o] = given[o] * Need[o][i]
        /\ t1[o] = (IF taken'[o] THEN Need[o][i] ELSE 0)
        /\ b1[o] = given'[o] * Need[o][i]
    BY <1>1 DEF Took, GaveBack
  <2>3. m[o] = (IF o \in tx[w].done THEN Need[o][i] ELSE 0)
    BY <1>0, <1>1 DEF Moved, Counts
  <2>4. \A x, y \in Nat : x * y \in Nat
    OBVIOUS
  <2> QED
    BY <2>1, <2>2, <2>3, <2>4
<1>3. stock[i] + SumFunctionOnSet(t, Order) = Initial[i] + SumFunctionOnSet(b, Order)
  BY <1>1 DEF AccountInv, StockAccounts
<1>4. /\ SumFunctionOnSet(t, Order) \in Nat /\ SumFunctionOnSet(b, Order) \in Nat
      /\ SumFunctionOnSet(m, Order) \in Nat
      /\ stock[i] \in Nat /\ stock'[i] \in Nat /\ Initial[i] \in Nat
  <2>1. stock'[i] = Seen(w, i) /\ Seen(w, i) \in Nat
    BY <1>0, Fields DEF Commit, Seen, TypeOK
  <2> QED
    BY <1>0, <1>2, <2>1, OrderAssumption, SumNat, InitialAssumption DEF TypeOK
<1>5. IF tx[w].call = "create" THEN stock'[i] + SumFunctionOnSet(m, Order) = stock[i]
      ELSE stock'[i] = stock[i] + SumFunctionOnSet(m, Order)
  <2>1. stock'[i] = Seen(w, i) /\ Copy(w, i)
    BY <1>0 DEF Commit, Own
  <2> QED
    BY <1>0, <1>1, <2>1, SeenIs
<1>6. CASE tx[w].call = "create"
  <2>1. ASSUME NEW o \in Order PROVE t1[o] = t[o] + m[o] /\ b1[o] = b[o]
    <3>1. (taken'[o] <=> (taken[o] \/ o \in tx[w].done)) /\ given'[o] = given[o]
      BY <1>6 DEF Commit
    <3>2. o \in tx[w].done => ~taken[o]
      BY <1>0, <1>6 DEF Own, Exists, AccountInv, InHand
    <3> QED
      BY <1>2, <3>1, <3>2
  <2>2. SumFunctionOnSet(t1, Order) = SumFunctionOnSet(t, Order) + SumFunctionOnSet(m, Order)
    BY <1>2, <2>1, OrderAssumption, SumPlus
  <2>3. SumFunctionOnSet(b1, Order) = SumFunctionOnSet(b, Order)
    BY <1>2, <2>1, OrderAssumption, SumEqual
  <2> QED
    BY <1>1, <1>3, <1>4, <1>5, <1>6, <2>2, <2>3
<1>7. CASE tx[w].call # "create"
  <2>1. ASSUME NEW o \in Order PROVE t1[o] = t[o] /\ b1[o] = b[o] + m[o]
    <3>1. taken'[o] = taken[o]
          /\ given'[o] = IF o \in tx[w].done THEN given[o] + 1 ELSE given[o]
      BY <1>0, <1>7 DEF Commit, TypeOK
    <3>2. \A x, y \in Nat : (x + 1) * y = x * y + y
      OBVIOUS
    <3>3. CASE o \in tx[w].done
      <4>1. given[o] \in Nat /\ Need[o][i] \in Nat
        BY <1>2
      <4>2. (given[o] + 1) * Need[o][i] = given[o] * Need[o][i] + Need[o][i]
        BY <3>2, <4>1
      <4>3. b1[o] = (given[o] + 1) * Need[o][i] /\ b[o] = given[o] * Need[o][i] /\ m[o] = Need[o][i]
        BY <1>2, <3>1, <3>3
      <4>4. t1[o] = t[o]
        BY <1>2, <3>1
      <4> QED
        BY <4>2, <4>3, <4>4
    <3>4. CASE o \notin tx[w].done
      BY <1>2, <3>1, <3>4
    <3> QED
      BY <3>3, <3>4
  <2>2. SumFunctionOnSet(b1, Order) = SumFunctionOnSet(b, Order) + SumFunctionOnSet(m, Order)
    BY <1>2, <2>1, OrderAssumption, SumPlus
  <2>3. SumFunctionOnSet(t1, Order) = SumFunctionOnSet(t, Order)
    BY <1>2, <2>1, OrderAssumption, SumEqual
  <2> QED
    BY <1>1, <1>3, <1>4, <1>5, <1>7, <2>2, <2>3
<1> QED
  BY <1>6, <1>7

\* A commit leaves alone what other transactions have read and locked.
LEMMA CommitStep ==
  ASSUME AccountInv, TypeOK', NEW w \in Worker, Commit(w)
  PROVE  AccountInv'
<1>0. TypeOK /\ Own(w) /\ lock' = Released(w) /\ Others(w) /\ tx'[w] = Idle
  BY EndDoes DEF AccountInv
<1>1. ASSUME NEW o \in Order
      PROVE  /\ ord'[o] = IF o \in Writes(w) THEN NewStatus(tx[w].call) ELSE ord[o]
             /\ taken'[o] <=> (taken[o] \/ (tx[w].call = "create" /\ o \in tx[w].done))
  BY DEF Commit
<1>2. NewStatus(tx[w].call) # "none"
  BY DEF NewStatus
<1>3. ASSUME NEW o \in Order, ord[o] # "none" PROVE ord'[o] # "none"
  BY <1>1, <1>2, <1>3
<1>4. ASSUME NEW o \in Order, ord[o] # "none" PROVE taken'[o] <=> taken[o]
  BY <1>0, <1>1, <1>4 DEF Own, Exists, InHand
<1>5. ASSUME NEW o \in Order, taken'[o] PROVE ord'[o] # "none"
  <2>1. CASE taken[o]
    BY <1>3, <2>1 DEF AccountInv
  <2>2. CASE ~taken[o]
    <3>1. o \in Writes(w)
      BY <1>0, <1>1, <1>5, <2>2 DEF Own, Exists, InHand, Writes
    <3> QED
      BY <1>1, <1>2, <3>1
  <2> QED
    BY <2>1, <2>2
<1>6. ASSUME NEW x \in Worker, x # w PROVE Own(x)'
  <2>1. tx'[x] = tx[x] /\ Own(x)
    BY <1>0, <1>6 DEF Others, AccountInv
  <2>2. InHand(tx[x]) \subseteq Order /\ tx[x].os \subseteq Order /\ tx[w].os \subseteq Order
    BY <1>0, Fields DEF InHand
  <2>3. \A o \in InHand(tx[x]) : tx[x].call # "create" => ord[o] # "none" /\ (taken'[o] <=> taken[o])
    BY <1>4, <2>1, <2>2 DEF Own, Exists
  <2>4. /\ \A o \in tx[x].now : RowsOf(x, o)' = RowsOf(x, o)
        /\ \A i \in Ingredient : Moved(x, i)' = Moved(x, i)
    <3>1. \A o \in tx[x].now : tx[x].call = "create" \/ taken'[o] = taken[o]
      <4>1. \A o \in Order : taken'[o] \in BOOLEAN /\ taken[o] \in BOOLEAN
        BY <1>0 DEF TypeOK
      <4> QED
        BY <2>2, <2>3, <4>1 DEF InHand
    <3> QED
      BY <1>0, <2>1, <3>1, MovedKept
  <2>5. Exists(x)'
    <3>1. ASSUME tx[x].call = "create", NEW o \in tx[x].os
          PROVE  /\ ord'[o] = "none"
                 /\ \A y \in Worker \ {x} : tx'[y].call = "create" => o \notin tx'[y].os
      <4>1. ord[o] = "none" /\ \A y \in Worker \ {x} : tx[y].call = "create" => o \notin tx[y].os
        BY <2>1, <3>1 DEF Own, Exists
      <4>2. o \notin Writes(w)
        BY <1>0, <1>6, <4>1 DEF Own, Exists, Writes
      <4>3. ord'[o] = "none"
        BY <1>1, <2>2, <4>1, <4>2
      <4>4. tx'[w].os = {}
        BY <1>0 DEF Idle
      <4> QED
        BY <1>0, <4>1, <4>3, <4>4 DEF Others
    <3>2. tx[x].call \notin {"create", "cancelTable"} => \A o \in tx[x].os : ord'[o] # "none"
      BY <1>3, <2>1, <2>2 DEF Own, Exists
    <3>3. \A o \in InHand(tx[x]) :
            IF tx[x].call = "create" THEN o \in tx[x].os ELSE ord'[o] # "none"
      BY <1>3, <2>1, <2>2 DEF Own, Exists
    <3> QED
      BY <2>1, <3>1, <3>2, <3>3 DEF Exists
  <2>6. InTurn(x)'
    BY <2>1, <2>3, <2>4 DEF Own, InTurn, InHand
  <2>7. ASSUME NEW i \in Ingredient PROVE Copy(x, i)'
    <3>1. Copy(x, i) /\ Copy(w, i)
      BY <1>0, <2>1 DEF Own
    <3>2. CASE i \in tx[x].mine
      <4>1. lock[i] = x /\ lock'[i] = x
        BY <1>0, <1>6, <3>1, <3>2 DEF Copy, Released
      <4>2. stock'[i] = stock[i]
        BY <1>6, <3>1, <4>1 DEF Copy, Commit, Seen
      <4> QED
        BY <2>1, <2>4, <3>1, <3>2, <4>1, <4>2 DEF Copy
    <3>3. CASE i \notin tx[x].mine
      BY <2>1, <2>4, <3>1, <3>3 DEF Copy
    <3> QED
      BY <3>2, <3>3
  <2> QED
    BY <2>5, <2>6, <2>7 DEF Own
<1>7. Own(w)'
  <2>1. /\ tx'[w].call = "create" /\ tx'[w].os = {} /\ tx'[w].todo = {} /\ tx'[w].now = {}
        /\ tx'[w].done = {} /\ tx'[w].mine = {} /\ tx'[w].left = {}
    BY <1>0 DEF Idle
  <2>2. Exists(w)' /\ InTurn(w)'
    BY <2>1 DEF Exists, InTurn, InHand
  <2>3. \A i \in Ingredient : Copy(w, i)'
    BY <2>1 DEF Copy, Moved, Counts
  <2> QED
    BY <2>2, <2>3 DEF Own
<1> QED
  BY <1>5, <1>6, <1>7, CommitAccounts DEF AccountInv

\* AccountInv holds in every behaviour.
LEMMA AccountAlways == Spec => []AccountInv
<1>1. Init => AccountInv
  <2> SUFFICES ASSUME Init PROVE AccountInv
    OBVIOUS
  <2>1. TypeOK
    BY IdleType, InitialAssumption DEF Init, TypeOK, OrderStatus
  <2>2. ASSUME NEW w \in Worker PROVE Own(w)
    <3>1. tx[w].call = "create" /\ tx[w].os = {} /\ InHand(tx[w]) = {} /\ tx[w].mine = {} /\ tx[w].left = {}
      BY DEF Init, Idle, InHand
    <3>2. Exists(w)
      BY <3>1 DEF Exists
    <3>3. InTurn(w) /\ \A i \in Ingredient : Copy(w, i)
      BY <3>1 DEF InHand, InTurn, Copy, Moved, Counts
    <3> QED
      BY <3>2, <3>3 DEF Own
  <2>3. ASSUME NEW i \in Ingredient
        PROVE  stock[i] + SumFunctionOnSet(Took(i), Order)
                 = Initial[i] + SumFunctionOnSet(GaveBack(i), Order)
    <3>1. PICK t, b : t = Took(i) /\ b = GaveBack(i)
      OBVIOUS
    <3>2. \A n \in Nat : 0 * n = 0
      OBVIOUS
    <3>3. \A o \in Order : t[o] = 0 /\ b[o] = 0
      BY <3>1, <3>2, NeedAssumption DEF Init, Took, GaveBack
    <3>4. SumFunctionOnSet(t, Order) = 0 /\ SumFunctionOnSet(b, Order) = 0
      BY <3>3, OrderAssumption, SumZero
    <3> QED
      BY <3>1, <3>4 DEF Init
  <2> QED
    BY <2>1, <2>2, <2>3 DEF Init, AccountInv, StockAccounts
<1>2. AccountInv /\ TypeOK' /\ [Next]_vars => AccountInv'
  <2> SUFFICES ASSUME AccountInv, TypeOK', [Next]_vars PROVE AccountInv'
    OBVIOUS
  <2>1. CASE UNCHANGED vars
    <3>1. UNCHANGED <<stock, ord, taken, given, lock, tx>>
      BY <2>1 DEF vars, db
    <3>2. \A w \in Worker, i \in Ingredient : Moved(w, i)' = Moved(w, i)
      BY <3>1 DEF Moved, Counts, RowsOf
    <3>3. \A w \in Worker : Own(w)'
      BY <3>1, <3>2 DEF AccountInv, Own, Exists, InTurn, Copy, RowsOf
    <3>4. StockAccounts'
      BY <3>1 DEF AccountInv, StockAccounts, Took, GaveBack
    <3> QED
      BY <3>1, <3>3, <3>4 DEF AccountInv
  <2> QED
    BY <2>1, EarlySteps, InHandSteps, TakeRowStep, CommitStep DEF Next, Step
<1> QED
  BY <1>1, <1>2, TypeCorrect, PTL DEF Spec

\* What is in products and what orders took is always what there was and what was
\* given back, whatever transactions overlap, wait, roll back or are killed: a row
\* is locked by the one that changes it, and an order goes through its rows once.
THEOREM StockAccounted == Spec => []StockAccounts
<1>1. AccountInv => StockAccounts
  BY DEF AccountInv
<1> QED
  BY <1>1, AccountAlways, PTL

-----------------------------------------------------------------------------
(* Stock implements Inventory *)

\* Both modules mean the same sum.
LEMMA SameSum == \A f, S : I!SumFunctionOnSet(f, S) = SumFunctionOnSet(f, S)
BY DEF SumFunctionOnSet, FoldFunctionOnSet, MapThenFoldSet, I!SumFunctionOnSet,
   I!FoldFunctionOnSet, I!MapThenFoldSet

\* What a transaction that is about to commit has moved is what the orders it
\* is done with need.
LEMMA MovedIsNeed ==
  ASSUME TypeOK, NEW w \in Worker, tx[w].now = {}, NEW i \in Ingredient
  PROVE  SumFunctionOnSet(Moved(w, i), Order) = I!NeedOf(tx[w].done, i)
<1>1. PICK m, n, S : m = Moved(w, i) /\ n = [o \in Order |-> Need[o][i]] /\ S = tx[w].done
  OBVIOUS
<1>2. S \in SUBSET Order /\ IsFiniteSet(S)
  BY <1>1, Fields, OrderAssumption, FS_Subset
<1>3. \A o \in Order : n[o] \in Nat /\ m[o] = IF o \in S THEN n[o] ELSE 0
  BY <1>1, NeedAssumption DEF Moved, Counts
<1>4. SumFunctionOnSet(m, Order) = SumFunctionOnSet(m, S)
  <2>1. (\A o \in Order : m[o] \in Nat) /\ (\A o \in Order \ S : m[o] = 0)
    BY <1>3
  <2> QED
    BY <1>2, <2>1, OrderAssumption, SumZeros
<1>5. SumFunctionOnSet(m, S) = SumFunctionOnSet(n, S)
  <2>1. \A o \in S : m[o] \in Nat /\ m[o] = n[o]
    BY <1>2, <1>3
  <2> QED
    BY <1>2, <2>1, SumEqual
<1> QED
  BY <1>1, <1>4, <1>5, SameSum DEF I!NeedOf

\* One order needs what its recipe says.
LEMMA NeedOfOne ==
  ASSUME NEW o \in Order, NEW i \in Ingredient
  PROVE  I!NeedOf({o}, i) = Need[o][i]
<1>1. PICK n, S : n = [p \in Order |-> Need[p][i]] /\ S = {o}
  OBVIOUS
<1>2. IsFiniteSet(S) /\ o \in S /\ S \ {o} = {} /\ n[o] = Need[o][i] /\ n[o] \in Nat
  BY <1>1, FS_Singleton, NeedAssumption
<1>3. \A p \in S : n[p] \in Nat
  BY <1>1, <1>2
<1>4. SumFunctionOnSet(n, S) = n[o] + SumFunctionOnSet(n, S \ {o})
  BY <1>2, <1>3, SumTake
<1>5. SumFunctionOnSet(n, {}) = 0
  BY SumEmpty
<1>6. SumFunctionOnSet(n, S) = n[o]
  BY <1>2, <1>4, <1>5
<1> QED
  BY <1>1, <1>2, <1>6, SameSum DEF I!NeedOf

\* A commit is a step of the inventory: one order takes, or the orders done with
\* give back, what was locked row by row.
LEMMA CommitInventory ==
  ASSUME AccountInv, LockInv, NEW w \in Worker, Commit(w)
  PROVE  I!Next \/ UNCHANGED <<stock, taken, given>>
<1> DEFINE done == tx[w].done
<1>0. TypeOK /\ Own(w) /\ tx[w].pc = "work" /\ tx[w].now = {} /\ done \subseteq Order
  BY Fields DEF AccountInv, Commit
<1>1. ASSUME NEW i \in Ingredient
      PROVE  /\ stock[i] \in Nat /\ stock'[i] \in Nat
             /\ IF tx[w].call = "create" THEN stock'[i] + I!NeedOf(done, i) = stock[i]
                ELSE stock'[i] = stock[i] + I!NeedOf(done, i)
  <2>1. stock'[i] = Seen(w, i) /\ Copy(w, i)
    BY <1>0 DEF Commit, Own
  <2>2. stock[i] \in Nat /\ Seen(w, i) \in Nat
    BY <1>0, Fields DEF Seen, TypeOK
  <2>3. SumFunctionOnSet(Moved(w, i), Order) = I!NeedOf(done, i)
    BY <1>0, MovedIsNeed
  <2> QED
    BY <1>0, <2>1, <2>2, <2>3, SeenIs
<1>2. stock' = [i \in Ingredient |-> stock'[i]]
  BY DEF Commit
<1>3. taken = [o \in Order |-> taken[o]] /\ given = [o \in Order |-> given[o]]
      /\ stock = [i \in Ingredient |-> stock[i]]
  BY <1>0 DEF TypeOK
<1>4. CASE tx[w].call = "create"
  <2>1. ASSUME NEW o \in done PROVE done = {o} /\ o \in Order
    <3>1. PICK p : tx[w].os \subseteq {p}
      BY <1>4 DEF LockInv, Ascends
    <3>2. done \subseteq {p}
      BY <1>0, <1>4, <3>1 DEF Own, Exists, InHand
    <3> QED
      BY <1>0, <2>1, <3>2
  <2>2. /\ taken' = [o \in Order |-> taken[o] \/ o \in done]
        /\ given' = [o \in Order |-> given[o]]
    BY <1>4 DEF Commit
  <2>3. CASE done = {}
    <3>1. ASSUME NEW i \in Ingredient PROVE stock'[i] = stock[i]
      <4>1. I!NeedOf({}, i) = 0
        BY SumEmpty, SameSum DEF I!NeedOf
      <4> QED
        BY <1>1, <1>4, <2>3, <4>1
    <3>2. taken' = taken /\ given' = given
      BY <1>0, <1>3, <2>2, <2>3 DEF TypeOK
    <3> QED
      BY <1>2, <1>3, <3>1, <3>2
  <2>4. ASSUME NEW o \in Order, done = {o} PROVE I!Take(o)
    <3>1. ~taken[o]
      BY <1>0, <1>4, <2>4 DEF Own, Exists, InHand, AccountInv
    <3>2. ASSUME NEW i \in Ingredient
          PROVE  stock[i] >= Need[o][i] /\ stock'[i] = stock[i] - Need[o][i]
      <4>1. Need[o][i] \in Nat /\ I!NeedOf(done, i) = Need[o][i]
        BY <2>4, NeedOfOne, NeedAssumption
      <4> QED
        BY <1>1, <1>4, <4>1
    <3>3. taken' = [taken EXCEPT ![o] = TRUE]
      BY <1>0, <2>2, <2>4 DEF TypeOK
    <3>4. stock' = [i \in Ingredient |-> stock[i] - Need[o][i]] /\ given' = given
      BY <1>2, <1>3, <2>2, <3>2
    <3> QED
      BY <3>1, <3>2, <3>3, <3>4 DEF I!Take
  <2> QED
    BY <2>1, <2>3, <2>4 DEF I!Next
<1>5. CASE tx[w].call # "create"
  <2>1. \A o \in done : taken[o]
    BY <1>0, <1>5 DEF Own, InTurn
  <2>2. /\ taken' = taken
        /\ given' = [o \in Order |-> IF o \in done THEN given[o] + 1 ELSE given[o]]
    BY <1>0, <1>3, <1>5 DEF Commit, TypeOK
  <2>3. stock' = [i \in Ingredient |-> stock[i] + I!NeedOf(done, i)]
    BY <1>1, <1>2, <1>5
  <2>4. I!GiveBack(done)
    BY <2>1, <2>2, <2>3 DEF I!GiveBack
  <2> QED
    BY <1>0, <2>4 DEF I!Next
<1> QED
  BY <1>4, <1>5

\* Transaction by transaction, the stock is an inventory in which orders take and
\* give back at once, whatever rows their transactions lock, and in whichever
\* order they wait, roll back or are killed.
THEOREM IsInventory == Spec => InventorySpec
<1>1. Init => I!Init
  BY DEF Init, I!Init
<1>2. AccountInv /\ LockInv /\ [Next]_vars => [I!Next]_<<stock, taken, given>>
  <2> SUFFICES ASSUME AccountInv, LockInv, [Next]_vars
               PROVE  I!Next \/ UNCHANGED <<stock, taken, given>>
    OBVIOUS
  <2>1. CASE UNCHANGED vars
    BY <2>1 DEF vars, db
  <2>2. ASSUME NEW w \in Worker, Begin(w) \/ Step(w) \/ Rollback(w)
        PROVE  I!Next \/ UNCHANGED <<stock, taken, given>>
    <3>1. CASE Commit(w)
      BY <3>1, CommitInventory
    <3>2. CASE ~Commit(w)
      BY <2>2, <3>2 DEF Begin, Step, Read, Alter, NextOrder, TakeRow, OrderDone, Rollback, db
    <3> QED
      BY <3>1, <3>2
  <2> QED
    BY <2>1, <2>2 DEF Next
<1> QED
  BY <1>1, <1>2, AccountAlways, LockAlways, PTL DEF Spec, InventorySpec, I!Spec
=============================================================================
