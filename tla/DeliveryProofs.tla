----------------------------- MODULE DeliveryProofs -----------------------------
(***************************************************************************)
(* Proofs about Delivery.                                                  *)
(***************************************************************************)
EXTENDS Delivery, TLAPS

\* One request of the desk at a time.
OneDesk == \A d, e \in Desk : d = e

Early == {"preparing", "ready"}

-----------------------------------------------------------------------------
(* Requests *)

\* What changes an order names it, and only couriers pick up.
WellFormed ==
  \A a \in Actor : /\ req[a].op \in Alters => req[a].order \in Order
                   /\ req[a].op = "pickup" => a \in Courier

Typed == TypeOK /\ WellFormed

\* What is left of a request, as far as it is a record, is read off once.
LEMMA IdleFields ==
  /\ Idle \in Request /\ Idle.pc = 0 /\ Idle.op = "settle" /\ Idle.who = Nobody
  /\ Idle.sum = {} /\ Idle.order = NoOrder
BY DEF Idle, Request

LEMMA RequestFields ==
  ASSUME NEW r \in Request
  PROVE  /\ r.op \in Alters \cup {"settle"} /\ r.order \in Order \cup {NoOrder}
         /\ r.who \in Courier \cup {Nobody} /\ r.sum \in SUBSET Order /\ r.pc \in 0 .. 2
BY DEF Request

LEMMA RequestWith ==
  ASSUME NEW q \in Request
  PROVE  /\ \A op \in Alters \cup {"settle"} : [q EXCEPT !.op = op] \in Request
         /\ \A o \in Order : [q EXCEPT !.order = o] \in Request
         /\ \A c \in Courier : [q EXCEPT !.who = c] \in Request
         /\ \A s \in SUBSET Order : [q EXCEPT !.sum = s] \in Request
         /\ [q EXCEPT !.pc = 1] \in Request /\ [q EXCEPT !.pc = 2] \in Request
BY DEF Request

LEMMA SentRequest ==
  ASSUME NEW op \in Alters, NEW o \in Order
  PROVE  [Idle EXCEPT !.op = op, !.order = o, !.pc = 1] \in Request
<1> DEFINE q == [Idle EXCEPT !.op = op]
           r == [q EXCEPT !.order = o]
<1>1. [Idle EXCEPT !.op = op, !.order = o, !.pc = 1] = [r EXCEPT !.pc = 1]
  OBVIOUS
<1>2. q \in Request
  BY IdleFields, RequestWith
<1> HIDE DEF q
<1>3. r \in Request
  BY <1>2, RequestWith
<1> HIDE DEF r
<1> QED
  BY <1>1, <1>3, RequestWith

LEMMA SummedRequest ==
  ASSUME NEW c \in Courier, NEW s \in SUBSET Order
  PROVE  [Idle EXCEPT !.who = c, !.sum = s, !.pc = 2] \in Request
<1> DEFINE q == [Idle EXCEPT !.who = c]
           r == [q EXCEPT !.sum = s]
<1>1. [Idle EXCEPT !.who = c, !.sum = s, !.pc = 2] = [r EXCEPT !.pc = 2]
  OBVIOUS
<1>2. q \in Request
  BY IdleFields, RequestWith
<1> HIDE DEF q
<1>3. r \in Request
  BY <1>2, RequestWith
<1> HIDE DEF r
<1> QED
  BY <1>1, <1>3, RequestWith

LEMMA ReadRequest ==
  ASSUME NEW q \in Request
  PROVE  LET r == [q EXCEPT !.pc = 2] IN
         r \in Request /\ r.op = q.op /\ r.order = q.order /\ r.pc = 2 /\ r.who = q.who /\ r.sum = q.sum
BY DEF Request

\* A request is sent ...
LEMMA Sent ==
  ASSUME req \in [Actor -> Request], NEW a \in Actor, NEW op \in Alters, NEW o \in Order,
         Sends(a, op, o)
  PROVE  /\ req' \in [Actor -> Request]
         /\ req'[a].op = op /\ req'[a].order = o /\ req'[a].pc = 1
         /\ \A b \in Actor \ {a} : req'[b] = req[b]
<1> DEFINE r == [Idle EXCEPT !.op = op, !.order = o, !.pc = 1]
<1>1. r \in Request /\ r.op = op /\ r.order = o /\ r.pc = 1
  BY SentRequest DEF Idle
<1>2. req' = [req EXCEPT ![a] = r]
  BY DEF Sends
<1> HIDE DEF r
<1> QED
  BY <1>1, <1>2

\* ... and answered.
LEMMA Ended ==
  ASSUME req \in [Actor -> Request], NEW a \in Actor, req' = [req EXCEPT ![a] = Idle]
  PROVE  /\ req' \in [Actor -> Request]
         /\ req'[a].op = "settle" /\ req'[a].pc = 0
         /\ \A b \in Actor \ {a} : req'[b] = req[b]
BY IdleFields

LEMMA HasRead ==
  ASSUME req \in [Actor -> Request], NEW a \in Actor, req' = [req EXCEPT ![a].pc = 2]
  PROVE  /\ req' \in [Actor -> Request]
         /\ req'[a].op = req[a].op /\ req'[a].order = req[a].order /\ req'[a].pc = 2
         /\ req'[a].who = req[a].who /\ req'[a].sum = req[a].sum
         /\ \A b \in Actor \ {a} : req'[b] = req[b]
<1> DEFINE r == [req[a] EXCEPT !.pc = 2]
<1>1. req[a] \in Request
  OBVIOUS
<1>2. r \in Request /\ r.op = req[a].op /\ r.order = req[a].order /\ r.pc = 2 /\ r.who = req[a].who
        /\ r.sum = req[a].sum
  BY <1>1, ReadRequest
<1>3. req' = [req EXCEPT ![a] = r]
  OBVIOUS
<1> HIDE DEF r
<1> QED
  BY <1>2, <1>3

LEMMA Summed ==
  ASSUME req \in [Actor -> Request], NEW d \in Desk, NEW c \in Courier, NEW s \in SUBSET Order,
         req' = [req EXCEPT ![d] = [Idle EXCEPT !.who = c, !.sum = s, !.pc = 2]]
  PROVE  /\ req' \in [Actor -> Request]
         /\ req'[d].op = "settle" /\ req'[d].pc = 2 /\ req'[d].who = c /\ req'[d].sum = s
         /\ \A b \in Actor \ {d} : req'[b] = req[b]
<1> DEFINE r == [Idle EXCEPT !.who = c, !.sum = s, !.pc = 2]
<1>1. r \in Request /\ r.op = "settle" /\ r.who = c /\ r.sum = s /\ r.pc = 2
  BY SummedRequest DEF Idle
<1>2. req' = [req EXCEPT ![d] = r]
  OBVIOUS
<1>3. d \in Actor
  BY DEF Actor
<1> HIDE DEF r
<1> QED
  BY <1>1, <1>2, <1>3

-----------------------------------------------------------------------------
(* Queues *)

\* Every item of a queue has a property that does not depend on its place.
LEMMA ItemTail ==
  ASSUME NEW s \in Seq(Item), s # <<>>
  PROVE  /\ Tail(s) \in Seq(Item) /\ Head(s) \in Item
         /\ \A i \in 1 .. Len(Tail(s)) : i + 1 \in 1 .. Len(s) /\ Tail(s)[i] = s[i + 1]
         /\ 1 \in 1 .. Len(s) /\ Head(s) = s[1]
OBVIOUS

LEMMA ItemAppend ==
  ASSUME NEW s \in Seq(Item), NEW e \in Item
  PROVE  /\ Append(s, e) \in Seq(Item)
         /\ \A i \in 1 .. Len(Append(s, e)) :
              (i \in 1 .. Len(s) /\ Append(s, e)[i] = s[i]) \/ Append(s, e)[i] = e
OBVIOUS

LEMMA ItemFields ==
  /\ \A o \in Order : LET e == [op |-> "pickup", order |-> o] IN e \in Item /\ e.op = "pickup" /\ e.order = o
  /\ \A o \in Order : LET e == [op |-> "deliver", order |-> o] IN e \in Item /\ e.op = "deliver" /\ e.order = o
  /\ \A e \in Item : e.op \in {"pickup", "deliver"} /\ e.order \in Order
BY DEF Item

-----------------------------------------------------------------------------
(* Types *)

LEMMA EmptyQueue == <<>> \in Seq(Item)
OBVIOUS

LEMMA InitTyped == Init => Typed
<1> SUFFICES ASSUME Init PROVE Typed
  OBVIOUS
<1>1. /\ queue \in [Courier -> Seq(Item)] /\ replay \in [Courier -> Seq(Item)]
  BY EmptyQueue DEF Init
<1>2. /\ req \in [Actor -> Request]
      /\ \A a \in Actor : req[a].op = "settle"
  BY IdleFields DEF Init
<1>3. /\ status \in [Order -> Status] /\ courier \in [Order -> Courier \cup {Nobody}]
      /\ settled \in [Order -> BOOLEAN] /\ handed \in [Order -> Nat]
      /\ ticket \in [Order -> {"preparing", "ready", "completed", "cancelled"}]
      /\ place \in [Order -> Courier \cup {"kitchen", "customer"}]
      /\ carrier \in [Order -> Courier \cup {Nobody}] /\ taken \in [Order -> Nat]
      /\ view \in [Courier -> [Order -> {"none", "ready", "shipped"}]]
      /\ online \in [Courier -> BOOLEAN]
      /\ offs \in Nat /\ asked \in Nat
  BY DEF Init, Status
<1>4. WellFormed
  BY <1>2 DEF WellFormed, Alters
<1> QED
  BY <1>1, <1>2, <1>3, <1>4 DEF Typed, TypeOK

\* The phone and the request of whoever has been answered keep their types.
LEMMA AnsweredTyped ==
  ASSUME Typed, NEW a \in Actor, Answered(a)
  PROVE  /\ req' \in [Actor -> Request] /\ WellFormed'
         /\ queue' \in [Courier -> Seq(Item)] /\ replay' \in [Courier -> Seq(Item)]
         /\ view' = view /\ online' = online /\ offs' = offs /\ asked' = asked
<1>1. req' \in [Actor -> Request] /\ req'[a].op = "settle" /\ \A b \in Actor \ {a} : req'[b] = req[b]
  BY Ended DEF Answered, Typed, TypeOK
<1>2. WellFormed'
  BY <1>1 DEF WellFormed, Typed, Alters
<1>3. queue' \in [Courier -> Seq(Item)] /\ replay' \in [Courier -> Seq(Item)]
  <2>1. CASE a \in Courier /\ replay[a] # <<>>
    <3>1. replay[a] \in Seq(Item)
      BY <2>1 DEF Typed, TypeOK
    <3>2. Tail(replay[a]) \in Seq(Item)
      BY <2>1, <3>1, ItemTail
    <3>3. Through(a)
      BY <2>1 DEF Answered
    <3> QED
      BY <3>2, <3>3, <2>1, EmptyQueue DEF Through, Typed, TypeOK
  <2>2. CASE ~(a \in Courier /\ replay[a] # <<>>)
    BY <2>2 DEF Answered, Typed, TypeOK
  <2> QED
    BY <2>1, <2>2
<1> QED
  BY <1>1, <1>2, <1>3 DEF Answered

LEMMA SentTyped ==
  ASSUME Typed, NEW a \in Actor, NEW op \in Alters, NEW o \in Order, Sends(a, op, o),
         op = "pickup" => a \in Courier
  PROVE  req' \in [Actor -> Request] /\ WellFormed'
<1>1. /\ req' \in [Actor -> Request]
      /\ req'[a].op = op /\ req'[a].order = o
      /\ \A b \in Actor \ {a} : req'[b] = req[b]
  BY Sent DEF Typed, TypeOK
<1> QED
  BY <1>1 DEF WellFormed, Typed

LEMMA CourierActs == Courier \subseteq Actor /\ Desk \subseteq Actor
BY DEF Actor

\* The kitchen and the desk.
LEMMA DeskTyped ==
  ASSUME Typed, NEW o \in Order,
         \/ \E t \in {"preparing", "ready", "completed"} : Kitchen(o, t)
         \/ \E c \in Courier : Assign(o, c)
         \/ \E d \in Desk, op \in {"cancel", "deliver"} : DeskAsks(d, o, op)
  PROVE  Typed'
<1>1. ASSUME NEW t \in {"preparing", "ready", "completed"}, Kitchen(o, t) PROVE Typed'
  <2>1. StatusOf(t) \in Status
    BY DEF StatusOf, Status
  <2>2. status' \in [Order -> Status]
    BY <1>1, <2>1 DEF Kitchen, Typed, TypeOK
  <2>3. ticket' \in [Order -> {"preparing", "ready", "completed", "cancelled"}]
    BY <1>1 DEF Kitchen, Typed, TypeOK
  <2> QED
    <3>1. /\ UNCHANGED <<courier, settled, handed>> /\ UNCHANGED <<place, carrier, taken>>
          /\ UNCHANGED <<view, online, queue, replay>> /\ UNCHANGED <<req, offs, asked>>
      BY <1>1 DEF Kitchen, package, phone
    <3>2. WellFormed'
      BY <3>1 DEF WellFormed, Typed
    <3> QED
      BY <2>2, <2>3, <3>1, <3>2 DEF Typed, TypeOK
<1>2. ASSUME NEW c \in Courier, Assign(o, c) PROVE Typed'
  <2>1. courier' \in [Order -> Courier \cup {Nobody}] /\ asked' \in Nat
    <3>1. courier \in [Order -> Courier \cup {Nobody}] /\ asked \in Nat
      BY DEF Typed, TypeOK
    <3>2. courier' = [courier EXCEPT ![o] = c] /\ asked' = asked + 1
      BY <1>2 DEF Assign
    <3> QED
      BY <3>1, <3>2
  <2>2. /\ UNCHANGED <<status, settled, ticket, handed>> /\ UNCHANGED <<place, carrier, taken>>
        /\ UNCHANGED <<view, online, queue, replay>> /\ UNCHANGED <<req, offs>>
    BY <1>2 DEF Assign, package, phone
  <2>3. WellFormed'
    BY <2>2 DEF WellFormed, Typed
  <2> QED
    BY <2>1, <2>2, <2>3 DEF Typed, TypeOK
<1>3. ASSUME NEW d \in Desk, NEW op \in {"cancel", "deliver"}, DeskAsks(d, o, op) PROVE Typed'
  <2>1. d \in Actor /\ op \in Alters /\ op # "pickup" /\ Sends(d, op, o)
    BY <1>3, CourierActs DEF DeskAsks, Alters
  <2>2. req' \in [Actor -> Request] /\ WellFormed'
    BY <2>1, SentTyped
  <2> QED
    BY <1>3, <2>2 DEF DeskAsks, orders, package, phone, Typed, TypeOK
<1> QED
  BY <1>1, <1>2, <1>3

\* What a courier presses.
LEMMA PressTyped ==
  ASSUME Typed, NEW o \in Order, NEW c \in Courier,
         PressPickup(c, o) \/ PressDeliver(c, o) \/ PressCancel(c, o)
  PROVE  Typed'
<1>1. PICK op \in Alters : Sends(c, op, o)
  BY DEF PressPickup, PressDeliver, PressCancel, Alters
<1>2. req' \in [Actor -> Request] /\ WellFormed'
  BY <1>1, SentTyped, CourierActs
<1>3. place' \in [Order -> Courier \cup {"kitchen", "customer"}]
  BY DEF PressPickup, PressDeliver, PressCancel, package, Typed, TypeOK
<1> QED
  BY <1>2, <1>3 DEF PressPickup, PressDeliver, PressCancel, orders, package, phone, Typed, TypeOK

LEMMA QueueTyped ==
  ASSUME Typed, NEW o \in Order, NEW c \in Courier, QueuePickup(c, o) \/ QueueDeliver(c, o)
  PROVE  Typed'
<1>1. PICK e \in Item : queue' = [queue EXCEPT ![c] = Append(@, e)]
  BY ItemFields DEF QueuePickup, QueueDeliver
<1>2. queue[c] \in Seq(Item)
  BY DEF Typed, TypeOK
<1>3. Append(queue[c], e) \in Seq(Item)
  BY <1>2, ItemAppend
<1>4. queue' \in [Courier -> Seq(Item)]
  BY <1>1, <1>3 DEF Typed, TypeOK
<1>5. /\ place' \in [Order -> Courier \cup {"kitchen", "customer"}]
      /\ carrier' \in [Order -> Courier \cup {Nobody}]
  <2>1. CASE QueuePickup(c, o)
    BY <2>1 DEF QueuePickup, Typed, TypeOK
  <2>2. CASE QueueDeliver(c, o)
    BY <2>2 DEF QueueDeliver, Typed, TypeOK
  <2> QED
    BY <2>1, <2>2
<1>6. view' \in [Courier -> [Order -> {"none", "ready", "shipped"}]]
  <2>1. PICK v \in {"none", "shipped"} : view' = [view EXCEPT ![c][o] = v]
    BY DEF QueuePickup, QueueDeliver
  <2>2. view[c] \in [Order -> {"none", "ready", "shipped"}]
    BY DEF Typed, TypeOK
  <2>3. [view[c] EXCEPT ![o] = v] \in [Order -> {"none", "ready", "shipped"}]
    BY <2>2
  <2>4. view' = [view EXCEPT ![c] = [view[c] EXCEPT ![o] = v]]
    BY <2>1
  <2> QED
    BY <2>3, <2>4 DEF Typed, TypeOK
<1> QED
  BY <1>4, <1>5, <1>6 DEF QueuePickup, QueueDeliver, orders, Typed, TypeOK, WellFormed

LEMMA PhoneTyped ==
  ASSUME Typed, NEW c \in Courier,
         Refresh(c) \/ Network(c) \/ StartReplay(c) \/ ReplaySend(c) \/ ReplayFails(c)
  PROVE  Typed'
<1>1. CASE Refresh(c)
  <2>1. [o \in Order |-> Shows(c, o)] \in [Order -> {"none", "ready", "shipped"}]
    BY DEF Shows
  <2>2. view' \in [Courier -> [Order -> {"none", "ready", "shipped"}]]
    BY <1>1, <2>1 DEF Refresh, Typed, TypeOK
  <2> QED
    BY <1>1, <2>2 DEF Refresh, orders, package, Typed, TypeOK, WellFormed
<1>2. CASE Network(c)
  BY <1>2 DEF Network, orders, package, Typed, TypeOK, WellFormed
<1>3. CASE StartReplay(c)
  BY <1>3 DEF StartReplay, orders, package, Typed, TypeOK, WellFormed
<1>4. CASE ReplaySend(c)
  <2>1. replay[c] \in Seq(Item) /\ replay[c] # <<>>
    BY <1>4 DEF ReplaySend, Typed, TypeOK
  <2>2. Head(replay[c]).op \in Alters /\ Head(replay[c]).order \in Order
    BY <2>1, ItemTail, ItemFields DEF Alters
  <2>3. req' \in [Actor -> Request] /\ WellFormed'
    BY <1>4, <2>2, SentTyped, CourierActs DEF ReplaySend
  <2> QED
    BY <1>4, <2>3 DEF ReplaySend, orders, package, phone, Typed, TypeOK
<1>5. CASE ReplayFails(c)
  <2>1. replay[c] \in Seq(Item) /\ replay[c] # <<>>
    BY <1>5 DEF ReplayFails, Typed, TypeOK
  <2>2. Tail(replay[c]) \in Seq(Item)
    BY <2>1, ItemTail
  <2>3. queue' \in [Courier -> Seq(Item)] /\ replay' \in [Courier -> Seq(Item)]
    BY <1>5, <2>2, EmptyQueue DEF ReplayFails, Through, Typed, TypeOK
  <2> QED
    BY <1>5, <2>3 DEF ReplayFails, orders, package, Typed, TypeOK, WellFormed
<1> QED
  BY <1>1, <1>2, <1>3, <1>4, <1>5

\* The couriers' cash.
LEMMA CashTyped ==
  ASSUME Typed, NEW c \in Courier, NEW d \in Desk, Sum(d, c) \/ Reconcile(d, c)
  PROVE  Typed'
<1>1. CASE Sum(d, c)
  <2>1. Owes(c) \in SUBSET Order
    BY DEF Owes
  <2>2. /\ req' \in [Actor -> Request] /\ req'[d].op = "settle"
        /\ \A b \in Actor \ {d} : req'[b] = req[b]
    BY <1>1, <2>1, Summed DEF Sum, Typed, TypeOK
  <2>3. WellFormed'
    BY <2>2 DEF WellFormed, Typed, Alters
  <2> QED
    BY <1>1, <2>2, <2>3 DEF Sum, orders, package, phone, Typed, TypeOK
<1>2. CASE Reconcile(d, c)
  BY <1>2 DEF Reconcile, package, phone, Typed, TypeOK, WellFormed
<1> QED
  BY <1>1, <1>2

\* The API.
LEMMA ApiTyped ==
  ASSUME Typed, NEW a \in Actor, Api(a)
  PROVE  Typed'
<1>1. CASE Read(a)
  <2>1. CASE Allowed(req[a].op, status[req[a].order])
    <3>1. req' = [req EXCEPT ![a].pc = 2] /\ UNCHANGED <<phone, offs, asked>>
      BY <1>1, <2>1 DEF Read
    <3>2. /\ req' \in [Actor -> Request]
          /\ req'[a].op = req[a].op /\ req'[a].order = req[a].order
          /\ \A b \in Actor \ {a} : req'[b] = req[b]
      BY <3>1, HasRead DEF Typed, TypeOK
    <3>3. WellFormed'
      BY <3>2 DEF WellFormed, Typed
    <3> QED
      BY <1>1, <3>1, <3>2, <3>3 DEF Read, orders, package, phone, Typed, TypeOK
  <2>2. CASE ~Allowed(req[a].op, status[req[a].order])
    <3>1. Answered(a)
      BY <1>1, <2>2 DEF Read
    <3> QED
      BY <1>1, <3>1, AnsweredTyped DEF Read, orders, package, Typed, TypeOK
  <2> QED
    BY <2>1, <2>2
<1>2. CASE Pickup(a)
  <2>1. Answered(a) /\ a \in Courier
    BY <1>2 DEF Pickup, Reading, Typed, WellFormed
  <2>2. status' \in [Order -> Status] /\ courier' \in [Order -> Courier \cup {Nobody}]
    BY <1>2, <2>1 DEF Pickup, Status, Typed, TypeOK
  <2>3. /\ taken' \in [Order -> Nat] /\ carrier' \in [Order -> Courier \cup {Nobody}]
        /\ place' \in [Order -> Courier \cup {"kitchen", "customer"}]
    <3> DEFINE o == req[a].order
    <3>1. /\ taken' = [taken EXCEPT ![o] = @ + 1]
          /\ \/ place' = [place EXCEPT ![o] = a] /\ carrier' = [carrier EXCEPT ![o] = a]
             \/ UNCHANGED <<place, carrier>>
      BY <1>2 DEF Pickup
    <3>4. o \in Order
      BY <1>2 DEF Pickup, Reading, Typed, WellFormed
    <3> HIDE DEF o
    <3>2. taken' \in [Order -> Nat]
      BY <3>1, <3>4 DEF Typed, TypeOK
    <3>3. /\ carrier' \in [Order -> Courier \cup {Nobody}]
          /\ place' \in [Order -> Courier \cup {"kitchen", "customer"}]
      BY <2>1, <3>1 DEF Typed, TypeOK
    <3> QED
      BY <3>2, <3>3
  <2> QED
    BY <1>2, <2>1, <2>2, <2>3, AnsweredTyped DEF Pickup, Typed, TypeOK
<1>3. CASE Deliver(a)
  BY <1>3, AnsweredTyped DEF Deliver, Status, package, Typed, TypeOK
<1>4. CASE Cancel(a)
  BY <1>4, AnsweredTyped DEF Cancel, Status, package, Typed, TypeOK
<1>5. CASE Deadlocked(a)
  BY <1>5, AnsweredTyped DEF Deadlocked, orders, package, Typed, TypeOK
<1>6. CASE Settle(a)
  BY <1>6, AnsweredTyped DEF Settle, package, Typed, TypeOK
<1> QED
  BY <1>1, <1>2, <1>3, <1>4, <1>5, <1>6 DEF Api

LEMMA NextTyped == Typed /\ [Next]_vars => Typed'
<1> SUFFICES ASSUME Typed, [Next]_vars PROVE Typed'
  OBVIOUS
<1>1. CASE Next
  BY <1>1, DeskTyped, PressTyped, QueueTyped, PhoneTyped, CashTyped, ApiTyped DEF Next
<1>2. CASE UNCHANGED vars
  BY <1>2 DEF vars, orders, package, phone, Typed, TypeOK, WellFormed
<1> QED
  BY <1>1, <1>2

\* Every variable keeps its type, whoever slips and however requests overlap.
THEOREM TypeCorrect == Spec => []TypeOK
<1>1. Typed => TypeOK
  BY DEF Typed
<1> QED
  BY <1>1, InitTyped, NextTyped, PTL DEF Spec

-----------------------------------------------------------------------------
(* One courier gets the package *)

\* An order that waits in the kitchen has not been taken.
Untaken == \A o \in Order : status[o] \in Early => taken[o] = 0

\* What a request has read of its order's status is still so, but for what the
\* kitchen may do: everything else waits for the table.
Saw ==
  \A a \in Actor : req[a].pc = 2 =>
    /\ req[a].op = "pickup" => status[req[a].order] \in Early
    /\ req[a].op = "deliver" => status[req[a].order] = "shipped"

SafeInv == Typed /\ Untaken /\ TakenOnce /\ Saw

\* The kitchen is through with an order when the order leaves it.
InTime == "late kitchen" \notin Slips

LEMMA InitSafe == Init => SafeInv
<1> SUFFICES ASSUME Init PROVE SafeInv
  OBVIOUS
<1>1. \A a \in Actor : req[a].pc = 0
  BY IdleFields DEF Init
<1>2. Untaken /\ TakenOnce
  BY DEF Init, Untaken, TakenOnce
<1> QED
  BY <1>1, <1>2, InitTyped DEF SafeInv, Saw

\* A step that changes no status, and lets nobody read what it may not act on.
LEMMA QuietSafe ==
  ASSUME SafeInv, Typed', status' = status, taken' = taken,
         \A a \in Actor : req'[a].pc = 2 =>
           \/ req'[a] = req[a]
           \/ req'[a].op = "settle"
           \/ Allowed(req'[a].op, status[req'[a].order])
  PROVE  SafeInv'
<1>1. Untaken' /\ TakenOnce'
  BY DEF SafeInv, Untaken, TakenOnce
<1>2. ASSUME NEW a \in Actor, req'[a].pc = 2
      PROVE  /\ req'[a].op = "pickup" => status'[req'[a].order] \in Early
             /\ req'[a].op = "deliver" => status'[req'[a].order] = "shipped"
  BY <1>2 DEF SafeInv, Saw, Allowed, Early
<1> QED
  BY <1>1, <1>2 DEF SafeInv, Saw

\* What alone in the table a request writes.
LEMMA AloneSafe ==
  ASSUME SafeInv, Typed', NEW a \in Actor, Alone(a), Answered(a), Untaken', TakenOnce'
  PROVE  SafeInv'
<1>1. /\ req'[a].pc = 0 /\ \A b \in Actor \ {a} : req'[b] = req[b]
  BY Ended DEF Answered, SafeInv, Typed, TypeOK
<1>2. \A b \in Actor : req'[b].pc # 2
  BY <1>1 DEF Alone
<1> QED
  BY <1>2 DEF SafeInv, Saw

LEMMA KitchenSafe ==
  ASSUME SafeInv, Typed', InTime, NEW o \in Order, NEW t \in {"preparing", "ready", "completed"},
         Kitchen(o, t)
  PROVE  SafeInv'
<1>1. StatusOf(t) \in Early
  BY DEF StatusOf, Early
<1>2. status[o] \in Early
  BY DEF Kitchen, InTime, Early
<1>3. status' = [status EXCEPT ![o] = StatusOf(t)] /\ taken' = taken /\ req' = req
  BY DEF Kitchen, package
<1>4. status \in [Order -> Status]
  BY DEF SafeInv, Typed, TypeOK
<1>5. \A p \in Order : \/ status'[p] = status[p]
                       \/ status'[p] \in Early /\ status[p] \in Early
  BY <1>1, <1>2, <1>3, <1>4
<1>6. Untaken' /\ TakenOnce'
  BY <1>3, <1>5 DEF SafeInv, Untaken, TakenOnce
<1>7. ASSUME NEW a \in Actor, req[a].pc = 2, req[a].op \in {"pickup", "deliver"}
      PROVE  /\ req[a].op = "pickup" => status'[req[a].order] \in Early
             /\ req[a].op = "deliver" => status'[req[a].order] = "shipped"
  <2>1. req[a].order \in Order
    BY <1>7 DEF SafeInv, Typed, WellFormed, Alters
  <2> QED
    BY <1>5, <1>7, <2>1 DEF SafeInv, Saw, Early
<1> QED
  BY <1>3, <1>6, <1>7 DEF SafeInv, Saw

\* Steps of the phones and the desk.
Pressed(c, o) == PressPickup(c, o) \/ PressDeliver(c, o) \/ PressCancel(c, o)
Queued(c, o) == QueuePickup(c, o) \/ QueueDeliver(c, o)
Phone(c) == Refresh(c) \/ Network(c) \/ StartReplay(c) \/ ReplaySend(c) \/ ReplayFails(c)
Ordinary ==
  \/ \E o \in Order, c \in Courier : Assign(o, c) \/ Pressed(c, o) \/ Queued(c, o)
  \/ \E o \in Order, d \in Desk, op \in {"cancel", "deliver"} : DeskAsks(d, o, op)
  \/ \E c \in Courier : Phone(c)
Outside == Ordinary \/ \E c \in Courier, d \in Desk : Sum(d, c) \/ Reconcile(d, c)

\* A request that is sent has not read.
LEMMA SentHasNotRead ==
  ASSUME Typed, NEW a \in Actor, NEW op \in Alters, NEW o \in Order, Sends(a, op, o)
  PROVE  \A b \in Actor : req'[b].pc = 2 => req'[b] = req[b]
<1>1. req'[a].pc = 1 /\ \A b \in Actor \ {a} : req'[b] = req[b]
  BY Sent DEF Typed, TypeOK
<1> QED
  BY <1>1

\* None of these steps reads an order or touches its status.
LEMMA OrdinaryKeeps ==
  ASSUME Typed, Ordinary
  PROVE  /\ status' = status /\ taken' = taken
         /\ \A a \in Actor : req'[a].pc = 2 => req'[a] = req[a]
<1>1. ASSUME NEW o \in Order, NEW c \in Courier, Assign(o, c) \/ Pressed(c, o) \/ Queued(c, o)
      PROVE  /\ status' = status /\ taken' = taken
             /\ \A a \in Actor : req'[a].pc = 2 => req'[a] = req[a]
  <2>1. status' = status /\ taken' = taken
    BY <1>1 DEF Assign, Pressed, Queued, PressPickup, PressDeliver, PressCancel, QueuePickup,
       QueueDeliver, orders, package
  <2>2. CASE Pressed(c, o)
    <3>1. \E op \in Alters : Sends(c, op, o)
      BY <2>2 DEF Pressed, PressPickup, PressDeliver, PressCancel, Alters
    <3> QED
      BY <2>1, <3>1, SentHasNotRead, CourierActs
  <2>3. CASE ~Pressed(c, o)
    <3>1. req' = req
      BY <1>1, <2>3 DEF Assign, Queued, QueuePickup, QueueDeliver
    <3> QED
      BY <2>1, <3>1
  <2> QED
    BY <2>2, <2>3
<1>2. ASSUME NEW o \in Order, NEW d \in Desk, NEW op \in {"cancel", "deliver"}, DeskAsks(d, o, op)
      PROVE  /\ status' = status /\ taken' = taken
             /\ \A a \in Actor : req'[a].pc = 2 => req'[a] = req[a]
  <2>1. status' = status /\ taken' = taken /\ Sends(d, op, o) /\ op \in Alters
    BY <1>2 DEF DeskAsks, orders, package, Alters
  <2> QED
    BY <2>1, SentHasNotRead, CourierActs
<1>3. ASSUME NEW c \in Courier, Phone(c)
      PROVE  /\ status' = status /\ taken' = taken
             /\ \A a \in Actor : req'[a].pc = 2 => req'[a] = req[a]
  <2>1. status' = status /\ taken' = taken
    BY <1>3 DEF Phone, Refresh, Network, StartReplay, ReplaySend, ReplayFails, orders, package
  <2>2. CASE ReplaySend(c)
    <3>1. replay[c] \in Seq(Item) /\ replay[c] # <<>>
      BY <2>2 DEF ReplaySend, Typed, TypeOK
    <3>2. Head(replay[c]).op \in Alters /\ Head(replay[c]).order \in Order
      BY <3>1, ItemTail, ItemFields DEF Alters
    <3> QED
      BY <2>1, <2>2, <3>2, SentHasNotRead, CourierActs DEF ReplaySend
  <2>3. CASE ~ReplaySend(c)
    <3>1. req' = req
      BY <1>3, <2>3 DEF Phone, Refresh, Network, StartReplay, ReplayFails
    <3> QED
      BY <2>1, <3>1
  <2> QED
    BY <2>2, <2>3
<1> QED
  BY <1>1, <1>2, <1>3 DEF Ordinary

LEMMA OutsideKeeps ==
  ASSUME Typed, Outside
  PROVE  /\ status' = status /\ taken' = taken
         /\ \A a \in Actor : req'[a].pc = 2 => req'[a] = req[a] \/ req'[a].op = "settle"
<1>1. ASSUME NEW c \in Courier, NEW d \in Desk, Sum(d, c) \/ Reconcile(d, c)
      PROVE  /\ status' = status /\ taken' = taken
             /\ \A a \in Actor : req'[a].pc = 2 => req'[a] = req[a] \/ req'[a].op = "settle"
  <2>1. status' = status /\ taken' = taken
    BY <1>1 DEF Sum, Reconcile, orders, package
  <2>2. CASE Sum(d, c)
    <3>1. Owes(c) \in SUBSET Order
      BY DEF Owes
    <3>2. req'[d].op = "settle" /\ \A b \in Actor \ {d} : req'[b] = req[b]
      BY <2>2, <3>1, Summed DEF Sum, Typed, TypeOK
    <3> QED
      BY <2>1, <3>2
  <2>3. CASE Reconcile(d, c)
    BY <2>1, <2>3 DEF Reconcile
  <2> QED
    BY <1>1, <2>2, <2>3
<1> QED
  BY <1>1, OrdinaryKeeps DEF Outside

LEMMA OutsideSafe ==
  ASSUME SafeInv, Typed', Outside
  PROVE  SafeInv'
BY OutsideKeeps, QuietSafe DEF SafeInv

\* All steps, by who takes them.
LEMMA WhoSteps ==
  ASSUME Next
  PROVE  \/ \E o \in Order, t \in {"preparing", "ready", "completed"} : Kitchen(o, t)
         \/ Outside
         \/ \E a \in Actor : Pickup(a) \/ Deliver(a) \/ Cancel(a)
         \/ \E a \in Actor : Read(a) \/ Deadlocked(a) \/ Settle(a)
BY DEF Next, Outside, Ordinary, Pressed, Queued, Phone, Api

LEMMA PickupSafe ==
  ASSUME SafeInv, Typed', NEW a \in Actor, Pickup(a)
  PROVE  SafeInv' /\ status[req[a].order] \in Early
<1> DEFINE o == req[a].order
<1>1. /\ status' = [status EXCEPT ![o] = "shipped"] /\ taken' = [taken EXCEPT ![o] = @ + 1]
      /\ Alone(a) /\ Answered(a) /\ req[a].pc = 2 /\ req[a].op = "pickup"
  BY DEF Pickup, Reading
<1>2. o \in Order /\ status[o] \in Early
  BY <1>1 DEF SafeInv, Typed, WellFormed, Saw, Alters
<1> HIDE DEF o
<1>3. taken[o] = 0 /\ status \in [Order -> Status] /\ taken \in [Order -> Nat]
  BY <1>2 DEF SafeInv, Untaken, Typed, TypeOK
<1>4. Untaken' /\ TakenOnce'
  BY <1>1, <1>2, <1>3 DEF SafeInv, Untaken, TakenOnce, Early
<1> QED
  BY <1>1, <1>2, <1>4, AloneSafe DEF o

LEMMA WriteSafe ==
  ASSUME SafeInv, Typed', NEW a \in Actor, Deliver(a) \/ Cancel(a)
  PROVE  SafeInv' /\ (Deliver(a) => status[req[a].order] = "shipped")
<1>1. PICK s \in {"completed", "cancelled"} : status' = [status EXCEPT ![req[a].order] = s]
  BY DEF Deliver, Cancel
<1>2. taken' = taken /\ Alone(a) /\ Answered(a)
  BY DEF Deliver, Cancel, package
<1>3. Untaken' /\ TakenOnce'
  <2>1. \A p \in Order : status'[p] = status[p] \/ status'[p] \notin Early
    BY <1>1 DEF SafeInv, Typed, TypeOK, Early
  <2> QED
    BY <1>2, <2>1 DEF SafeInv, Untaken, TakenOnce
<1>4. Deliver(a) => status[req[a].order] = "shipped"
  BY DEF Deliver, Reading, SafeInv, Saw
<1> QED
  BY <1>2, <1>3, <1>4, AloneSafe

LEMMA ReadSafe ==
  ASSUME SafeInv, Typed', NEW a \in Actor, Read(a) \/ Deadlocked(a) \/ Settle(a)
  PROVE  SafeInv'
<1>1. status' = status /\ taken' = taken
  BY DEF Read, Deadlocked, Settle, orders, package
<1>2. CASE Answered(a)
  <2>1. req'[a].pc = 0 /\ \A b \in Actor \ {a} : req'[b] = req[b]
    BY <1>2, Ended DEF Answered, SafeInv, Typed, TypeOK
  <2> QED
    BY <1>1, <2>1, QuietSafe
<1>3. CASE ~Answered(a)
  <2>1. req' = [req EXCEPT ![a].pc = 2] /\ Allowed(req[a].op, status[req[a].order])
    BY <1>3 DEF Read, Deadlocked, Settle
  <2>2. /\ req'[a].op = req[a].op /\ req'[a].order = req[a].order
        /\ \A b \in Actor \ {a} : req'[b] = req[b]
    BY <2>1, HasRead DEF SafeInv, Typed, TypeOK
  <2>3. \A b \in Actor : req'[b].pc = 2 =>
           req'[b] = req[b] \/ Allowed(req'[b].op, status[req'[b].order])
    BY <2>1, <2>2
  <2> QED
    BY <1>1, <2>3, QuietSafe
<1> QED
  BY <1>2, <1>3

LEMMA NextSafe ==
  ASSUME SafeInv, InTime, [Next]_vars
  PROVE  SafeInv'
<1>1. Typed'
  BY NextTyped DEF SafeInv
<1>2. CASE UNCHANGED vars
  <2>1. status' = status /\ taken' = taken /\ req' = req
    BY <1>2 DEF vars, orders, package
  <2> QED
    BY <1>1, <2>1, QuietSafe
<1>3. CASE Next
  BY <1>1, <1>3, WhoSteps, KitchenSafe, OutsideSafe, PickupSafe, WriteSafe, ReadSafe
<1> QED
  BY <1>2, <1>3

\* However many couriers press for a package, online or from their queues, one
\* of them gets it, as long as the kitchen does not take orders back.
THEOREM OneCourier ==
  ASSUME InTime
  PROVE  Spec => []TakenOnce
<1>1. SafeInv => TakenOnce
  BY DEF SafeInv
<1>2. SafeInv /\ [Next]_vars => SafeInv'
  BY NextSafe
<1> QED
  BY <1>1, <1>2, InitSafe, PTL DEF Spec

\* An order that is over stays so, whatever is still on its way.
LEMMA SafeFinal ==
  ASSUME SafeInv, InTime, [Next]_vars
  PROVE  \A o \in Order :
           /\ status[o] = "cancelled" => status'[o] = "cancelled"
           /\ status[o] = "completed" => status'[o] \in {"completed", "cancelled"}
<1> DEFINE Goal == \A o \in Order :
           /\ status[o] = "cancelled" => status'[o] = "cancelled"
           /\ status[o] = "completed" => status'[o] \in {"completed", "cancelled"}
<1>1. CASE status' = status
  BY <1>1
<1>2. ASSUME NEW o \in Order, NEW t \in {"preparing", "ready", "completed"}, Kitchen(o, t) PROVE Goal
  <2>1. status[o] \in Early /\ status' = [status EXCEPT ![o] = StatusOf(t)]
    BY <1>2 DEF Kitchen, InTime, Early
  <2> QED
    BY <2>1 DEF SafeInv, Typed, TypeOK, Early
<1>3. ASSUME NEW a \in Actor, Pickup(a) PROVE Goal
  <2>1. Typed'
    BY <1>3, ApiTyped DEF Api, SafeInv
  <2>2. status[req[a].order] \in Early /\ status' = [status EXCEPT ![req[a].order] = "shipped"]
    BY <1>3, <2>1, PickupSafe DEF Pickup
  <2> QED
    BY <2>2 DEF SafeInv, Typed, TypeOK, Early
<1>4. ASSUME NEW a \in Actor, Deliver(a) PROVE Goal
  <2>1. Typed'
    BY <1>4, ApiTyped DEF Api, SafeInv
  <2>2. status[req[a].order] = "shipped" /\ status' = [status EXCEPT ![req[a].order] = "completed"]
    BY <1>4, <2>1, WriteSafe DEF Deliver
  <2> QED
    BY <2>2 DEF SafeInv, Typed, TypeOK
<1>5. ASSUME NEW a \in Actor, Cancel(a) PROVE Goal
  BY <1>5 DEF Cancel, SafeInv, Typed, TypeOK
<1>6. ASSUME NEW a \in Actor, Read(a) \/ Deadlocked(a) \/ Settle(a) PROVE status' = status
  BY <1>6 DEF Read, Deadlocked, Settle, orders
<1>7. UNCHANGED vars => status' = status
  BY DEF vars, orders
<1>8. Outside => status' = status
  BY OutsideKeeps DEF SafeInv
<1> QED
  BY <1>1, <1>2, <1>3, <1>4, <1>5, <1>6, <1>7, <1>8, WhoSteps

\* An order that is cancelled is not delivered or brought back by a request that
\* was on its way, and one that is completed is at most cancelled.
THEOREM OverStaysOver ==
  ASSUME InTime
  PROVE  Spec => FinalIsFinal
<1>1. SafeInv /\ [Next]_vars => SafeInv'
  BY NextSafe
<1>2. SafeInv /\ [Next]_vars =>
        [\A o \in Order :
           /\ status[o] = "cancelled" => status'[o] = "cancelled"
           /\ status[o] = "completed" => status'[o] \in {"completed", "cancelled"}]_vars
  BY SafeFinal
<1> QED
  BY <1>1, <1>2, InitSafe, PTL DEF Spec, FinalIsFinal

-----------------------------------------------------------------------------
(* Who owes the cash *)

\* Nobody assigns a courier on a screen that is out of date, or takes offline
\* what another has asked for.
InSight == "hasty desk" \notin Slips /\ "grab" \notin Slips

\* A courier whose pickup can still succeed has the package, or nobody has.
Wanted ==
  \A a \in Actor : req[a].pc > 0 /\ req[a].op = "pickup" /\ status[req[a].order] \in Early =>
    place[req[a].order] = "kitchen" \/ carrier[req[a].order] = a

\* What a phone has kept to send as picked up, its courier carries.
Mine(c, s, has, at) ==
  \A i \in 1 .. Len(s) : s[i].op = "pickup" => has[s[i].order] = c /\ at[s[i].order] # "kitchen"

KeptIsMine == \A c \in Courier : Mine(c, queue[c], carrier, place) /\ Mine(c, replay[c], carrier, place)

CashInv == SafeInv /\ CashOwner /\ Wanted /\ KeptIsMine

LEMMA InitCash == Init => CashInv
<1> SUFFICES ASSUME Init PROVE CashInv
  OBVIOUS
<1>1. \A a \in Actor : req[a].pc = 0
  BY IdleFields DEF Init
<1>2. CashOwner /\ KeptIsMine
  BY DEF Init, CashOwner, KeptIsMine, Mine
<1> QED
  BY <1>1, <1>2, InitSafe DEF CashInv, Wanted

\* What has left the kitchen does not return, nor change hands.
Stays == \A o \in Order : place[o] # "kitchen" => place'[o] # "kitchen" /\ carrier'[o] = carrier[o]

\* What is left of a queue.
Rest(t, s) == t = s \/ t = <<>> \/ (s # <<>> /\ t = Tail(s))

LEMMA MineRest ==
  ASSUME NEW c, NEW s \in Seq(Item), NEW t, Rest(t, s), Mine(c, s, carrier, place), Stays
  PROVE  Mine(c, t, carrier', place')
<1>1. \A i \in 1 .. Len(s) : s[i].op = "pickup" => carrier'[s[i].order] = c /\ place'[s[i].order] # "kitchen"
  <2>1. \A i \in 1 .. Len(s) : s[i].order \in Order
    BY ItemFields
  <2> QED
    BY <2>1 DEF Mine, Stays
<1>2. CASE t = s
  BY <1>1, <1>2 DEF Mine
<1>3. CASE t = <<>>
  BY <1>3 DEF Mine
<1>4. CASE s # <<>> /\ t = Tail(s)
  <2>1. \A i \in 1 .. Len(t) : i + 1 \in 1 .. Len(s) /\ t[i] = s[i + 1]
    BY <1>4, ItemTail
  <2> QED
    BY <1>1, <2>1 DEF Mine
<1> QED
  BY <1>2, <1>3, <1>4 DEF Rest

LEMMA MineAppend ==
  ASSUME NEW c, NEW s \in Seq(Item), NEW e \in Item, Mine(c, s, carrier, place), Stays,
         e.op = "pickup" => carrier'[e.order] = c /\ place'[e.order] # "kitchen"
  PROVE  Mine(c, Append(s, e), carrier', place')
<1>1. Mine(c, s, carrier', place')
  BY MineRest DEF Rest
<1>2. \A i \in 1 .. Len(Append(s, e)) :
         (i \in 1 .. Len(s) /\ Append(s, e)[i] = s[i]) \/ Append(s, e)[i] = e
  BY ItemAppend
<1> QED
  BY <1>1, <1>2 DEF Mine

\* A step that takes from queues, or puts a queue up to be sent.
LEMMA KeptRest ==
  ASSUME Typed, KeptIsMine, Stays,
         \A c \in Courier : /\ Rest(queue'[c], queue[c])
                            /\ Rest(replay'[c], replay[c]) \/ replay'[c] = queue[c]
  PROVE  KeptIsMine'
<1> SUFFICES ASSUME NEW c \in Courier
             PROVE  Mine(c, queue'[c], carrier', place') /\ Mine(c, replay'[c], carrier', place')
  BY DEF KeptIsMine
<1>1. queue[c] \in Seq(Item) /\ replay[c] \in Seq(Item)
  BY DEF Typed, TypeOK
<1>2. Mine(c, queue[c], carrier, place) /\ Mine(c, replay[c], carrier, place)
  BY DEF KeptIsMine
<1>3. Mine(c, queue'[c], carrier', place')
  BY <1>1, <1>2, MineRest
<1>4. CASE Rest(replay'[c], replay[c])
  BY <1>1, <1>2, <1>3, <1>4, MineRest
<1>5. CASE replay'[c] = queue[c]
  <2>1. Rest(replay'[c], queue[c])
    BY <1>5 DEF Rest
  <2> QED
    BY <1>1, <1>2, <1>3, <2>1, MineRest
<1> QED
  BY <1>4, <1>5

LEMMA ThroughRest ==
  ASSUME Typed, NEW a \in Courier, Through(a), replay[a] # <<>>
  PROVE  \A c \in Courier : Rest(queue'[c], queue[c]) /\ Rest(replay'[c], replay[c])
<1>1. \A c \in Courier : Rest(replay'[c], replay[c])
  BY DEF Through, Rest, Typed, TypeOK
<1>2. \A c \in Courier : Rest(queue'[c], queue[c])
  BY DEF Through, Rest, Typed, TypeOK
<1> QED
  BY <1>1, <1>2

LEMMA AnsweredRest ==
  ASSUME Typed, NEW a \in Actor, Answered(a)
  PROVE  /\ \A c \in Courier : Rest(queue'[c], queue[c]) /\ Rest(replay'[c], replay[c])
         /\ \A b \in Actor : req'[b].pc > 0 => req'[b] = req[b]
<1>1. req'[a].pc = 0 /\ \A b \in Actor \ {a} : req'[b] = req[b]
  BY Ended DEF Answered, Typed, TypeOK
<1>2. CASE a \in Courier /\ replay[a] # <<>>
  <2>1. Through(a)
    BY <1>2 DEF Answered
  <2> QED
    BY <1>1, <1>2, <2>1, ThroughRest
<1>3. CASE ~(a \in Courier /\ replay[a] # <<>>)
  <2>1. queue' = queue /\ replay' = replay
    BY <1>3 DEF Answered
  <2> QED
    BY <1>1, <2>1 DEF Rest
<1> QED
  BY <1>2, <1>3

\* A step that leaves orders and packages alone; whoever comes to ask for a
\* pickup finds the package in the kitchen, or has it.
LEMMA QuietCash ==
  ASSUME CashInv, SafeInv', KeptIsMine',
         \A o \in Order : status'[o] = status[o] \/ (status[o] \in Early /\ status'[o] \in Early),
         \A o \in Order : courier'[o] = courier[o] \/ status[o] \in Early,
         carrier' = carrier,
         \A o \in Order : place[o] = "kitchen" => place'[o] = "kitchen",
         \A a \in Actor : req'[a].pc > 0 /\ req'[a].op = "pickup" =>
           \/ req'[a].op = req[a].op /\ req'[a].order = req[a].order /\ req[a].pc > 0
           \/ place'[req'[a].order] = "kitchen"
           \/ carrier[req'[a].order] = a
  PROVE  CashInv'
<1>1. CashOwner'
  BY DEF CashInv, CashOwner, Early
<1>2. Wanted'
  <2> SUFFICES ASSUME NEW a \in Actor, req'[a].pc > 0, req'[a].op = "pickup",
                      status'[req'[a].order] \in Early
               PROVE  place'[req'[a].order] = "kitchen" \/ carrier'[req'[a].order] = a
    BY DEF Wanted
  <2>1. req'[a].order \in Order
    BY DEF SafeInv, Typed, WellFormed, Alters
  <2>2. CASE req'[a].op = req[a].op /\ req'[a].order = req[a].order /\ req[a].pc > 0
    <3>1. status[req[a].order] \in Early
      BY <2>1, <2>2
    <3>2. place[req[a].order] = "kitchen" \/ carrier[req[a].order] = a
      BY <2>2, <3>1 DEF CashInv, Wanted
    <3> QED
      BY <2>1, <2>2, <3>2
  <2> QED
    BY <2>2
<1> QED
  BY <1>1, <1>2 DEF CashInv

LEMMA DeskCash ==
  ASSUME CashInv, SafeInv', InTime, InSight, NEW o \in Order,
         \/ \E t \in {"preparing", "ready", "completed"} : Kitchen(o, t)
         \/ \E c \in Courier : Assign(o, c)
  PROVE  CashInv'
<1>1. /\ UNCHANGED <<place, carrier>> /\ UNCHANGED <<queue, replay>> /\ req' = req
  BY DEF Kitchen, Assign, package, phone
<1>2. KeptIsMine'
  <2>1. Stays /\ \A c \in Courier : Rest(queue'[c], queue[c]) /\ Rest(replay'[c], replay[c])
    BY <1>1 DEF Stays, Rest
  <2> QED
    BY <2>1, KeptRest DEF CashInv, SafeInv
<1>3. /\ \A p \in Order : status'[p] = status[p] \/ (status[p] \in Early /\ status'[p] \in Early)
      /\ \A p \in Order : courier'[p] = courier[p] \/ status[p] \in Early
  <2>1. ASSUME NEW t \in {"preparing", "ready", "completed"}, Kitchen(o, t)
        PROVE  /\ \A p \in Order : status'[p] = status[p] \/ (status[p] \in Early /\ status'[p] \in Early)
               /\ courier' = courier
    <3>1. status[o] \in Early /\ StatusOf(t) \in Early /\ status' = [status EXCEPT ![o] = StatusOf(t)]
      BY <2>1 DEF Kitchen, InTime, Early, StatusOf
    <3>2. courier' = courier
      BY <2>1 DEF Kitchen
    <3> QED
      BY <3>1, <3>2 DEF CashInv, SafeInv, Typed, TypeOK
  <2>2. ASSUME NEW c \in Courier, Assign(o, c)
        PROVE  /\ status' = status
               /\ \A p \in Order : courier'[p] = courier[p] \/ status[p] \in Early
    <3>1. status[o] \in Early /\ courier' = [courier EXCEPT ![o] = c] /\ status' = status
      BY <2>2 DEF Assign, InSight, Early
    <3> QED
      BY <3>1 DEF CashInv, SafeInv, Typed, TypeOK
  <2> QED
    BY <2>1, <2>2
<1> QED
  BY <1>1, <1>2, <1>3, QuietCash

LEMMA PressCash ==
  ASSUME CashInv, SafeInv', NEW o \in Order, NEW c \in Courier, Pressed(c, o)
  PROVE  CashInv'
<1>1. /\ UNCHANGED <<status, courier, carrier>> /\ UNCHANGED <<queue, replay>>
      /\ \/ place' = place
         \/ place' = [place EXCEPT ![o] = "customer"] /\ (place[o] = c \/ place[o] = "customer")
  BY DEF Pressed, PressPickup, PressDeliver, PressCancel, orders, package, phone
<1>2. c # "kitchen"
  BY ActorAssumption, CourierActs
<1>3. \A p \in Order : /\ place[p] = "kitchen" => place'[p] = "kitchen"
                       /\ place[p] # "kitchen" => place'[p] # "kitchen"
  BY <1>1, <1>2 DEF CashInv, SafeInv, Typed, TypeOK
<1>4. KeptIsMine'
  <2>1. Stays /\ \A k \in Courier : Rest(queue'[k], queue[k]) /\ Rest(replay'[k], replay[k])
    BY <1>1, <1>3 DEF Stays, Rest
  <2> QED
    BY <2>1, KeptRest DEF CashInv, SafeInv
<1>5. PICK op \in Alters : Sends(c, op, o) /\ (op = "pickup" => place[o] = "kitchen")
  BY DEF Pressed, PressPickup, PressDeliver, PressCancel, Alters
<1>6. /\ req'[c].op = op /\ req'[c].order = o
      /\ \A b \in Actor \ {c} : req'[b] = req[b]
  BY <1>5, Sent, CourierActs DEF CashInv, SafeInv, Typed, TypeOK
<1>7. \A a \in Actor : req'[a].pc > 0 /\ req'[a].op = "pickup" =>
           \/ req'[a].op = req[a].op /\ req'[a].order = req[a].order /\ req[a].pc > 0
           \/ place'[req'[a].order] = "kitchen"
  BY <1>3, <1>5, <1>6
<1> QED
  BY <1>1, <1>3, <1>4, <1>7, QuietCash

LEMMA QueueCash ==
  ASSUME CashInv, SafeInv', InSight, NEW o \in Order, NEW c \in Courier, Queued(c, o)
  PROVE  CashInv'
<1>1. CASE QueuePickup(c, o)
  <2> DEFINE e == [op |-> "pickup", order |-> o]
  <2>1. /\ place[o] = "kitchen" /\ status[o] \in Early /\ ~Asks(o, "pickup")
        /\ place' = [place EXCEPT ![o] = c] /\ carrier' = [carrier EXCEPT ![o] = c]
        /\ queue' = [queue EXCEPT ![c] = Append(@, e)]
        /\ UNCHANGED <<status, courier>> /\ UNCHANGED <<replay, req>>
    BY <1>1 DEF QueuePickup, InSight, orders, Early
  <2>2. c # "kitchen"
    BY ActorAssumption, CourierActs
  <2>3. e \in Item /\ e.op = "pickup" /\ e.order = o
    BY ItemFields
  <2> HIDE DEF e
  <2>4. /\ \A p \in Order \ {o} : place'[p] = place[p] /\ carrier'[p] = carrier[p]
        /\ place'[o] = c /\ carrier'[o] = c
    BY <2>1 DEF CashInv, SafeInv, Typed, TypeOK
  <2>5. Stays
    BY <2>1, <2>4 DEF Stays
  <2>6. KeptIsMine'
    <3> SUFFICES ASSUME NEW k \in Courier
                 PROVE  Mine(k, queue'[k], carrier', place') /\ Mine(k, replay'[k], carrier', place')
      BY DEF KeptIsMine
    <3>1. queue[k] \in Seq(Item) /\ replay[k] \in Seq(Item)
      BY DEF CashInv, SafeInv, Typed, TypeOK
    <3>2. Mine(k, queue[k], carrier, place) /\ Mine(k, replay[k], carrier, place)
      BY DEF CashInv, KeptIsMine
    <3>3. Mine(k, replay'[k], carrier', place')
      BY <2>1, <2>5, <3>1, <3>2, MineRest DEF Rest
    <3>4. CASE k = c
      <4>1. queue'[k] = Append(queue[k], e)
        BY <2>1, <3>4 DEF CashInv, SafeInv, Typed, TypeOK
      <4>2. Mine(k, Append(queue[k], e), carrier', place')
        BY <2>2, <2>3, <2>4, <2>5, <3>1, <3>2, <3>4, MineAppend
      <4> QED
        BY <3>3, <4>1, <4>2
    <3>5. CASE k # c
      <4>1. queue'[k] = queue[k]
        BY <2>1, <3>5 DEF CashInv, SafeInv, Typed, TypeOK
      <4> QED
        BY <2>5, <3>1, <3>2, <3>3, <4>1, MineRest DEF Rest
    <3> QED
      BY <3>4, <3>5
  <2>7. CashOwner'
    BY <2>1, <2>4 DEF CashInv, CashOwner, Early
  <2>8. Wanted'
    <3> SUFFICES ASSUME NEW a \in Actor, req[a].pc > 0, req[a].op = "pickup",
                        status[req[a].order] \in Early
                 PROVE  place'[req[a].order] = "kitchen" \/ carrier'[req[a].order] = a
      BY <2>1 DEF Wanted
    <3>1. req[a].order \in Order
      BY DEF CashInv, SafeInv, Typed, WellFormed, Alters
    <3>2. req[a].order # o
      BY <2>1 DEF Asks, Busy
    <3>3. place[req[a].order] = "kitchen" \/ carrier[req[a].order] = a
      BY DEF CashInv, Wanted
    <3> QED
      BY <2>4, <3>1, <3>2, <3>3
  <2> QED
    BY <2>6, <2>7, <2>8 DEF CashInv
<1>2. CASE QueueDeliver(c, o)
  <2> DEFINE e == [op |-> "deliver", order |-> o]
  <2>1. /\ place[o] = c /\ place' = [place EXCEPT ![o] = "customer"]
        /\ queue' = [queue EXCEPT ![c] = Append(@, e)]
        /\ UNCHANGED <<status, courier, carrier>> /\ UNCHANGED <<replay, req>>
    BY <1>2 DEF QueueDeliver, orders
  <2>2. c # "kitchen"
    BY ActorAssumption, CourierActs
  <2>3. e \in Item /\ e.op # "pickup"
    BY ItemFields
  <2> HIDE DEF e
  <2>4. \A p \in Order : /\ place[p] = "kitchen" => place'[p] = "kitchen"
                         /\ place[p] # "kitchen" => place'[p] # "kitchen"
    BY <2>1, <2>2 DEF CashInv, SafeInv, Typed, TypeOK
  <2>5. Stays
    BY <2>1, <2>4 DEF Stays
  <2>6. KeptIsMine'
    <3> SUFFICES ASSUME NEW k \in Courier
                 PROVE  Mine(k, queue'[k], carrier', place') /\ Mine(k, replay'[k], carrier', place')
      BY DEF KeptIsMine
    <3>1. queue[k] \in Seq(Item) /\ replay[k] \in Seq(Item)
      BY DEF CashInv, SafeInv, Typed, TypeOK
    <3>2. Mine(k, queue[k], carrier, place) /\ Mine(k, replay[k], carrier, place)
      BY DEF CashInv, KeptIsMine
    <3>3. Mine(k, replay'[k], carrier', place')
      BY <2>1, <2>5, <3>1, <3>2, MineRest DEF Rest
    <3>4. CASE k = c
      <4>1. queue'[k] = Append(queue[k], e)
        BY <2>1, <3>4 DEF CashInv, SafeInv, Typed, TypeOK
      <4>2. Mine(k, Append(queue[k], e), carrier', place')
        BY <2>3, <2>5, <3>1, <3>2, MineAppend
      <4> QED
        BY <3>3, <4>1, <4>2
    <3>5. CASE k # c
      <4>1. queue'[k] = queue[k]
        BY <2>1, <3>5 DEF CashInv, SafeInv, Typed, TypeOK
      <4> QED
        BY <2>5, <3>1, <3>2, <3>3, <4>1, MineRest DEF Rest
    <3> QED
      BY <3>4, <3>5
  <2> QED
    BY <2>1, <2>4, <2>6, QuietCash
<1> QED
  BY <1>1, <1>2 DEF Queued

LEMMA AskCash ==
  ASSUME CashInv, SafeInv', NEW o \in Order, NEW d \in Desk, NEW op \in {"cancel", "deliver"},
         DeskAsks(d, o, op)
  PROVE  CashInv'
<1>1. /\ UNCHANGED <<status, courier, carrier, place>> /\ UNCHANGED <<queue, replay>>
      /\ Sends(d, op, o) /\ op \in Alters
  BY DEF DeskAsks, orders, package, phone, Alters
<1>2. KeptIsMine'
  <2>1. Stays /\ \A k \in Courier : Rest(queue'[k], queue[k]) /\ Rest(replay'[k], replay[k])
    BY <1>1 DEF Stays, Rest
  <2> QED
    BY <2>1, KeptRest DEF CashInv, SafeInv
<1>3. req'[d].op = op /\ \A b \in Actor \ {d} : req'[b] = req[b]
  BY <1>1, Sent, CourierActs DEF CashInv, SafeInv, Typed, TypeOK
<1>4. \A a \in Actor : req'[a].pc > 0 /\ req'[a].op = "pickup" => req'[a] = req[a]
  BY <1>3
<1> QED
  BY <1>1, <1>2, <1>4, QuietCash

LEMMA PhoneCash ==
  ASSUME CashInv, SafeInv', NEW c \in Courier, Phone(c)
  PROVE  CashInv'
<1>1. UNCHANGED <<status, courier, carrier, place>>
  BY DEF Phone, Refresh, Network, StartReplay, ReplaySend, ReplayFails, orders, package
<1>2. /\ \A k \in Courier : Rest(queue'[k], queue[k])
      /\ \A k \in Courier : Rest(replay'[k], replay[k]) \/ replay'[k] = queue[k]
  <2>1. CASE Refresh(c) \/ Network(c) \/ ReplaySend(c)
    <3>1. UNCHANGED <<queue, replay>>
      BY <2>1 DEF Refresh, Network, ReplaySend, phone
    <3> QED
      BY <3>1 DEF Rest
  <2>2. CASE StartReplay(c)
    <3>1. queue' = queue /\ replay' = [replay EXCEPT ![c] = queue[c]]
      BY <2>2 DEF StartReplay
    <3> QED
      BY <3>1 DEF Rest, CashInv, SafeInv, Typed, TypeOK
  <2>3. CASE ReplayFails(c)
    BY <2>3, ThroughRest DEF ReplayFails, CashInv, SafeInv
  <2> QED
    BY <2>1, <2>2, <2>3 DEF Phone
<1>3. KeptIsMine'
  <2>1. Stays
    BY <1>1 DEF Stays
  <2> QED
    BY <1>2, <2>1, KeptRest DEF CashInv, SafeInv
<1>4. \A a \in Actor : req'[a].pc > 0 /\ req'[a].op = "pickup" =>
           req'[a] = req[a] \/ carrier[req'[a].order] = a
  <2>1. CASE ReplaySend(c)
    <3> DEFINE e == Head(replay[c])
    <3>1. replay[c] \in Seq(Item) /\ replay[c] # <<>>
      BY <2>1 DEF ReplaySend, CashInv, SafeInv, Typed, TypeOK
    <3>2. e.op \in Alters /\ e.order \in Order /\ 1 \in 1 .. Len(replay[c]) /\ e = replay[c][1]
      BY <3>1, ItemTail, ItemFields DEF Alters
    <3>3. e.op = "pickup" => carrier[e.order] = c
      BY <3>2 DEF CashInv, KeptIsMine, Mine
    <3>4. Sends(c, e.op, e.order)
      BY <2>1 DEF ReplaySend
    <3> HIDE DEF e
    <3>5. /\ req'[c].op = e.op /\ req'[c].order = e.order
          /\ \A b \in Actor \ {c} : req'[b] = req[b]
      BY <3>2, <3>4, Sent, CourierActs DEF CashInv, SafeInv, Typed, TypeOK
    <3> QED
      BY <3>3, <3>5
  <2>2. CASE ~ReplaySend(c)
    <3>1. req' = req
      BY <2>2 DEF Phone, Refresh, Network, StartReplay, ReplayFails
    <3> QED
      BY <3>1
  <2> QED
    BY <2>1, <2>2
<1> QED
  BY <1>1, <1>3, <1>4, QuietCash

LEMMA SettleCash ==
  ASSUME CashInv, SafeInv', NEW c \in Courier, NEW d \in Desk, Sum(d, c) \/ Reconcile(d, c)
  PROVE  CashInv'
<1>1. UNCHANGED <<status, courier, carrier, place>> /\ UNCHANGED <<queue, replay>>
  BY DEF Sum, Reconcile, orders, package, phone
<1>2. KeptIsMine'
  <2>1. Stays /\ \A k \in Courier : Rest(queue'[k], queue[k]) /\ Rest(replay'[k], replay[k])
    BY <1>1 DEF Stays, Rest
  <2> QED
    BY <2>1, KeptRest DEF CashInv, SafeInv
<1>3. \A a \in Actor : req'[a].pc > 0 /\ req'[a].op = "pickup" => req'[a] = req[a]
  <2>1. CASE Sum(d, c)
    <3>1. Owes(c) \in SUBSET Order
      BY DEF Owes
    <3>2. req'[d].op = "settle" /\ \A b \in Actor \ {d} : req'[b] = req[b]
      BY <2>1, <3>1, Summed DEF Sum, CashInv, SafeInv, Typed, TypeOK
    <3> QED
      BY <3>2
  <2>2. CASE Reconcile(d, c)
    BY <2>2 DEF Reconcile
  <2> QED
    BY <2>1, <2>2
<1> QED
  BY <1>1, <1>2, <1>3, QuietCash

LEMMA PickupCash ==
  ASSUME CashInv, SafeInv', NEW a \in Actor, Pickup(a)
  PROVE  CashInv'
<1> DEFINE o == req[a].order
<1>1. /\ status' = [status EXCEPT ![o] = "shipped"] /\ courier' = [courier EXCEPT ![o] = a]
      /\ IF place[o] = "kitchen"
           THEN place' = [place EXCEPT ![o] = a] /\ carrier' = [carrier EXCEPT ![o] = a]
           ELSE UNCHANGED <<place, carrier>>
      /\ Answered(a) /\ req[a].pc = 2 /\ req[a].op = "pickup"
  BY DEF Pickup, Reading
<1>2. o \in Order /\ a \in Courier /\ status[o] \in Early
  BY <1>1 DEF CashInv, SafeInv, Typed, WellFormed, Saw, Alters
<1>3. place[o] = "kitchen" \/ carrier[o] = a
  BY <1>1, <1>2 DEF CashInv, Wanted
<1> HIDE DEF o
<1>4. a # "kitchen"
  BY ActorAssumption
<1>5. /\ \A p \in Order \ {o} : /\ status'[p] = status[p] /\ courier'[p] = courier[p]
                                /\ carrier'[p] = carrier[p] /\ place'[p] = place[p]
      /\ status'[o] = "shipped" /\ courier'[o] = a /\ carrier'[o] = a
      /\ place[o] # "kitchen" => place'[o] # "kitchen"
  BY <1>1, <1>2, <1>3 DEF CashInv, SafeInv, Typed, TypeOK
<1>6. Stays
  BY <1>2, <1>3, <1>5 DEF Stays
<1>7. KeptIsMine'
  BY <1>1, <1>6, AnsweredRest, KeptRest DEF CashInv, SafeInv
<1>8. CashOwner'
  BY <1>5 DEF CashInv, CashOwner
<1>9. Wanted'
  <2> SUFFICES ASSUME NEW b \in Actor, req'[b].pc > 0, req'[b].op = "pickup",
                      status'[req'[b].order] \in Early
               PROVE  place'[req'[b].order] = "kitchen" \/ carrier'[req'[b].order] = b
    BY DEF Wanted
  <2>1. req'[b] = req[b]
    BY <1>1, AnsweredRest DEF CashInv, SafeInv
  <2>2. req[b].order \in Order /\ req[b].order # o
    BY <1>5, <2>1 DEF CashInv, SafeInv, Typed, WellFormed, Alters, Early
  <2>3. place[req[b].order] = "kitchen" \/ carrier[req[b].order] = b
    BY <1>5, <2>1, <2>2 DEF CashInv, Wanted
  <2> QED
    BY <1>5, <2>1, <2>2, <2>3
<1> QED
  BY <1>7, <1>8, <1>9 DEF CashInv

LEMMA WriteCash ==
  ASSUME CashInv, SafeInv', NEW a \in Actor, Deliver(a) \/ Cancel(a)
  PROVE  CashInv'
<1>1. PICK s \in {"completed", "cancelled"} :
        /\ status' = [status EXCEPT ![req[a].order] = s]
        /\ s = "completed" => Deliver(a)
  BY DEF Deliver, Cancel
<1>2. UNCHANGED <<courier, carrier, place>> /\ Answered(a)
  BY DEF Deliver, Cancel, package
<1>3. Deliver(a) => status[req[a].order] = "shipped"
  BY DEF Deliver, Reading, CashInv, SafeInv, Saw
<1>4. KeptIsMine'
  <2>1. Stays
    BY <1>2 DEF Stays
  <2> QED
    BY <1>2, <2>1, AnsweredRest, KeptRest DEF CashInv, SafeInv
<1>5. CashOwner'
  BY <1>1, <1>2, <1>3 DEF CashInv, CashOwner, SafeInv, Typed, TypeOK
<1>6. Wanted'
  <2> SUFFICES ASSUME NEW b \in Actor, req'[b].pc > 0, req'[b].op = "pickup",
                      status'[req'[b].order] \in Early
               PROVE  place'[req'[b].order] = "kitchen" \/ carrier'[req'[b].order] = b
    BY DEF Wanted
  <2>1. req'[b] = req[b]
    BY <1>2, AnsweredRest DEF CashInv, SafeInv
  <2>2. req[b].order \in Order
    BY <2>1 DEF CashInv, SafeInv, Typed, WellFormed, Alters
  <2>3. status[req[b].order] \in Early
    BY <1>1, <2>1, <2>2 DEF CashInv, SafeInv, Typed, TypeOK, Early
  <2> QED
    BY <1>2, <2>1, <2>3 DEF CashInv, Wanted
<1> QED
  BY <1>4, <1>5, <1>6 DEF CashInv

LEMMA ReadCash ==
  ASSUME CashInv, SafeInv', NEW a \in Actor, Read(a) \/ Deadlocked(a) \/ Settle(a)
  PROVE  CashInv'
<1>1. UNCHANGED <<status, courier, carrier, place>>
  BY DEF Read, Deadlocked, Settle, orders, package
<1>2. Stays
  BY <1>1 DEF Stays
<1>3. CASE Answered(a)
  <2>1. KeptIsMine' /\ \A b \in Actor : req'[b].pc > 0 => req'[b] = req[b]
    BY <1>2, <1>3, AnsweredRest, KeptRest DEF CashInv, SafeInv
  <2> QED
    BY <1>1, <2>1, QuietCash
<1>4. CASE ~Answered(a)
  <2>1. /\ req' = [req EXCEPT ![a].pc = 2] /\ UNCHANGED <<queue, replay>>
        /\ req[a].pc = 1
    BY <1>4 DEF Read, Deadlocked, Settle, phone
  <2>2. /\ req'[a].op = req[a].op /\ req'[a].order = req[a].order
        /\ \A b \in Actor \ {a} : req'[b] = req[b]
    BY <2>1, HasRead DEF CashInv, SafeInv, Typed, TypeOK
  <2>3. KeptIsMine'
    <3>1. \A k \in Courier : Rest(queue'[k], queue[k]) /\ Rest(replay'[k], replay[k])
      BY <2>1 DEF Rest
    <3> QED
      BY <1>2, <3>1, KeptRest DEF CashInv, SafeInv
  <2>4. \A b \in Actor : req'[b].pc > 0 =>
           req'[b].op = req[b].op /\ req'[b].order = req[b].order /\ req[b].pc > 0
    BY <2>1, <2>2
  <2> QED
    BY <1>1, <2>3, <2>4, QuietCash
<1> QED
  BY <1>3, <1>4

LEMMA OutsideCash ==
  ASSUME CashInv, SafeInv', InTime, InSight, Outside
  PROVE  CashInv'
BY DeskCash, PressCash, QueueCash, AskCash, PhoneCash, SettleCash DEF Outside, Ordinary

LEMMA NextCash ==
  ASSUME CashInv, InTime, InSight, [Next]_vars
  PROVE  CashInv'
<1>1. SafeInv'
  BY NextSafe DEF CashInv
<1>2. CASE UNCHANGED vars
  <2>1. /\ UNCHANGED <<status, courier, carrier, place>> /\ UNCHANGED <<queue, replay, req>>
    BY <1>2 DEF vars, orders, package, phone
  <2> QED
    BY <1>1, <2>1 DEF CashInv, CashOwner, Wanted, KeptIsMine
<1>3. CASE Next
  BY <1>1, <1>3, WhoSteps, DeskCash, OutsideCash, PickupCash, WriteCash, ReadCash
<1> QED
  BY <1>2, <1>3

\* The courier an order is booked on, who is asked for its cash, is the one who
\* took the package, if nobody acts on a screen that is out of date.
THEOREM CarrierOwes ==
  ASSUME InTime, InSight
  PROVE  Spec => []CashOwner
<1>1. CashInv => CashOwner
  BY DEF CashInv
<1>2. CashInv /\ [Next]_vars => CashInv'
  BY NextCash
<1> QED
  BY <1>1, <1>2, InitCash, PTL DEF Spec

-----------------------------------------------------------------------------
(* The cash is handed over once *)

\* What the desk has summed and not yet marked is what the courier still owes.
SumHolds ==
  \A a \in Actor : req[a].pc = 2 /\ req[a].op = "settle" =>
    a \in Desk /\ req[a].sum = Owes(req[a].who)

HandInv == SafeInv /\ HandedOver /\ SumHolds

LEMMA InitHand == Init => HandInv
<1> SUFFICES ASSUME Init PROVE HandInv
  OBVIOUS
<1>1. \A a \in Actor : req[a].pc = 0
  BY IdleFields DEF Init
<1>2. HandedOver
  BY DEF Init, HandedOver
<1> QED
  BY <1>1, <1>2, InitSafe DEF HandInv, SumHolds

\* A step that settles nothing: what is owed stays, or nobody has summed.
LEMMA QuietHand ==
  ASSUME HandInv, SafeInv', settled' = settled, handed' = handed,
         \A a \in Actor : req'[a].pc = 2 /\ req'[a].op = "settle" =>
           /\ req'[a] = req[a] /\ Owes(req[a].who)' = Owes(req[a].who)
  PROVE  HandInv'
<1>1. HandedOver'
  BY DEF HandInv, HandedOver
<1> QED
  BY <1>1 DEF HandInv, SumHolds

LEMMA KeptHand ==
  ASSUME HandInv, SafeInv', settled' = settled, handed' = handed,
         \A o \in Order : \/ status'[o] = status[o] /\ courier'[o] = courier[o]
                          \/ status'[o] # "completed" /\ status[o] # "completed",
         \A a \in Actor : req'[a].pc = 2 /\ req'[a].op = "settle" => req'[a] = req[a]
  PROVE  HandInv'
<1>1. ASSUME NEW a \in Actor, req'[a].pc = 2, req'[a].op = "settle"
      PROVE  req'[a] = req[a] /\ Owes(req[a].who)' = Owes(req[a].who)
  <2>1. req'[a] = req[a]
    BY <1>1
  <2>2. \A o \in Order : (courier'[o] = req[a].who /\ status'[o] = "completed" /\ ~settled'[o])
           <=> (courier[o] = req[a].who /\ status[o] = "completed" /\ ~settled[o])
    OBVIOUS
  <2> QED
    BY <2>1, <2>2 DEF Owes
<1> QED
  BY <1>1, QuietHand

LEMMA KitchenHand ==
  ASSUME HandInv, SafeInv', InTime, NEW o \in Order, NEW t \in {"preparing", "ready", "completed"},
         Kitchen(o, t)
  PROVE  HandInv'
<1>1. /\ status[o] \in Early /\ StatusOf(t) \in Early /\ status' = [status EXCEPT ![o] = StatusOf(t)]
      /\ UNCHANGED <<courier, settled, handed>> /\ req' = req
  BY DEF Kitchen, InTime, Early, StatusOf
<1>2. \A p \in Order : \/ status'[p] = status[p] /\ courier'[p] = courier[p]
                       \/ status'[p] # "completed" /\ status[p] # "completed"
  BY <1>1 DEF HandInv, SafeInv, Typed, TypeOK, Early
<1>3. settled' = settled /\ handed' = handed
  BY <1>1
<1>4. \A a \in Actor : req'[a].pc = 2 /\ req'[a].op = "settle" => req'[a] = req[a]
  BY <1>1
<1> QED
  BY <1>2, <1>3, <1>4, KeptHand

LEMMA OrdinaryHand ==
  ASSUME HandInv, SafeInv', InSight, Ordinary
  PROVE  HandInv'
<1>1. /\ status' = status /\ UNCHANGED <<settled, handed>>
      /\ \A a \in Actor : req'[a].pc = 2 => req'[a] = req[a]
  <2>1. UNCHANGED <<settled, handed>>
    BY DEF Ordinary, Assign, Pressed, Queued, Phone, PressPickup, PressDeliver, PressCancel, QueuePickup,
       QueueDeliver, DeskAsks, Refresh, Network, StartReplay, ReplaySend, ReplayFails, orders
  <2> QED
    BY <2>1, OrdinaryKeeps DEF HandInv, SafeInv
<1>2. \A p \in Order : courier'[p] = courier[p] \/ status[p] \in Early
  <2>1. ASSUME NEW o \in Order, NEW c \in Courier, Assign(o, c)
        PROVE  \A p \in Order : courier'[p] = courier[p] \/ status[p] \in Early
    <3>1. status[o] \in Early /\ courier' = [courier EXCEPT ![o] = c]
      BY <2>1 DEF Assign, InSight, Early
    <3> QED
      BY <3>1 DEF HandInv, SafeInv, Typed, TypeOK
  <2>2. CASE courier' = courier
    BY <2>2
  <2>3. \/ courier' = courier
        \/ \E o \in Order, c \in Courier : Assign(o, c)
    BY DEF Ordinary, Pressed, Queued, Phone, PressPickup, PressDeliver, PressCancel, QueuePickup,
       QueueDeliver, DeskAsks, Refresh, Network, StartReplay, ReplaySend, ReplayFails, orders
  <2> QED
    BY <2>1, <2>2, <2>3
<1>3. \A p \in Order : \/ status'[p] = status[p] /\ courier'[p] = courier[p]
                       \/ status'[p] # "completed" /\ status[p] # "completed"
  BY <1>1, <1>2 DEF Early
<1>4. settled' = settled /\ handed' = handed
  BY <1>1
<1>5. \A a \in Actor : req'[a].pc = 2 /\ req'[a].op = "settle" => req'[a] = req[a]
  BY <1>1
<1> QED
  BY <1>3, <1>4, <1>5, KeptHand

\* One request of the desk at a time: no other has summed.
LEMMA NoOtherSum ==
  ASSUME HandInv, OneDesk, NEW d \in Desk
  PROVE  \A a \in Actor \ {d} : ~(req[a].pc = 2 /\ req[a].op = "settle")
BY DEF HandInv, SumHolds, OneDesk

LEMMA DeskHand ==
  ASSUME HandInv, SafeInv', OneDesk, NEW c \in Courier, NEW d \in Desk, Sum(d, c) \/ Reconcile(d, c)
  PROVE  HandInv'
<1>1. CASE Sum(d, c)
  <2>1. PICK s \in SUBSET Order : s = Owes(c)
    BY DEF Owes
  <2>6. req' = [req EXCEPT ![d] = [Idle EXCEPT !.who = c, !.sum = s, !.pc = 2]]
    BY <1>1, <2>1 DEF Sum
  <2>7. req \in [Actor -> Request]
    BY DEF HandInv, SafeInv, Typed, TypeOK
  <2>8. /\ req'[d].who = c /\ req'[d].sum = s
        /\ \A b \in Actor \ {d} : req'[b] = req[b]
    <3> DEFINE r == [Idle EXCEPT !.who = c, !.sum = s, !.pc = 2]
    <3>1. r.who = c /\ r.sum = s
      BY DEF Idle
    <3>2. req' = [req EXCEPT ![d] = r]
      BY <2>6
    <3> HIDE DEF r
    <3> QED
      BY <2>7, <3>1, <3>2, CourierActs
  <2>2. /\ req'[d].who = c /\ req'[d].sum = Owes(c)
        /\ \A b \in Actor \ {d} : req'[b] = req[b]
    BY <2>1, <2>8
  <2>3. UNCHANGED <<status, courier, settled, handed>>
    BY <1>1 DEF Sum, orders
  <2>4. Owes(req[d].who)' = Owes(c)
    BY <2>2, <2>3 DEF Owes
  <2>5. SumHolds'
    BY <2>2, <2>4, NoOtherSum DEF SumHolds
  <2> QED
    BY <2>3, <2>5 DEF HandInv, HandedOver
<1>2. CASE Reconcile(d, c)
  <2>1. /\ settled' = [o \in Order |-> settled[o] \/ o \in Owes(c)]
        /\ handed' = [o \in Order |-> IF o \in Owes(c) THEN handed[o] + 1 ELSE handed[o]]
        /\ req' = req /\ ~Busy(d)
    BY <1>2 DEF Reconcile
  <2>2. \A o \in Owes(c) : ~settled[o]
    BY DEF Owes
  <2>3. HandedOver'
    <3> SUFFICES ASSUME NEW o \in Order PROVE handed'[o] = IF settled'[o] THEN 1 ELSE 0
      BY DEF HandedOver
    <3>1. handed[o] = IF settled[o] THEN 1 ELSE 0
      BY DEF HandInv, HandedOver
    <3>2. CASE o \in Owes(c)
      <4>1. settled'[o] /\ ~settled[o] /\ handed'[o] = handed[o] + 1
        BY <2>1, <2>2, <3>2
      <4> QED
        BY <3>1, <4>1
    <3>3. CASE o \notin Owes(c)
      <4>1. (settled'[o] <=> settled[o]) /\ handed'[o] = handed[o]
        BY <2>1, <3>3
      <4> QED
        BY <3>1, <4>1
    <3> QED
      BY <3>2, <3>3
  <2>4. SumHolds'
    BY <2>1, NoOtherSum DEF SumHolds, Busy
  <2> QED
    BY <2>3, <2>4 DEF HandInv
<1> QED
  BY <1>1, <1>2

LEMMA AloneHand ==
  ASSUME HandInv, SafeInv', NEW a \in Actor, Pickup(a) \/ Deliver(a) \/ Cancel(a)
  PROVE  HandInv'
<1>1. UNCHANGED <<settled, handed>> /\ Alone(a) /\ Answered(a)
  BY DEF Pickup, Deliver, Cancel
<1>2. req'[a].pc = 0 /\ \A b \in Actor \ {a} : req'[b] = req[b]
  BY <1>1, Ended DEF Answered, HandInv, SafeInv, Typed, TypeOK
<1>3. \A b \in Actor : req'[b].pc # 2
  BY <1>1, <1>2 DEF Alone
<1> QED
  BY <1>1, <1>3, QuietHand

LEMMA ReadHand ==
  ASSUME HandInv, SafeInv', NEW a \in Actor, Read(a) \/ Deadlocked(a)
  PROVE  HandInv'
<1>1. UNCHANGED <<status, courier, settled, handed>>
  BY DEF Read, Deadlocked, orders
<1>2. \A b \in Actor : req'[b].pc = 2 /\ req'[b].op = "settle" => req'[b] = req[b]
  <2>1. CASE Answered(a)
    BY <2>1, AnsweredRest DEF HandInv, SafeInv
  <2>2. CASE ~Answered(a)
    <3>1. req' = [req EXCEPT ![a].pc = 2] /\ req[a].op # "settle"
      BY <2>2 DEF Read, Deadlocked, Alters
    <3>2. req'[a].op = req[a].op /\ \A b \in Actor \ {a} : req'[b] = req[b]
      BY <3>1, HasRead DEF HandInv, SafeInv, Typed, TypeOK
    <3> QED
      BY <3>1, <3>2
  <2> QED
    BY <2>1, <2>2
<1>3. settled' = settled /\ handed' = handed
  BY <1>1
<1>4. \A o \in Order : \/ status'[o] = status[o] /\ courier'[o] = courier[o]
                       \/ status'[o] # "completed" /\ status[o] # "completed"
  BY <1>1
<1> QED
  BY <1>2, <1>3, <1>4, KeptHand

LEMMA SettleHand ==
  ASSUME HandInv, SafeInv', OneDesk, NEW d \in Actor, Settle(d)
  PROVE  HandInv'
<1>1. /\ req[d].pc = 2 /\ req[d].op = "settle"
      /\ settled' = [o \in Order |-> settled[o] \/ o \in Owes(req[d].who)]
      /\ handed' = [o \in Order |-> IF o \in req[d].sum THEN handed[o] + 1 ELSE handed[o]]
      /\ Answered(d)
  BY DEF Settle
<1>2. d \in Desk /\ req[d].sum = Owes(req[d].who)
  BY <1>1 DEF HandInv, SumHolds
<1>3. \A o \in Owes(req[d].who) : ~settled[o]
  BY DEF Owes
<1>4. HandedOver'
  <2> SUFFICES ASSUME NEW o \in Order PROVE handed'[o] = IF settled'[o] THEN 1 ELSE 0
    BY DEF HandedOver
  <2>1. handed[o] = IF settled[o] THEN 1 ELSE 0
    BY DEF HandInv, HandedOver
  <2>2. CASE o \in Owes(req[d].who)
    <3>1. settled'[o] /\ ~settled[o] /\ handed'[o] = handed[o] + 1
      BY <1>1, <1>2, <1>3, <2>2
    <3> QED
      BY <2>1, <3>1
  <2>3. CASE o \notin Owes(req[d].who)
    <3>1. (settled'[o] <=> settled[o]) /\ handed'[o] = handed[o]
      BY <1>1, <1>2, <2>3
    <3> QED
      BY <2>1, <3>1
  <2> QED
    BY <2>2, <2>3
<1>5. req'[d].pc = 0 /\ \A b \in Actor \ {d} : req'[b] = req[b]
  BY <1>1, Ended DEF Answered, HandInv, SafeInv, Typed, TypeOK
<1>6. SumHolds'
  BY <1>2, <1>5, NoOtherSum DEF SumHolds
<1> QED
  BY <1>4, <1>6 DEF HandInv

LEMMA NextHand ==
  ASSUME HandInv, InTime, InSight, OneDesk, [Next]_vars
  PROVE  HandInv'
<1>1. SafeInv'
  BY NextSafe DEF HandInv
<1>2. CASE UNCHANGED vars
  <2>1. UNCHANGED <<status, courier, settled, handed>> /\ req' = req
    BY <1>2 DEF vars, orders
  <2>2. settled' = settled /\ handed' = handed
    BY <2>1
  <2>3. \A o \in Order : \/ status'[o] = status[o] /\ courier'[o] = courier[o]
                         \/ status'[o] # "completed" /\ status[o] # "completed"
    BY <2>1
  <2>4. \A a \in Actor : req'[a].pc = 2 /\ req'[a].op = "settle" => req'[a] = req[a]
    BY <2>1
  <2> QED
    BY <1>1, <2>2, <2>3, <2>4, KeptHand
<1>3. CASE Next
  BY <1>1, <1>3, WhoSteps, KitchenHand, OrdinaryHand, DeskHand, AloneHand, ReadHand, SettleHand DEF Outside
<1> QED
  BY <1>2, <1>3

\* The cash of an order is settled if and only if it was taken from its courier,
\* and once, although the sum and the mark are two statements: a request at the
\* desk that has summed keeps ALTER TABLE, and so every delivery, waiting.
THEOREM CashOnce ==
  ASSUME InTime, InSight, OneDesk
  PROVE  Spec => []HandedOver
<1>1. HandInv => HandedOver
  BY DEF HandInv
<1>2. HandInv /\ [Next]_vars => HandInv'
  BY NextHand
<1> QED
  BY <1>1, <1>2, InitHand, PTL DEF Spec
=============================================================================
