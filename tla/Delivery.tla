------------------------------- MODULE Delivery -------------------------------
(***************************************************************************)
(* Delivery orders: the kitchen, the couriers' phones with their offline   *)
(* queue, the desk that assigns couriers and takes their cash, and the     *)
(* transactions of the API that change an order.                           *)
(*                                                                         *)
(*   status[o], courier[o], settled[o]   columns of orders                 *)
(*   ticket[o]   status of the order's kitchen ticket                      *)
(*   handed[o]   how often the order's cash has been taken from a courier  *)
(*   place[o]    where the package is; carrier[o], who took it last        *)
(*   taken[o]    the pickups of o that have been answered with success     *)
(*   view[c]     what c's phone shows: o to pick up, o on the road         *)
(*   online[c], queue[c], replay[c]  the phone's network, the queue in     *)
(*               its local storage, and the part of it that is being sent  *)
(*   req[a]      the request of a: of a courier, or of somebody at a desk  *)
(*   offs, asked what the model counts to bound it                         *)
(*                                                                         *)
(* A request reads the order, holding a lock on the table that others can  *)
(* share.  Changing the status then runs ALTER TABLE orders, which waits   *)
(* until nobody else holds a lock, and keeps everybody out until it has    *)
(* committed; two requests that wait for each other are a deadlock, and    *)
(* one of them is rolled back.                                             *)
(***************************************************************************)
EXTENDS Integers, Sequences

CONSTANTS Order, Courier, Desk, Nobody, NoOrder,
          Slips,          \* what people and networks may get wrong, see Slip
          MaxOff, MaxAsked

\* late kitchen: a ticket moves when its order has left the kitchen
\* hasty desk:   a courier is assigned on a screen that is out of date
\* grab:         offline, a courier takes what another has asked for
Slip == {"late kitchen", "hasty desk", "grab"}

Actor == Courier \cup Desk

ASSUME ActorAssumption ==
  /\ Courier \cap Desk = {} /\ Nobody \notin Actor /\ NoOrder \notin Order
  /\ {"kitchen", "customer"} \cap Actor = {}
ASSUME SlipsAssumption == Slips \subseteq Slip
ASSUME BoundAssumption == MaxOff \in Nat /\ MaxAsked \in Nat

VARIABLES status, courier, settled, ticket, handed, place, carrier, taken,
          view, online, queue, replay, req, offs, asked

orders == <<status, courier, settled, ticket, handed>>
package == <<place, carrier, taken>>
phone == <<view, online, queue, replay>>
vars == <<orders, package, phone, req, offs, asked>>

Status == {"preparing", "ready", "shipped", "completed", "cancelled"}
Alters == {"pickup", "deliver", "cancel"}

\* pc: 0 no request, 1 sent, 2 has read and holds the shared lock.
Request == [op : Alters \cup {"settle"}, order : Order \cup {NoOrder},
            who : Courier \cup {Nobody}, sum : SUBSET Order, pc : 0 .. 2]
Idle == [op |-> "settle", order |-> NoOrder, who |-> Nobody, sum |-> {}, pc |-> 0]
Item == [op : {"pickup", "deliver"}, order : Order]

TypeOK ==
  /\ status \in [Order -> Status] /\ courier \in [Order -> Courier \cup {Nobody}]
  /\ settled \in [Order -> BOOLEAN] /\ handed \in [Order -> Nat]
  /\ ticket \in [Order -> {"preparing", "ready", "completed", "cancelled"}]
  /\ place \in [Order -> Courier \cup {"kitchen", "customer"}]
  /\ carrier \in [Order -> Courier \cup {Nobody}] /\ taken \in [Order -> Nat]
  /\ view \in [Courier -> [Order -> {"none", "ready", "shipped"}]]
  /\ online \in [Courier -> BOOLEAN]
  /\ queue \in [Courier -> Seq(Item)] /\ replay \in [Courier -> Seq(Item)]
  /\ req \in [Actor -> Request]
  /\ offs \in Nat /\ asked \in Nat

Init ==
  /\ status = [o \in Order |-> "preparing"] /\ courier = [o \in Order |-> Nobody]
  /\ settled = [o \in Order |-> FALSE] /\ handed = [o \in Order |-> 0]
  /\ ticket = [o \in Order |-> "preparing"]
  /\ place = [o \in Order |-> "kitchen"] /\ carrier = [o \in Order |-> Nobody]
  /\ taken = [o \in Order |-> 0]
  /\ view = [c \in Courier |-> [o \in Order |-> "none"]]
  /\ online = [c \in Courier |-> TRUE]
  /\ queue = [c \in Courier |-> <<>>] /\ replay = [c \in Courier |-> <<>>]
  /\ req = [a \in Actor |-> Idle]
  /\ offs = 0 /\ asked = 0

Busy(a) == req[a].pc > 0
Asks(o, op) == \E a \in Actor : Busy(a) /\ req[a].order = o /\ req[a].op = op
Sends(a, op, o) == ~Busy(a) /\ req' = [req EXCEPT ![a] = [Idle EXCEPT !.op = op, !.order = o, !.pc = 1]]

-----------------------------------------------------------------------------
(* The kitchen and the desk *)

\* updateTicketStatus sets the order's status from the ticket's, whatever it is.
StatusOf(t) == IF t = "preparing" THEN "preparing" ELSE "ready"

Kitchen(o, t) ==
  /\ t # ticket[o]
  /\ "late kitchen" \in Slips \/ (place[o] = "kitchen" /\ status[o] \in {"preparing", "ready"})
  /\ ticket' = [ticket EXCEPT ![o] = t]
  /\ status' = [status EXCEPT ![o] = StatusOf(t)]
  /\ UNCHANGED <<courier, settled, handed, package, phone, req, offs, asked>>

\* assignCourierDirect looks at nothing.
Assign(o, c) ==
  /\ "hasty desk" \in Slips \/ status[o] \in {"preparing", "ready"}
  /\ asked < MaxAsked /\ asked' = asked + 1
  /\ courier' = [courier EXCEPT ![o] = c]
  /\ UNCHANGED <<status, settled, ticket, handed, package, phone, req, offs>>

\* The desk cancels an order, or says that it was delivered and paid.
DeskAsks(d, o, op) ==
  /\ asked < MaxAsked /\ asked' = asked + 1
  /\ \/ op = "cancel" /\ status[o] \notin {"completed", "cancelled"}
     \/ op = "deliver" /\ status[o] = "shipped"
  /\ Sends(d, op, o)
  /\ UNCHANGED <<orders, package, phone, offs>>

-----------------------------------------------------------------------------
(* A courier's phone *)

\* Mutant of Shows: the list of what is on the road is left out.
ShowsReady(c, o) == IF status[o] = "ready" /\ courier[o] \in {Nobody, c} THEN "ready" ELSE "none"

Shows(c, o) ==
  IF status[o] = "ready" /\ courier[o] \in {Nobody, c} THEN "ready"
  ELSE IF status[o] = "shipped" /\ courier[o] = c THEN "shipped"
  ELSE "none"

\* Every fifteen seconds, and when a socket event names an order.
Refresh(c) ==
  /\ online[c]
  /\ view' = [view EXCEPT ![c] = [o \in Order |-> Shows(c, o)]]
  /\ UNCHANGED <<orders, package, online, queue, replay, req, offs, asked>>

\* A courier presses for a package that he sees.
PressPickup(c, o) ==
  /\ online[c] /\ replay[c] = <<>> /\ view[c][o] = "ready" /\ place[o] = "kitchen"
  /\ Sends(c, "pickup", o)
  /\ UNCHANGED <<orders, package, phone, offs, asked>>

PressDeliver(c, o) ==
  /\ online[c] /\ replay[c] = <<>> /\ view[c][o] = "shipped"
  /\ place[o] = c \/ (place[o] = "customer" /\ carrier[o] = c)
  /\ place' = [place EXCEPT ![o] = "customer"]
  /\ Sends(c, "deliver", o)
  /\ UNCHANGED <<orders, carrier, taken, phone, offs, asked>>

PressCancel(c, o) ==
  /\ online[c] /\ replay[c] = <<>> /\ view[c][o] = "shipped" /\ place[o] = c
  /\ Sends(c, "cancel", o)
  /\ UNCHANGED <<orders, package, phone, offs, asked>>

\* Offline, what he presses goes to the queue, and the phone shows it as done.
QueuePickup(c, o) ==
  /\ ~online[c] /\ view[c][o] = "ready" /\ place[o] = "kitchen"
  /\ "grab" \in Slips \/ (status[o] = "ready" /\ ~Asks(o, "pickup"))
  /\ place' = [place EXCEPT ![o] = c] /\ carrier' = [carrier EXCEPT ![o] = c]
  /\ queue' = [queue EXCEPT ![c] = Append(@, [op |-> "pickup", order |-> o])]
  /\ view' = [view EXCEPT ![c][o] = "shipped"]
  /\ UNCHANGED <<orders, taken, online, replay, req, offs, asked>>

QueueDeliver(c, o) ==
  /\ ~online[c] /\ view[c][o] = "shipped" /\ place[o] = c
  /\ place' = [place EXCEPT ![o] = "customer"]
  /\ queue' = [queue EXCEPT ![c] = Append(@, [op |-> "deliver", order |-> o])]
  /\ view' = [view EXCEPT ![c][o] = "none"]
  /\ UNCHANGED <<orders, carrier, taken, online, replay, req, offs, asked>>

Network(c) ==
  /\ online[c] => offs < MaxOff
  /\ offs' = IF online[c] THEN offs + 1 ELSE offs
  /\ online' = [online EXCEPT ![c] = ~@]
  /\ UNCHANGED <<orders, package, view, queue, replay, req, asked>>

\* Back online, syncQueue sends what it read from the queue, one after the
\* other, and once; the queue is removed when it is through.
StartReplay(c) ==
  /\ online[c] /\ queue[c] # <<>> /\ replay[c] = <<>> /\ ~Busy(c)
  /\ replay' = [replay EXCEPT ![c] = queue[c]]
  /\ UNCHANGED <<orders, package, view, online, queue, req, offs, asked>>

\* The item is off the list once it has been answered, whatever the answer.
Through(c) ==
  /\ replay' = [replay EXCEPT ![c] = Tail(@)]
  /\ queue' = IF Tail(replay[c]) = <<>> THEN [queue EXCEPT ![c] = <<>>] ELSE queue

ReplaySend(c) ==
  /\ online[c] /\ replay[c] # <<>>
  /\ Sends(c, Head(replay[c]).op, Head(replay[c]).order)
  /\ UNCHANGED <<orders, package, phone, offs, asked>>

\* No network: fetch throws, and the loop goes on.
ReplayFails(c) ==
  /\ ~online[c] /\ replay[c] # <<>> /\ ~Busy(c)
  /\ Through(c)
  /\ UNCHANGED <<orders, package, view, online, req, offs, asked>>

-----------------------------------------------------------------------------
(* Requests at the API *)

\* The request is over; an item of a replay is off its list.
Answered(a) ==
  /\ req' = [req EXCEPT ![a] = Idle]
  /\ IF a \in Courier /\ replay[a] # <<>> THEN Through(a) ELSE UNCHANGED <<queue, replay>>
  /\ UNCHANGED <<view, online, offs, asked>>

\* Mutant of Allowed: a courier may report whatever is not reported yet.
AllowedLate(op, s) ==
  CASE op = "pickup" -> s = "ready"
    [] op = "deliver" -> s # "completed"
    [] op = "cancel" -> TRUE

\* validateDeliveryTransition, and pickup's own check.
Allowed(op, s) ==
  CASE op = "pickup" -> s = "ready"
    [] op = "deliver" -> s = "shipped"
    [] op = "cancel" -> TRUE

Read(a) ==
  /\ req[a].pc = 1 /\ req[a].op \in Alters
  /\ IF Allowed(req[a].op, status[req[a].order])
       THEN req' = [req EXCEPT ![a].pc = 2] /\ UNCHANGED <<phone, offs, asked>>
       ELSE Answered(a)
  /\ UNCHANGED <<orders, package>>

\* Mutant of Alone: the columns are there, and ALTER TABLE is gone.
AloneAlways(a) == TRUE

\* ALTER TABLE orders waits until nobody else holds a lock.
Alone(a) == \A b \in Actor \ {a} : req[b].pc # 2

Reading(a) == req[a].pc = 2 /\ req[a].op \in Alters

\* Mutant of Pickup: an assigned courier stays.
PickupAssigned(a) ==
  /\ Reading(a) /\ req[a].op = "pickup" /\ Alone(a)
  /\ LET o == req[a].order IN
       /\ status' = [status EXCEPT ![o] = "shipped"]
       /\ courier' = [courier EXCEPT ![o] = IF @ = Nobody THEN a ELSE @]
       /\ taken' = [taken EXCEPT ![o] = @ + 1]
       /\ IF place[o] = "kitchen"
            THEN place' = [place EXCEPT ![o] = a] /\ carrier' = [carrier EXCEPT ![o] = a]
            ELSE UNCHANGED <<place, carrier>>
  /\ Answered(a)
  /\ UNCHANGED <<settled, ticket, handed>>

\* pickupOrder sets the courier, whoever was assigned.
Pickup(a) ==
  /\ Reading(a) /\ req[a].op = "pickup" /\ Alone(a)
  /\ LET o == req[a].order IN
       /\ status' = [status EXCEPT ![o] = "shipped"]
       /\ courier' = [courier EXCEPT ![o] = a]
       /\ taken' = [taken EXCEPT ![o] = @ + 1]
       /\ IF place[o] = "kitchen"
            THEN place' = [place EXCEPT ![o] = a] /\ carrier' = [carrier EXCEPT ![o] = a]
            ELSE UNCHANGED <<place, carrier>>
  /\ Answered(a)
  /\ UNCHANGED <<settled, ticket, handed>>

\* Mutant of Deliver: the status is not normalised.
DeliverLabel(a) ==
  /\ Reading(a) /\ req[a].op = "deliver" /\ Alone(a)
  /\ status' = [status EXCEPT ![req[a].order] = "delivered"]
  /\ Answered(a)
  /\ UNCHANGED <<courier, settled, ticket, handed, package>>

\* updateOrderStatus to completed or cancelled does not look at the courier.
Deliver(a) ==
  /\ Reading(a) /\ req[a].op = "deliver" /\ Alone(a)
  /\ status' = [status EXCEPT ![req[a].order] = "completed"]
  /\ Answered(a)
  /\ UNCHANGED <<courier, settled, ticket, handed, package>>

Cancel(a) ==
  /\ Reading(a) /\ req[a].op = "cancel" /\ Alone(a)
  /\ status' = [status EXCEPT ![req[a].order] = "cancelled"]
  /\ ticket' = [ticket EXCEPT ![req[a].order] = IF @ = "completed" THEN @ ELSE "cancelled"]
  /\ Answered(a)
  /\ UNCHANGED <<courier, settled, handed, package>>

Deadlocked(a) ==
  /\ Reading(a) /\ \E b \in Actor \ {a} : Reading(b)
  /\ Answered(a)
  /\ UNCHANGED <<orders, package>>

-----------------------------------------------------------------------------
(* The couriers' cash *)

Owes(c) == {o \in Order : courier[o] = c /\ status[o] = "completed" /\ ~settled[o]}

\* settleStaffCash sums first ...
Sum(d, c) ==
  /\ ~Busy(d) /\ Owes(c) # {}
  /\ asked < MaxAsked /\ asked' = asked + 1
  /\ req' = [req EXCEPT ![d] = [Idle EXCEPT !.who = c, !.sum = Owes(c), !.pc = 2]]
  /\ UNCHANGED <<orders, package, phone, offs>>

\* ... and marks by a second statement, then writes the sum down.
Settle(d) ==
  /\ req[d].op = "settle" /\ req[d].pc = 2
  /\ settled' = [o \in Order |-> settled[o] \/ o \in Owes(req[d].who)]
  /\ handed' = [o \in Order |-> IF o \in req[d].sum THEN handed[o] + 1 ELSE handed[o]]
  /\ Answered(d)
  /\ UNCHANGED <<status, courier, ticket, package>>

\* reconcileCourierCash, of an older screen, marks by one statement and writes
\* nothing down: the cash changes hands all the same.
Reconcile(d, c) ==
  /\ ~Busy(d) /\ Owes(c) # {}
  /\ asked < MaxAsked /\ asked' = asked + 1
  /\ settled' = [o \in Order |-> settled[o] \/ o \in Owes(c)]
  /\ handed' = [o \in Order |-> IF o \in Owes(c) THEN handed[o] + 1 ELSE handed[o]]
  /\ UNCHANGED <<status, courier, ticket, package, phone, req, offs>>

Api(a) == Read(a) \/ Pickup(a) \/ Deliver(a) \/ Cancel(a) \/ Deadlocked(a) \/ Settle(a)

Next ==
  \/ \E o \in Order :
       \/ \E t \in {"preparing", "ready", "completed"} : Kitchen(o, t)
       \/ \E c \in Courier :
            \/ Assign(o, c) \/ PressPickup(c, o) \/ PressDeliver(c, o) \/ PressCancel(c, o)
            \/ QueuePickup(c, o) \/ QueueDeliver(c, o)
       \/ \E d \in Desk, op \in {"cancel", "deliver"} : DeskAsks(d, o, op)
  \/ \E c \in Courier :
       \/ Refresh(c) \/ Network(c) \/ StartReplay(c) \/ ReplaySend(c) \/ ReplayFails(c)
       \/ \E d \in Desk : Sum(d, c) \/ Reconcile(d, c)
  \/ \E a \in Actor : Api(a)

\* A courier finds a network again and presses what his phone shows; requests
\* and the phone's own loops go on.
Fairness ==
  /\ \A a \in Actor : WF_vars(Api(a))
  /\ \A c \in Courier :
       /\ WF_vars(~online[c] /\ Network(c))
       /\ WF_vars(StartReplay(c)) /\ WF_vars(ReplaySend(c) \/ ReplayFails(c))
       /\ WF_vars(Refresh(c))
       /\ \A o \in Order : SF_vars(PressDeliver(c, o))

Spec == Init /\ [][Next]_vars
FairSpec == Spec /\ Fairness

-----------------------------------------------------------------------------
(* Properties *)

\* However many couriers press for a package at once, online or from their
\* queues, one of them gets it: pickupOrder looks at the status once, and
\* nothing but the table lock keeps two of them apart.
TakenOnce == \A o \in Order : taken[o] <= 1

\* The courier an order is booked on, who owes its cash, is the one who took
\* the package.
CashOwner ==
  \A o \in Order : status[o] \in {"shipped", "completed"} => courier[o] = carrier[o]

\* An order that is over stays so: cancelled, or completed until somebody
\* cancels it after all.
FinalIsFinal ==
  [][\A o \in Order :
       /\ status[o] = "cancelled" => status'[o] = "cancelled"
       /\ status[o] = "completed" => status'[o] \in {"completed", "cancelled"}]_vars

\* The cash of an order is settled if and only if it was taken from a courier,
\* and once, although settleStaffCash sums and marks by two statements.
HandedOver == \A o \in Order : handed[o] = IF settled[o] THEN 1 ELSE 0

\* An order does not stay on the road for ever, whatever the phone shows and
\* whatever its queue loses.
RoadEnds == \A o \in Order : status[o] = "shipped" ~> status[o] # "shipped"
=============================================================================
