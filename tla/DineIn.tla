-------------------------------- MODULE DineIn --------------------------------
(***************************************************************************)
(* The tables of one restaurant: the session open at a table, its orders   *)
(* and what is paid for them, changed by API requests that overlap.        *)
(*                                                                         *)
(*   db.cur[t]   tables.current_session_id; tables.status is 'occupied'    *)
(*               exactly when it is set                                    *)
(*   db.sess[s]  a row of table_sessions                                   *)
(*   db.ord[o]   a row of orders; the statuses pending .. served are "open" *)
(*   db.paid[o]  SUM(amount) over the rows of payments for order o         *)
(*   req[w]      the request API worker w handles                          *)
(*   view[w]     the rows as the request read them                         *)
(*                                                                         *)
(* A request is one transaction at READ COMMITTED: its SELECTs see the     *)
(* rows as they were when it began, the WHERE of its UPDATEs sees the rows *)
(* as they are when it commits.  Each handler is an operator on the rows   *)
(* read (v) and the rows now (d).  An order's items are its total: one     *)
(* unit of money is one item.                                              *)
(***************************************************************************)
EXTENDS Naturals, FiniteSets, Functions

CONSTANTS Table,
          Session,    \* ids a new table_sessions row can get (a bound)
          Order,      \* offlineIds of the orders the tills take
          Extra,      \* ids of order rows the API makes itself (a bound)
          Price,      \* [Order -> Nat]: what an order costs when placed
          MaxAmount,  \* the largest amount of one payment (a bound)
          MaxPaid,    \* nothing is charged past this sum (a bound)
          Worker,     \* requests in progress at once
          Calls,      \* the calls the tills make
          Stale,      \* tills use sessions their tables once had
          Careful,    \* a bill is finished the way its payment was begun
          NoSession, NoTable, NoRequest

Row == Order \cup Extra
Call == {"create", "checkout", "checkoutSession", "sessionPayment", "payment",
         "split", "open", "cancelTable", "transferTable", "mergeTables",
         "transferItem", "serve", "cancel", "kitchen", "kitchenCancel"}

ASSUME PriceAssumption == Price \in [Order -> Nat \ {0}]
ASSUME BoundAssumption == MaxAmount \in Nat /\ MaxPaid \in Nat
ASSUME CallsAssumption == Calls \subseteq Call /\ {Stale, Careful} \subseteq BOOLEAN
ASSUME RowAssumption == IsFiniteSet(Order) /\ IsFiniteSet(Extra)
ASSUME NoneAssumption == /\ NoSession \notin Session
                         /\ NoTable \notin Table
                         /\ Order \cap Extra = {}

VARIABLES db, req, view

vars == <<db, req, view>>

SessionRow == [st : {"none", "active", "paid", "cancelled"},
               table : Table \cup {NoTable}]
OrderRow == [st    : {"none", "open", "completed", "cancelled"},
             pay   : {"unpaid", "partial", "paid"},
             sess  : Session \cup {NoSession},
             total : Nat,
             bulk  : BOOLEAN]   \* a payments row carries its offline_id

DB == [cur  : [Table -> Session \cup {NoSession}],
       sess : [Session -> SessionRow],
       ord  : [Row -> OrderRow],
       paid : [Row -> Nat]]

NoOrder == [st |-> "none", pay |-> "unpaid", sess |-> NoSession, total |-> 0,
            bulk |-> FALSE]

Empty == [cur  |-> [t \in Table |-> NoSession],
          sess |-> [s \in Session |-> [st |-> "none", table |-> NoTable]],
          ord  |-> [o \in Row |-> NoOrder],
          paid |-> [o \in Row |-> 0]]

Amount == 1..MaxAmount

Request ==
       [call : {"create", "checkout"}, o : Order, t : Table,
        s : Session \cup {NoSession}]
  \cup [call : {"checkoutSession"}, s : Session]
  \cup [call : {"sessionPayment"}, s : Session, n : Amount]
  \cup [call : {"payment"}, o : Row, n : Amount]
  \cup [call : {"split"}, s : Session, o : Row, n : Amount]
  \cup [call : {"transferItem"}, o : Row, n : Amount, u : Table]
  \cup [call : {"open", "cancelTable"}, t : Table]
  \cup [call : {"transferTable", "mergeTables"}, t : Table, u : Table]
  \cup [call : {"serve", "cancel", "kitchen", "kitchenCancel"}, o : Row]

TypeOK ==
  /\ db \in DB
  /\ req \in [Worker -> Request \cup {NoRequest}]
  /\ view \in [Worker -> DB]

Init ==
  /\ db = Empty
  /\ req = [w \in Worker |-> NoRequest]
  /\ view = [w \in Worker |-> Empty]

-----------------------------------------------------------------------------
(* Queries and updates the handlers share *)

Live(d, s) == {o \in Row : d.ord[o].sess = s /\ d.ord[o].st \in {"open", "completed"}}
OpenOf(d, s) == {o \in Live(d, s) : d.ord[o].st = "open"}
UnpaidOf(d, s) == {o \in Live(d, s) : d.ord[o].pay # "paid"}

\* Mutant of Rest: earlier payments do not count.
RestIgnoresPaid(d, o) == d.ord[o].total

\* What is left to pay of an order.
Rest(d, o) == IF d.paid[o] < d.ord[o].total
              THEN d.ord[o].total - d.paid[o] ELSE 0

Totals(d, S) == SumFunctionOnSet([o \in Row |-> d.ord[o].total], S)

\* The table's session, if it is active.
HasSession(d, t) == d.cur[t] # NoSession /\ d.sess[d.cur[t]].st = "active"

\* UPDATE table_sessions; UPDATE tables ... WHERE current_session_id = s.
Close(d, s, st) ==
  [d EXCEPT !.sess[s].st = st,
            !.cur = [t \in Table |-> IF d.cur[t] = s THEN NoSession ELSE d.cur[t]]]

OpenSession(d, t, n) ==
  [d EXCEPT !.sess[n] = [st |-> "active", table |-> t], !.cur[t] = n]

\* closeTableSessionIfNoActiveOrders, whatever the session's status.
AutoClose(d, s) == IF OpenOf(d, s) = {} THEN Close(d, s, "cancelled") ELSE d

\* Mutant of SetRow: a status the order model does not know.
SetRowServed(d, o, st) ==
  [d EXCEPT !.ord[o].st = IF st = "completed" THEN "served" ELSE st]

SetRow(d, o, st) == [d EXCEPT !.ord[o].st = st]

-----------------------------------------------------------------------------
(* The handlers: the rows after the commit *)

\* The order is new, and neither the till nor its table has a session for it.
Opens(v, r) == /\ v.ord[r.o].st = "none"
               /\ r.s = NoSession
               /\ ~HasSession(v, r.t)

\* createOrderCore; n is the id a new session gets.  The session a till names
\* is taken as it is.
Place(v, d, r, n) ==
  LET found == IF Opens(v, r) THEN n ELSE IF r.s # NoSession THEN r.s ELSE v.cur[r.t]
      opened == IF Opens(v, r) THEN OpenSession(d, r.t, n) ELSE d
  IN  IF v.ord[r.o].st # "none" THEN d
      ELSE [opened EXCEPT !.ord[r.o] = [NoOrder EXCEPT !.st = "open", !.sess = found,
                                                       !.total = Price[r.o]]]

\* Mutant of PayAtOnce: the other orders are closed but not charged.
PayAtOnceAlone(v, d, r) ==
  LET s == d.ord[r.o].sess
      done == [d EXCEPT !.ord = [o \in Row |->
                 IF o \in OpenOf(d, s) \ {r.o}
                 THEN [d.ord[o] EXCEPT !.st = "completed"] ELSE d.ord[o]]]
  IN  IF d.ord[r.o].bulk THEN done
      ELSE [done EXCEPT !.paid[r.o] = @ + d.ord[r.o].total,
                        !.ord[r.o].bulk = TRUE,
                        !.sess[s].st = "paid",
                        !.cur[r.t] = NoSession]

\* runTenantCheckout: the order and every other open order of its session is
\* paid with one payment, unless that payment exists; d is after Place.
PayAtOnce(v, d, r) ==
  LET s == d.ord[r.o].sess
      others == OpenOf(v, s) \ {r.o}
      done == [d EXCEPT !.ord = [o \in Row |->
                 IF o \in OpenOf(d, s) \ {r.o}
                 THEN [d.ord[o] EXCEPT !.st = "completed"] ELSE d.ord[o]]]
  IN  IF d.ord[r.o].bulk THEN done
      ELSE [done EXCEPT !.paid[r.o] = @ + d.ord[r.o].total + Totals(v, others),
                        !.ord[r.o].bulk = TRUE,
                        !.sess[s].st = "paid",
                        !.cur[r.t] = NoSession]

Settle(d, s) ==
  [d EXCEPT !.ord = [o \in Row |->
     IF o \in Live(d, s) THEN [d.ord[o] EXCEPT !.st = "open", !.pay = "paid"]
                         ELSE d.ord[o]]]

\* checkoutSessionHandler: a payment of the full total for every order that was
\* not paid, then every live order is served and paid.
PayAll(v, d, s) ==
  LET due == UnpaidOf(v, s)
      charged == [d EXCEPT !.paid = [o \in Row |->
                    IF o \in due THEN d.paid[o] + v.ord[o].total ELSE d.paid[o]]]
  IN  Close(IF due = {} THEN d ELSE Settle(charged, s), s, "paid")

\* How an amount is dealt out: in some order, each order its rest until nothing
\* is left.
Shares(v, s, n) ==
  LET due == UnpaidOf(v, s)
  IN  {p \in [due -> 0..n] :
        /\ \A o \in due : p[o] <= Rest(v, o)
        /\ Cardinality({o \in due : p[o] \notin {0, Rest(v, o)}}) <= 1
        /\ SumFunction(p) = n \/ \A o \in due : p[o] = Rest(v, o)}

\* Mutant of PayShares: a partial payment counts as a full one.
PaySharesAsFull(v, d, s, p) ==
  LET got == {o \in DOMAIN p : p[o] > 0}
      paid == [d EXCEPT
        !.paid = [o \in Row |-> IF o \in got THEN d.paid[o] + p[o] ELSE d.paid[o]],
        !.ord = [o \in Row |-> IF o \in got
          THEN [d.ord[o] EXCEPT !.pay = "paid"]
          ELSE d.ord[o]]]
  IN  IF UnpaidOf(paid, s) = {} THEN Close(paid, s, "paid") ELSE paid

\* createSessionPaymentHandler: payment_status follows from what was read.
PayShares(v, d, s, p) ==
  LET got == {o \in DOMAIN p : p[o] > 0}
      paid == [d EXCEPT
        !.paid = [o \in Row |-> IF o \in got THEN d.paid[o] + p[o] ELSE d.paid[o]],
        !.ord = [o \in Row |-> IF o \in got
          THEN [d.ord[o] EXCEPT !.pay = IF p[o] = Rest(v, o) THEN "paid" ELSE "partial"]
          ELSE d.ord[o]]]
  IN  IF UnpaidOf(paid, s) = {} THEN Close(paid, s, "paid") ELSE paid

\* createPaymentHandler: payment_status follows from the sum after the INSERT.
PayOne(d, o, n) ==
  [d EXCEPT !.paid[o] = @ + n,
            !.ord[o].pay = IF d.paid[o] + n >= d.ord[o].total THEN "paid"
                           ELSE "partial"]

\* Mutant of SplitOff: the order keeps the items that were split off.
SplitOffKeeps(d, s, o, n, x) ==
  LET split == [d EXCEPT !.ord[x] = [NoOrder EXCEPT !.st = "completed", !.pay = "paid",
                                                    !.sess = s, !.total = n]]
  IN  IF OpenOf(split, s) = {} THEN Close(split, s, "paid") ELSE split

\* splitCheckoutHandler: the items go to a new order x, born completed and paid;
\* no row of payments is written.
SplitOff(d, s, o, n, x) ==
  LET split == [d EXCEPT !.ord[o].total = @ - n,
                         !.ord[x] = [NoOrder EXCEPT !.st = "completed", !.pay = "paid",
                                                    !.sess = s, !.total = n]]
  IN  IF OpenOf(split, s) = {} THEN Close(split, s, "paid") ELSE split

\* transferItemHandler: items go from order o to order x of session s, which is
\* an open one or a new one.
MoveItems(d, s, o, n, x) ==
  LET into == IF d.ord[x].st = "none"
              THEN [d EXCEPT !.ord[x] = [NoOrder EXCEPT !.st = "open", !.sess = s]]
              ELSE d
      out == [into EXCEPT !.ord[o].total = @ - n]
  IN  [out EXCEPT !.ord[x].total = @ + n]

MoveTable(v, d, t, u) ==
  LET s == v.cur[t]
  IN  [d EXCEPT !.cur = [x \in Table |-> IF x = u THEN s
                                         ELSE IF x = t THEN NoSession ELSE d.cur[x]],
                !.sess[s].table = u]

\* Mutant of Merge: the session merged away stays active.
MergeLeavesOpen(v, d, t, u) ==
  [d EXCEPT !.ord = [o \in Row |-> IF d.ord[o].sess = v.cur[t]
                       THEN [d.ord[o] EXCEPT !.sess = v.cur[u]] ELSE d.ord[o]],
            !.cur[t] = NoSession]

Merge(v, d, t, u) ==
  [d EXCEPT !.ord = [o \in Row |-> IF d.ord[o].sess = v.cur[t]
                       THEN [d.ord[o] EXCEPT !.sess = v.cur[u]] ELSE d.ord[o]],
            !.sess[v.cur[t]].st = "paid",
            !.cur[t] = NoSession]

\* Mutant of CancelAll: the table keeps its session.
CancelAllKeepsTable(v, d, t) ==
  LET s == v.cur[t]
  IN  IF s = NoSession THEN d
      ELSE [d EXCEPT !.sess[s].st = "cancelled",
                     !.ord = [o \in Row |-> IF d.ord[o].sess = s
                                THEN [d.ord[o] EXCEPT !.st = "cancelled"]
                                ELSE d.ord[o]]]

\* cancelTableSessionHandler: every order of the session, paid ones included.
CancelAll(v, d, t) ==
  LET s == v.cur[t]
      freed == [d EXCEPT !.cur[t] = NoSession]
  IN  IF s = NoSession THEN freed
      ELSE [freed EXCEPT !.sess[s].st = "cancelled",
                         !.ord = [o \in Row |-> IF d.ord[o].sess = s
                                    THEN [d.ord[o] EXCEPT !.st = "cancelled"]
                                    ELSE d.ord[o]]]

\* Cancelling one order, from the till or from its kitchen ticket.
CancelOne(v, d, o) == AutoClose(SetRow(d, o, "cancelled"), v.ord[o].sess)

-----------------------------------------------------------------------------
(* Requests *)

Handles(w, call) == req[w] # NoRequest /\ req[w].call = call

\* Orders being submitted: a till does not send an order twice at once.
Submitted ==
  {req[w].o : w \in {x \in Worker : Handles(x, "create") \/ Handles(x, "checkout")}}

\* A till shows table t with session s.
Shows(t, s) == IF Stale THEN db.sess[s].st # "none" /\ db.sess[s].table = t
                        ELSE db.cur[t] = s
ShowsSession(s) == \E t \in Table : Shows(t, s)

\* What a till can ask for, by what it shows.  Whatever has become of an order,
\* some till may still show it and the kitchen's screen its ticket: the kitchen
\* is not told of a cancellation, and no handler looks at the order's status.
Known(r) ==
  CASE r.call \in {"create", "checkout"} ->
         /\ r.s # NoSession => Shows(r.t, r.s)
         /\ r.call = "checkout" /\ db.ord[r.o].st # "none" => db.ord[r.o].bulk
         /\ r.o \notin Submitted
    [] r.call \in {"checkoutSession", "sessionPayment"} -> ShowsSession(r.s)
    [] r.call = "split" -> ShowsSession(r.s) /\ r.o \in UnpaidOf(db, r.s)
    [] r.call = "transferItem" ->
         \E s \in Session : ShowsSession(s) /\ r.o \in UnpaidOf(db, s)
    [] r.call \in {"open", "cancelTable"} -> TRUE
    [] r.call \in {"transferTable", "mergeTables"} -> r.t # r.u
    [] r.call \in {"payment", "serve", "cancel"} -> db.ord[r.o].st # "none"
    [] r.call \in {"kitchen", "kitchenCancel"} -> r.o \in Order /\ db.ord[r.o].st # "none"

\* Something on the bill of session s has been paid.
Begun(s) == \E o \in Live(db, s) : db.paid[o] > 0

\* What staff must not ask for once a bill is paid in part: it is then closed by
\* payments in part, and its items stay.  A checkout needs a bill without orders
\* that are served and unpaid.  No handler enforces this.
OneWay(r) ==
  CASE r.call = "checkout" ->
         \A s \in Session : Shows(r.t, s) => ~Begun(s) /\ UnpaidOf(db, s) \subseteq OpenOf(db, s)
    [] r.call = "checkoutSession" -> ~Begun(r.s)
    [] r.call = "transferItem" ->
         \A s \in {db.ord[r.o].sess, db.cur[r.u]} \ {NoSession} : ~Begun(s)
    [] OTHER -> TRUE

Charges == {"checkout", "checkoutSession", "sessionPayment", "payment"}

Begin(w) ==
  /\ req[w] = NoRequest
  /\ \E r \in Request :
       /\ r.call \in Calls
       /\ Known(r)
       /\ Careful => OneWay(r)
       /\ r.call \in Charges => \A o \in Row : db.paid[o] <= MaxPaid
       /\ req' = [req EXCEPT ![w] = r]
  /\ view' = [view EXCEPT ![w] = db]
  /\ UNCHANGED db

Commit(w, d) ==
  /\ db' = d
  /\ req' = [req EXCEPT ![w] = NoRequest]
  /\ view' = [view EXCEPT ![w] = Empty]

\* ALTER TABLE inside the transaction waits for every other one to end.
Alone(w) == \A x \in Worker \ {w} : req[x] = NoRequest

NewSession(n) == db.sess[n].st = "none"
NewRow(x) == x \in Extra /\ db.ord[x].st = "none"

CreateOrder(w) ==
  /\ Handles(w, "create")
  /\ \E n \in Session :
       /\ Opens(view[w], req[w]) => NewSession(n)
       /\ Commit(w, Place(view[w], db, req[w], n))

Checkout(w) ==
  /\ Handles(w, "checkout")
  /\ \E n \in Session :
       /\ Opens(view[w], req[w]) => NewSession(n)
       /\ Commit(w, PayAtOnce(view[w], Place(view[w], db, req[w], n), req[w]))

CheckoutSession(w) ==
  /\ Handles(w, "checkoutSession")
  /\ \/ UnpaidOf(view[w], req[w].s) # {}
     \/ view[w].sess[req[w].s].st = "active"
  /\ Commit(w, PayAll(view[w], db, req[w].s))

SessionPayment(w) ==
  /\ Handles(w, "sessionPayment")
  /\ UnpaidOf(view[w], req[w].s) # {}
  /\ \E p \in Shares(view[w], req[w].s, req[w].n) :
       Commit(w, PayShares(view[w], db, req[w].s, p))

Payment(w) ==
  /\ Handles(w, "payment")
  /\ Commit(w, PayOne(db, req[w].o, req[w].n))

\* Splitting off a whole order fails: its payment_status 'cancelled' is not in
\* the enum.  Two requests that change the items of one order at once are left out.
Split(w) ==
  /\ Handles(w, "split")
  /\ view[w].ord[req[w].o].sess = req[w].s
  /\ req[w].n < view[w].ord[req[w].o].total
  /\ db.ord[req[w].o].total = view[w].ord[req[w].o].total
  /\ \E x \in Extra : NewRow(x) /\ Commit(w, SplitOff(db, req[w].s, req[w].o, req[w].n, x))

TransferItem(w) ==
  /\ Handles(w, "transferItem")
  /\ view[w].cur[req[w].u] # NoSession
  /\ req[w].n < view[w].ord[req[w].o].total
  /\ db.ord[req[w].o].total = view[w].ord[req[w].o].total
  /\ LET s == view[w].cur[req[w].u]
     IN  \E x \in Row :
           /\ IF OpenOf(view[w], s) = {} THEN NewRow(x) ELSE x \in OpenOf(view[w], s)
           /\ Commit(w, MoveItems(db, s, req[w].o, req[w].n, x))

OpenTable(w) ==
  /\ Handles(w, "open")
  /\ Alone(w)
  /\ IF HasSession(db, req[w].t) THEN Commit(w, db)
     ELSE \E n \in Session : NewSession(n) /\ Commit(w, OpenSession(db, req[w].t, n))

TransferTable(w) ==
  /\ Handles(w, "transferTable")
  /\ view[w].cur[req[w].t] # NoSession
  /\ view[w].cur[req[w].u] = NoSession
  /\ Commit(w, MoveTable(view[w], db, req[w].t, req[w].u))

MergeTables(w) ==
  /\ Handles(w, "mergeTables")
  /\ view[w].cur[req[w].t] # NoSession
  /\ view[w].cur[req[w].u] # NoSession
  /\ Commit(w, Merge(view[w], db, req[w].t, req[w].u))

CancelTable(w) ==
  /\ Handles(w, "cancelTable")
  /\ Commit(w, CancelAll(view[w], db, req[w].t))

\* updateOrderStatusHandler: completed by the waiter who serves it, or cancelled.
ServeOrder(w) ==
  /\ Handles(w, "serve")
  /\ Alone(w)
  /\ Commit(w, SetRow(db, req[w].o, "completed"))

CancelOrder(w) ==
  /\ Handles(w, "cancel")
  /\ Alone(w)
  /\ Commit(w, CancelOne(view[w], db, req[w].o))

\* updateTicketStatusHandler: the order follows its ticket, whatever its status.
KitchenTicket(w) ==
  /\ Handles(w, "kitchen")
  /\ Commit(w, SetRow(db, req[w].o, "open"))

KitchenCancel(w) ==
  /\ Handles(w, "kitchenCancel")
  /\ Commit(w, CancelOne(view[w], db, req[w].o))

\* ROLLBACK: a check fails, a deadlock victim, the process dies.
Abort(w) ==
  /\ req[w] # NoRequest
  /\ Commit(w, db)

Handler(w) ==
  \/ CreateOrder(w) \/ Checkout(w) \/ CheckoutSession(w) \/ SessionPayment(w)
  \/ Payment(w) \/ Split(w) \/ TransferItem(w) \/ OpenTable(w) \/ TransferTable(w)
  \/ MergeTables(w) \/ CancelTable(w) \/ ServeOrder(w) \/ CancelOrder(w)
  \/ KitchenTicket(w) \/ KitchenCancel(w)

Next == \E w \in Worker : Begin(w) \/ Handler(w) \/ Abort(w)

Spec == Init /\ [][Next]_vars

-----------------------------------------------------------------------------
(* Properties *)

PointsToOpen(d) ==
  \A t \in Table : d.cur[t] # NoSession =>
    d.sess[d.cur[t]] = [st |-> "active", table |-> t]

Reachable(d) ==
  \A s \in Session : d.sess[s].st = "active" =>
    d.sess[s].table \in Table /\ d.cur[d.sess[s].table] = s

\* The session a table points to is an active session of that table, and so of
\* no other table.
TableSession == PointsToOpen(db)

\* An active session is reachable from its table: its bill can be found.
ActiveHasTable == Reachable(db)

\* Tables and active sessions point to each other, sessions that were moved to
\* another table or merged into another session included.
TablesLinked == TableSession /\ ActiveHasTable

\* Splitting a bill and moving items neither create nor lose money: the rows
\* add up to what was ordered.
BillConserved ==
  Totals(db, Row) =
    SumFunctionOnSet(Price, {o \in Order : db.ord[o].st # "none"})

Bill(s) == {o \in Row : db.ord[o].sess = s}
Charged(s) == SumFunctionOnSet(db.paid, Bill(s))

\* Session s ended as paid, and was charged less than its orders cost.
Owing(d, s) ==
  /\ d.sess[s].st = "paid"
  /\ SumFunctionOnSet(d.paid, {o \in Row : d.ord[o].sess = s}) < Totals(d, Live(d, s))

\* An order of session s that was cancelled is in work or served again.
Revived(s) == \E o \in Bill(s) : db.ord[o].st = "cancelled" /\ db'.ord[o].st # "cancelled"

\* Nothing comes to be owed in a paid session but by reviving an order.
NoNewDebt ==
  \A s \in Session :
    Owing(db', s) => Owing(db, s) \/ (db.sess[s].st = "paid" /\ Revived(s))

\* A session that ends as paid has been paid: what was charged for its orders
\* covers those that were not cancelled.  Afterwards it owes nothing either,
\* unless somebody presses on for an order of it that was cancelled.
PaidInFull == [][NoNewDebt]_vars

\* An order counts as paid only when payments cover it.
PaidIsCovered ==
  \A o \in Row : db.ord[o].pay = "paid" => db.paid[o] >= db.ord[o].total

\* The orders of a session are never charged more than they cost.
ChargedOnce ==
  \A s \in Session : Charged(s) <= Totals(db, Bill(s))
=============================================================================
