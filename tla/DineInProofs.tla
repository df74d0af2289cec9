----------------------------- MODULE DineInProofs -----------------------------
(***************************************************************************)
(* Proofs about DineIn, for any tables, sessions, orders and bounds:       *)
(*   OverlapTableSession  requests overlap as they like, but no session is *)
(*                        moved to another table or merged away            *)
(*   SerialLinked         one request at a time, every call, tills that    *)
(*                        use the sessions their tables have               *)
(*   TypeCorrect          requests overlap, every call: rows keep their    *)
(*   OverlapBill          types, and add up to what was ordered            *)
(*   SerialBill           one request at a time, bills paid in one way:    *)
(*                        what is charged is what the orders cost          *)
(* The first two follow what a handler does to tables and table_sessions   *)
(* (Same, Opened, Closed), the others what it does to orders and payments. *)
(***************************************************************************)
EXTENDS DineIn, SumTheorems

\* The rows without the sums paid.
Shape(d) ==
  /\ DOMAIN d = {"cur", "sess", "ord", "paid"}
  /\ d.cur \in [Table -> Session \cup {NoSession}]
  /\ d.sess \in [Session -> SessionRow]
  /\ d.ord \in [Row -> OrderRow]

Same(d, e) == e.cur = d.cur /\ e.sess = d.sess

Opened(d, e, t, n) ==
  /\ e.cur = [d.cur EXCEPT ![t] = n]
  /\ e.sess = [d.sess EXCEPT ![n] = [st |-> "active", table |-> t]]

\* Session s ends; the tables that lose their session are those of freed.
Closed(d, e, s, freed) ==
  /\ \E st \in {"paid", "cancelled"} : e.sess = [d.sess EXCEPT ![s].st = st]
  /\ e.cur = [t \in Table |-> IF t \in freed THEN NoSession ELSE d.cur[t]]

Holding(d, s) == {t \in Table : d.cur[t] = s}

\* Rows of orders that exist keep existing, and keep their payment.
RowsKept(d, e) ==
  \A o \in Row : d.ord[o].st # "none" => e.ord[o].st # "none"
BulkKept(d, e, but) ==
  \A o \in Order \ but : d.ord[o].bulk => e.ord[o].bulk

-----------------------------------------------------------------------------
(* What the shared updates do *)

\* The updates of one row of orders.
LEMMA RowUpdates ==
  ASSUME NEW x \in OrderRow
  PROVE  /\ LET y == [x EXCEPT !.st = "completed"]
            IN  y \in OrderRow /\ y.bulk = x.bulk /\ y.st # "none"
         /\ LET y == [x EXCEPT !.st = "open", !.pay = "paid"]
            IN  y \in OrderRow /\ y.bulk = x.bulk /\ y.st # "none"
         /\ LET y == [x EXCEPT !.bulk = TRUE]
            IN  y \in OrderRow /\ y.bulk /\ y.st = x.st
         /\ \A pay \in {"paid", "partial"} :
              LET y == [x EXCEPT !.pay = pay]
              IN  y \in OrderRow /\ y.bulk = x.bulk /\ y.st = x.st
BY DEF OrderRow

\* Giving a table a new session.
LEMMA OpenSessionDoes ==
  ASSUME NEW d, Shape(d), NEW t \in Table, NEW n \in Session
  PROVE  /\ Shape(OpenSession(d, t, n))
         /\ Opened(d, OpenSession(d, t, n), t, n)
         /\ OpenSession(d, t, n).ord = d.ord
BY DEF Shape, OpenSession, Opened, SessionRow

\* Closing a session frees the tables that point to it.
LEMMA CloseDoes ==
  ASSUME NEW d, Shape(d), NEW s \in Session, NEW st \in {"paid", "cancelled"}
  PROVE  /\ Shape(Close(d, s, st))
         /\ Closed(d, Close(d, s, st), s, Holding(d, s))
         /\ Close(d, s, st).ord = d.ord
<1> DEFINE e == Close(d, s, st)
<1>1. /\ DOMAIN e = DOMAIN d
      /\ e.sess = [d.sess EXCEPT ![s].st = st]
      /\ e.cur = [t \in Table |-> IF d.cur[t] = s THEN NoSession ELSE d.cur[t]]
      /\ e.ord = d.ord
  BY DEF Shape, Close
<1>2. e.sess \in [Session -> SessionRow]
  BY <1>1 DEF Shape, SessionRow
<1>3. e.cur \in [Table -> Session \cup {NoSession}]
  BY <1>1 DEF Shape
<1>4. e.cur = [t \in Table |-> IF t \in Holding(d, s) THEN NoSession ELSE d.cur[t]]
  BY <1>1 DEF Holding
<1> QED
  BY <1>1, <1>2, <1>3, <1>4 DEF Shape, Closed

\* Changing the status of one order's row.
LEMMA SetRowDoes ==
  ASSUME NEW d, Shape(d), NEW o \in Row, NEW st \in {"open", "completed", "cancelled"}
  PROVE  /\ Shape(SetRow(d, o, st))
         /\ Same(d, SetRow(d, o, st))
         /\ RowsKept(d, SetRow(d, o, st))
         /\ BulkKept(d, SetRow(d, o, st), {})
<1> DEFINE e == SetRow(d, o, st)
<1>1. /\ DOMAIN e = DOMAIN d /\ e.cur = d.cur /\ e.sess = d.sess
      /\ e.ord = [d.ord EXCEPT ![o].st = st]
  BY DEF Shape, SetRow
<1>2. e.ord \in [Row -> OrderRow]
  BY <1>1 DEF Shape, OrderRow
<1>3. \A x \in Row : /\ e.ord[x].bulk = d.ord[x].bulk
                     /\ d.ord[x].st # "none" => e.ord[x].st # "none"
  BY <1>1 DEF Shape, OrderRow
<1> QED
  BY <1>1, <1>2, <1>3 DEF Shape, Same, RowsKept, BulkKept, Row

\* Closing the session of an order that was the last open one.
LEMMA AutoCloseDoes ==
  ASSUME NEW d, Shape(d), NEW s \in Session \cup {NoSession}
  PROVE  /\ Shape(AutoClose(d, s))
         /\ \/ Same(d, AutoClose(d, s))
            \/ s \in Session /\ Closed(d, AutoClose(d, s), s, Holding(d, s))
         /\ AutoClose(d, s).ord = d.ord
<1>1. CASE OpenOf(d, s) # {}
  BY <1>1 DEF AutoClose, Same
<1>2. CASE OpenOf(d, s) = {} /\ s \in Session
  BY <1>2, CloseDoes DEF AutoClose
<1>3. CASE OpenOf(d, s) = {} /\ s = NoSession
  <2> DEFINE e == Close(d, NoSession, "cancelled")
  <2>1. /\ DOMAIN e = DOMAIN d
        /\ e.sess = [d.sess EXCEPT ![NoSession].st = "cancelled"]
        /\ e.cur = [t \in Table |-> IF d.cur[t] = NoSession THEN NoSession ELSE d.cur[t]]
        /\ e.ord = d.ord
    BY DEF Shape, Close
  <2>2. e.sess = d.sess
    BY <2>1, NoneAssumption DEF Shape
  <2>3. e.cur = d.cur
    BY <2>1 DEF Shape
  <2> QED
    BY <1>3, <2>1, <2>2, <2>3 DEF AutoClose, Same, Shape
<1> QED
  BY <1>1, <1>2, <1>3

-----------------------------------------------------------------------------
(* What the handlers do *)

Placing == {"create", "checkout"}
PlaceRequest == [call : Placing, o : Order, t : Table, s : Session \cup {NoSession}]

\* The session a new order gets.
Found(v, r, n) ==
  IF Opens(v, r) THEN n ELSE IF r.s # NoSession THEN r.s ELSE v.cur[r.t]

\* createOrderCore returns an order that exists, and otherwise writes a row,
\* and opens a session when there is none.
LEMMA PlaceDoes ==
  ASSUME NEW v, Shape(v), NEW d, Shape(d), NEW n \in Session,
         NEW r \in PlaceRequest
  PROVE  LET e == Place(v, d, r, n)
         IN  /\ Shape(e)
             /\ v.ord[r.o].st # "none" => e = d
             /\ v.ord[r.o].st = "none" =>
                  /\ IF Opens(v, r) THEN Opened(d, e, r.t, n) ELSE Same(d, e)
                  /\ Found(v, r, n) \in Session
                  /\ e.ord[r.o].sess = Found(v, r, n)
                  /\ ~e.ord[r.o].bulk
             /\ RowsKept(d, e)
             /\ BulkKept(d, e, IF v.ord[r.o].st = "none" THEN {r.o} ELSE {})
<1> /\ r.o \in Order /\ r.t \in Table /\ r.s \in Session \cup {NoSession}
    /\ r.call \in Placing
  BY DEF PlaceRequest
<1> DEFINE e == Place(v, d, r, n)
           base == IF Opens(v, r) THEN OpenSession(d, r.t, n) ELSE d
           row == [NoOrder EXCEPT !.st = "open", !.sess = Found(v, r, n),
                                  !.total = Price[r.o]]
<1>1. CASE v.ord[r.o].st # "none"
  <2>1. e = d
    BY <1>1 DEF Place
  <2> QED
    BY <1>1, <2>1 DEF RowsKept, BulkKept
<1>2. CASE v.ord[r.o].st = "none"
  <2>1. /\ Shape(base) /\ base.ord = d.ord
        /\ IF Opens(v, r) THEN Opened(d, base, r.t, n) ELSE Same(d, base)
    BY OpenSessionDoes DEF Same
  <2>2. Found(v, r, n) \in Session
    BY <1>2 DEF Found, Opens, HasSession, Shape
  <2>3. r.o \in Row /\ Price[r.o] \in Nat
    BY PriceAssumption DEF Row
  <2>4. row \in OrderRow /\ row.st = "open" /\ ~row.bulk
        /\ row.sess = Found(v, r, n)
    BY <2>2, <2>3 DEF OrderRow, NoOrder
  <2> HIDE DEF base, row
  <2>5. e = [base EXCEPT !.ord[r.o] = row]
    BY <1>2 DEF Place, Found, base, row
  <2>6. /\ DOMAIN e = DOMAIN base /\ e.cur = base.cur /\ e.sess = base.sess
        /\ e.ord = [base.ord EXCEPT ![r.o] = row]
    BY <2>1, <2>5 DEF Shape
  <2> HIDE DEF e
  <2>7. e.ord \in [Row -> OrderRow] /\ e.ord[r.o] = row
    BY <2>1, <2>3, <2>4, <2>6 DEF Shape
  <2>8. \A o \in Row : o # r.o => e.ord[o] = d.ord[o]
    BY <2>1, <2>6 DEF Shape
  <2>9. Shape(e)
    BY <2>1, <2>6, <2>7 DEF Shape
  <2>10. IF Opens(v, r) THEN Opened(d, e, r.t, n) ELSE Same(d, e)
    BY <2>1, <2>6 DEF Opened, Same
  <2>11. RowsKept(d, e) /\ BulkKept(d, e, {r.o})
    BY <2>4, <2>7, <2>8 DEF RowsKept, BulkKept, Row
  <2> QED
    BY <1>2, <2>2, <2>4, <2>7, <2>9, <2>10, <2>11 DEF e
<1> QED
  BY <1>1, <1>2

\* A checkout ends the session of its order and frees the table of the request,
\* unless its payment exists.
LEMMA PayAtOnceDoes ==
  ASSUME NEW v, NEW d, Shape(d), NEW r, r.o \in Order, r.t \in Table,
         ~d.ord[r.o].bulk => d.ord[r.o].sess \in Session
  PROVE  LET e == PayAtOnce(v, d, r)
         IN  /\ Shape(e)
             /\ IF d.ord[r.o].bulk THEN Same(d, e)
                ELSE Closed(d, e, d.ord[r.o].sess, {r.t})
             /\ RowsKept(d, e)
             /\ BulkKept(d, e, {})
<1> DEFINE s == d.ord[r.o].sess
           others == OpenOf(d, s) \ {r.o}
           rows == [o \in Row |-> IF o \in others
                      THEN [d.ord[o] EXCEPT !.st = "completed"] ELSE d.ord[o]]
           done == [d EXCEPT !.ord = rows]
           e == PayAtOnce(v, d, r)
<1>0. r.o \in Row
  BY DEF Row
<1>1. /\ rows \in [Row -> OrderRow]
      /\ \A o \in Row : /\ rows[o].bulk = d.ord[o].bulk
                        /\ d.ord[o].st # "none" => rows[o].st # "none"
  <2> HIDE DEF others
  <2> QED
    BY DEF Shape, OrderRow
<1> HIDE DEF rows
<1>2. DOMAIN done = DOMAIN d /\ done.cur = d.cur /\ done.sess = d.sess /\ done.ord = rows
  BY DEF Shape
<1>3. CASE d.ord[r.o].bulk
  <2>1. e = done
    BY <1>3 DEF PayAtOnce, rows
  <2> HIDE DEF e, done
  <2> QED
    BY <1>1, <1>2, <1>3, <2>1 DEF Shape, Same, RowsKept, BulkKept, Row, e
<1>4. CASE ~d.ord[r.o].bulk
  <2> DEFINE due == d.ord[r.o].total + Totals(v, OpenOf(v, s) \ {r.o})
  <2>1. e = [done EXCEPT !.paid[r.o] = @ + d.ord[r.o].total + Totals(v, OpenOf(v, s) \ {r.o}),
                         !.ord[r.o].bulk = TRUE,
                         !.sess[s].st = "paid",
                         !.cur[r.t] = NoSession]
    BY <1>4 DEF PayAtOnce, rows
  <2>0. s \in Session
    BY <1>4
  <2> HIDE DEF done, s
  <2>2. /\ DOMAIN e = DOMAIN d
        /\ e.ord = [rows EXCEPT ![r.o].bulk = TRUE]
        /\ e.sess = [d.sess EXCEPT ![s].st = "paid"]
        /\ e.cur = [d.cur EXCEPT ![r.t] = NoSession]
    BY <1>2, <2>1 DEF Shape
  <2> HIDE DEF e
  <2>3. /\ e.ord \in [Row -> OrderRow]
        /\ \A o \in Row : /\ rows[o].bulk => e.ord[o].bulk
                          /\ e.ord[o].st = rows[o].st
    <3>1. /\ e.ord[r.o] = [rows[r.o] EXCEPT !.bulk = TRUE]
          /\ \A o \in Row : o # r.o => e.ord[o] = rows[o]
          /\ rows[r.o] \in OrderRow
      BY <1>0, <1>1, <2>2
    <3>2. LET y == [rows[r.o] EXCEPT !.bulk = TRUE]
          IN  y \in OrderRow /\ y.bulk /\ y.st = rows[r.o].st
      BY <3>1, RowUpdates
    <3>3. e.ord \in [Row -> OrderRow]
      BY <1>0, <1>1, <2>2, <3>2
    <3> QED
      BY <3>1, <3>2, <3>3
  <2>4. e.sess \in [Session -> SessionRow]
    BY <2>0, <2>2 DEF Shape, SessionRow
  <2>5. /\ e.cur \in [Table -> Session \cup {NoSession}]
        /\ e.cur = [t \in Table |-> IF t \in {r.t} THEN NoSession ELSE d.cur[t]]
    BY <2>2 DEF Shape
  <2>6. Shape(e) /\ Closed(d, e, s, {r.t})
    BY <2>2, <2>3, <2>4, <2>5 DEF Shape, Closed
  <2>7. RowsKept(d, e) /\ BulkKept(d, e, {})
    BY <1>1, <2>3 DEF RowsKept, BulkKept, Row
  <2> QED
    BY <1>4, <2>6, <2>7 DEF e, s
<1> QED
  BY <1>3, <1>4

\* checkoutSessionHandler closes its session.
LEMMA PayAllDoes ==
  ASSUME NEW v, NEW d, Shape(d), NEW s \in Session
  PROVE  LET e == PayAll(v, d, s)
         IN  /\ Shape(e)
             /\ Closed(d, e, s, Holding(d, s))
             /\ RowsKept(d, e)
             /\ BulkKept(d, e, {})
<1> DEFINE due == UnpaidOf(v, s)
           charged == [d EXCEPT !.paid = [o \in Row |->
                    IF o \in due THEN d.paid[o] + v.ord[o].total ELSE d.paid[o]]]
           base == IF due = {} THEN d ELSE Settle(charged, s)
           e == PayAll(v, d, s)
<1>1. /\ DOMAIN charged = DOMAIN d /\ charged.cur = d.cur
      /\ charged.sess = d.sess /\ charged.ord = d.ord
  BY DEF Shape
<1> HIDE DEF charged, due
<1>2. /\ DOMAIN base = DOMAIN d /\ base.cur = d.cur /\ base.sess = d.sess
      /\ base.ord \in [Row -> OrderRow]
      /\ \A o \in Row : /\ base.ord[o].bulk = d.ord[o].bulk
                        /\ d.ord[o].st # "none" => base.ord[o].st # "none"
  <2>1. CASE due = {}
    BY <2>1 DEF Shape
  <2>2. CASE due # {}
    <3> DEFINE live == Live(charged, s)
               rows == [o \in Row |-> IF o \in live
                          THEN [d.ord[o] EXCEPT !.st = "open", !.pay = "paid"]
                          ELSE d.ord[o]]
    <3>1. base = [charged EXCEPT !.ord = rows]
      BY <1>1, <2>2 DEF Settle
    <3> HIDE DEF live
    <3>2. /\ rows \in [Row -> OrderRow]
          /\ \A o \in Row : /\ rows[o].bulk = d.ord[o].bulk
                            /\ d.ord[o].st # "none" => rows[o].st # "none"
      BY RowUpdates DEF Shape
    <3> HIDE DEF rows, base
    <3> QED
      BY <1>1, <3>1, <3>2 DEF Shape
  <2> QED
    BY <2>1, <2>2
<1>3. e = Close(base, s, "paid")
  BY DEF PayAll, due, charged
<1> HIDE DEF base, e
<1>4. Shape(base)
  BY <1>2 DEF Shape
<1>5. Shape(e) /\ Closed(base, e, s, Holding(base, s)) /\ e.ord = base.ord
  BY <1>3, <1>4, CloseDoes
<1>6. Closed(d, e, s, Holding(d, s))
  BY <1>2, <1>5 DEF Closed, Holding
<1> QED
  BY <1>2, <1>5, <1>6 DEF RowsKept, BulkKept, Row, e

\* Closing the session once nothing of it is left to pay, or open.
LEMMA CloseIfDoes ==
  ASSUME NEW d, NEW b, Shape(b), Same(d, b), NEW s \in Session, NEW ends \in BOOLEAN,
         RowsKept(d, b), BulkKept(d, b, {})
  PROVE  LET e == IF ends THEN Close(b, s, "paid") ELSE b
         IN  /\ Shape(e)
             /\ Same(d, e) \/ Closed(d, e, s, Holding(d, s))
             /\ RowsKept(d, e)
             /\ BulkKept(d, e, {})
<1>1. CASE ~ends
  BY <1>1
<1>2. CASE ends
  <2> DEFINE e == Close(b, s, "paid")
  <2>1. Shape(e) /\ Closed(b, e, s, Holding(b, s)) /\ e.ord = b.ord
    BY CloseDoes
  <2> HIDE DEF e
  <2>2. Closed(d, e, s, Holding(d, s)) /\ RowsKept(d, e) /\ BulkKept(d, e, {})
    BY <2>1 DEF Same, Closed, Holding, RowsKept, BulkKept
  <2> QED
    BY <1>2, <2>1, <2>2 DEF e
<1> QED
  BY <1>1, <1>2

\* createSessionPaymentHandler closes its session at most.
LEMMA PaySharesDoes ==
  ASSUME NEW v, NEW d, Shape(d), NEW s \in Session, NEW p
  PROVE  LET e == PayShares(v, d, s, p)
         IN  /\ Shape(e)
             /\ Same(d, e) \/ Closed(d, e, s, Holding(d, s))
             /\ RowsKept(d, e)
             /\ BulkKept(d, e, {})
<1> DEFINE got == {o \in DOMAIN p : p[o] > 0}
           rows == [o \in Row |-> IF o \in got
             THEN [d.ord[o] EXCEPT !.pay = IF p[o] = Rest(v, o) THEN "paid" ELSE "partial"]
             ELSE d.ord[o]]
           paid == [d EXCEPT
             !.paid = [o \in Row |-> IF o \in got THEN d.paid[o] + p[o] ELSE d.paid[o]],
             !.ord = rows]
<1>1. /\ rows \in [Row -> OrderRow]
      /\ \A o \in Row : rows[o].bulk = d.ord[o].bulk /\ rows[o].st = d.ord[o].st
  <2> HIDE DEF got
  <2> QED
    BY DEF Shape, OrderRow
<1> HIDE DEF rows
<1>2. /\ DOMAIN paid = DOMAIN d /\ paid.cur = d.cur /\ paid.sess = d.sess
      /\ paid.ord = rows
  BY DEF Shape
<1>3. PayShares(v, d, s, p) = IF UnpaidOf(paid, s) = {} THEN Close(paid, s, "paid") ELSE paid
  BY DEF PayShares, rows
<1> HIDE DEF paid
<1>4. Shape(paid) /\ Same(d, paid) /\ RowsKept(d, paid) /\ BulkKept(d, paid, {})
  BY <1>1, <1>2 DEF Shape, Same, RowsKept, BulkKept, Row
<1> QED
  BY <1>3, <1>4, CloseIfDoes

\* createPaymentHandler touches no session.
LEMMA PayOneDoes ==
  ASSUME NEW d, Shape(d), NEW o \in Row, NEW n
  PROVE  LET e == PayOne(d, o, n)
         IN  Shape(e) /\ Same(d, e) /\ RowsKept(d, e) /\ BulkKept(d, e, {})
<1> DEFINE pay == IF d.paid[o] + n >= d.ord[o].total THEN "paid" ELSE "partial"
           row == [d.ord[o] EXCEPT !.pay = pay]
           e == PayOne(d, o, n)
<1>1. d.ord[o] \in OrderRow
  BY DEF Shape
<1>2. pay \in {"paid", "partial"}
  OBVIOUS
<1>3. e = [d EXCEPT !.paid[o] = @ + n, !.ord[o].pay = pay]
  BY DEF PayOne
<1> HIDE DEF pay
<1>4. row \in OrderRow /\ row.bulk = d.ord[o].bulk /\ row.st = d.ord[o].st
  BY <1>1, <1>2, RowUpdates
<1>5. /\ DOMAIN e = DOMAIN d /\ e.cur = d.cur /\ e.sess = d.sess
      /\ e.ord = [d.ord EXCEPT ![o] = row]
  BY <1>3 DEF Shape
<1> HIDE DEF e, row
<1>6. /\ e.ord \in [Row -> OrderRow]
      /\ \A x \in Row : e.ord[x].bulk = d.ord[x].bulk /\ e.ord[x].st = d.ord[x].st
  BY <1>4, <1>5 DEF Shape
<1> QED
  BY <1>5, <1>6 DEF Shape, Same, RowsKept, BulkKept, Row, e

\* splitCheckoutHandler closes its session at most.
LEMMA SplitOffDoes ==
  ASSUME NEW d, Shape(d), NEW s \in Session, NEW o \in Row,
         NEW n \in Nat, n < d.ord[o].total, NEW x \in Extra
  PROVE  LET e == SplitOff(d, s, o, n, x)
         IN  /\ Shape(e)
             /\ Same(d, e) \/ Closed(d, e, s, Holding(d, s))
             /\ RowsKept(d, e)
             /\ BulkKept(d, e, {})
<1> DEFINE new == [NoOrder EXCEPT !.st = "completed", !.pay = "paid",
                                  !.sess = s, !.total = n]
           old == [d.ord[o] EXCEPT !.total = @ - n]
           split == [d EXCEPT !.ord[o].total = @ - n, !.ord[x] = new]
<1>1. /\ new \in OrderRow /\ new.st # "none"
  BY DEF NoOrder, OrderRow
<1>2. /\ old \in OrderRow /\ old.bulk = d.ord[o].bulk /\ old.st = d.ord[o].st
  <2>1. d.ord[o] \in OrderRow /\ d.ord[o].total - n \in Nat
    BY DEF Shape, OrderRow
  <2> QED
    BY <2>1 DEF OrderRow
<1>3. x \in Row /\ x \notin Order
  BY NoneAssumption DEF Row
<1> HIDE DEF new
<1>4. /\ DOMAIN split = DOMAIN d /\ split.cur = d.cur /\ split.sess = d.sess
      /\ split.ord = [[d.ord EXCEPT ![o] = old] EXCEPT ![x] = new]
  BY <1>3 DEF Shape
<1>5. SplitOff(d, s, o, n, x)
        = IF OpenOf(split, s) = {} THEN Close(split, s, "paid") ELSE split
  BY DEF SplitOff, new
<1> HIDE DEF old, split
<1>6. /\ split.ord \in [Row -> OrderRow]
      /\ \A y \in Row : /\ y = x => split.ord[y] = new
                        /\ y # x => /\ split.ord[y].bulk = d.ord[y].bulk
                                    /\ split.ord[y].st = d.ord[y].st
  BY <1>1, <1>2, <1>3, <1>4 DEF Shape
<1>7. Shape(split) /\ Same(d, split) /\ RowsKept(d, split)
  BY <1>1, <1>4, <1>6 DEF Shape, Same, RowsKept
<1>8. BulkKept(d, split, {})
  BY <1>3, <1>6 DEF BulkKept, Row
<1> QED
  BY <1>5, <1>7, <1>8, CloseIfDoes

\* transferItemHandler touches no session.
LEMMA MoveItemsDoes ==
  ASSUME NEW d, Shape(d), NEW s \in Session, NEW o \in Row,
         NEW n \in Nat, n < d.ord[o].total, d.ord[o].st # "none",
         NEW x \in Row, d.ord[x].st = "none" => x \in Extra
  PROVE  LET e == MoveItems(d, s, o, n, x)
         IN  Shape(e) /\ Same(d, e) /\ RowsKept(d, e) /\ BulkKept(d, e, {})
<1> DEFINE new == [NoOrder EXCEPT !.st = "open", !.sess = s]
           into == IF d.ord[x].st = "none" THEN [d EXCEPT !.ord[x] = new] ELSE d
           out == [into EXCEPT !.ord[o].total = @ - n]
           e == MoveItems(d, s, o, n, x)
<1>1. new \in OrderRow /\ new.st = "open"
  BY DEF NoOrder, OrderRow
<1>2. e = [out EXCEPT !.ord[x].total = @ + n]
  BY DEF MoveItems
<1> HIDE DEF new
<1>3. /\ DOMAIN into = DOMAIN d /\ into.cur = d.cur /\ into.sess = d.sess
      /\ into.ord \in [Row -> OrderRow]
      /\ \A y \in Row : /\ d.ord[y].st # "none" => into.ord[y] = d.ord[y]
                        /\ y # x => into.ord[y] = d.ord[y]
                        /\ into.ord[x].st # "none"
  BY <1>1 DEF Shape
<1>4. into.ord[o] = d.ord[o] /\ d.ord[o] \in OrderRow /\ d.ord[o].total - n \in Nat
  BY <1>3 DEF Shape, OrderRow
<1> HIDE DEF into
<1>5. /\ DOMAIN out = DOMAIN d /\ out.cur = d.cur /\ out.sess = d.sess
      /\ out.ord = [into.ord EXCEPT ![o].total = @ - n]
  BY <1>3 DEF Shape
<1> HIDE DEF out
<1>6. /\ out.ord \in [Row -> OrderRow]
      /\ \A y \in Row : /\ out.ord[y].bulk = into.ord[y].bulk
                        /\ out.ord[y].st = into.ord[y].st
  <2>1. out.ord = [into.ord EXCEPT ![o] = [d.ord[o] EXCEPT !.total = d.ord[o].total - n]]
    BY <1>3, <1>4, <1>5
  <2>2. LET y == [d.ord[o] EXCEPT !.total = d.ord[o].total - n]
        IN  y \in OrderRow /\ y.bulk = d.ord[o].bulk /\ y.st = d.ord[o].st
    BY <1>4 DEF OrderRow
  <2> QED
    BY <1>3, <1>4, <2>1, <2>2
<1>7. /\ DOMAIN e = DOMAIN d /\ e.cur = d.cur /\ e.sess = d.sess
      /\ e.ord = [out.ord EXCEPT ![x].total = @ + n]
  BY <1>2, <1>5 DEF Shape
<1> HIDE DEF e
<1>8. /\ e.ord \in [Row -> OrderRow]
      /\ \A y \in Row : /\ e.ord[y].bulk = out.ord[y].bulk
                        /\ e.ord[y].st = out.ord[y].st
  <2>1. out.ord[x] \in OrderRow /\ out.ord[x].total + n \in Nat
    BY <1>6 DEF OrderRow
  <2>2. e.ord = [out.ord EXCEPT ![x] = [out.ord[x] EXCEPT !.total = out.ord[x].total + n]]
    BY <1>6, <1>7
  <2>3. LET y == [out.ord[x] EXCEPT !.total = out.ord[x].total + n]
        IN  y \in OrderRow /\ y.bulk = out.ord[x].bulk /\ y.st = out.ord[x].st
    BY <2>1 DEF OrderRow
  <2> QED
    BY <1>6, <2>2, <2>3
<1>9. Shape(e) /\ Same(d, e)
  BY <1>7, <1>8 DEF Shape, Same
<1>10. RowsKept(d, e)
  BY <1>3, <1>6, <1>8 DEF RowsKept
<1>11. BulkKept(d, e, {})
  BY <1>3, <1>6, <1>8, NoneAssumption DEF BulkKept, Row
<1> QED
  BY <1>9, <1>10, <1>11 DEF e

\* transferTableHandler.
LEMMA MoveTableDoes ==
  ASSUME NEW v, Shape(v), NEW d, Shape(d), NEW t \in Table, NEW u \in Table,
         v.cur[t] # NoSession
  PROVE  LET e == MoveTable(v, d, t, u)
         IN  /\ Shape(e)
             /\ e.cur = [x \in Table |-> IF x = u THEN v.cur[t]
                                         ELSE IF x = t THEN NoSession ELSE d.cur[x]]
             /\ e.sess = [d.sess EXCEPT ![v.cur[t]].table = u]
             /\ e.ord = d.ord
<1> DEFINE e == MoveTable(v, d, t, u)
<1>1. v.cur[t] \in Session
  BY DEF Shape
<1>2. /\ DOMAIN e = DOMAIN d
      /\ e.cur = [x \in Table |-> IF x = u THEN v.cur[t]
                                  ELSE IF x = t THEN NoSession ELSE d.cur[x]]
      /\ e.sess = [d.sess EXCEPT ![v.cur[t]].table = u]
      /\ e.ord = d.ord
  BY DEF MoveTable, Shape
<1> HIDE DEF e
<1>3. e.cur \in [Table -> Session \cup {NoSession}]
  BY <1>1, <1>2 DEF Shape
<1>4. e.sess \in [Session -> SessionRow]
  BY <1>1, <1>2 DEF Shape, SessionRow
<1> QED
  BY <1>2, <1>3, <1>4 DEF Shape, e

\* mergeTablesHandler ends the source's session.
LEMMA MergeDoes ==
  ASSUME NEW v, Shape(v), NEW d, Shape(d), NEW t \in Table, NEW u \in Table,
         v.cur[t] # NoSession, v.cur[u] # NoSession
  PROVE  LET e == Merge(v, d, t, u)
         IN  /\ Shape(e)
             /\ Closed(d, e, v.cur[t], {t})
<1> DEFINE e == Merge(v, d, t, u)
           rows == [o \in Row |-> IF d.ord[o].sess = v.cur[t]
                      THEN [d.ord[o] EXCEPT !.sess = v.cur[u]] ELSE d.ord[o]]
<1>1. v.cur[t] \in Session /\ v.cur[u] \in Session
  BY DEF Shape
<1>2. rows \in [Row -> OrderRow]
  BY <1>1 DEF Shape, OrderRow
<1> HIDE DEF rows
<1>3. e = [d EXCEPT !.ord = rows, !.sess[v.cur[t]].st = "paid", !.cur[t] = NoSession]
  BY DEF Merge, rows
<1>4. /\ DOMAIN e = DOMAIN d /\ e.ord = rows
      /\ e.sess = [d.sess EXCEPT ![v.cur[t]].st = "paid"]
      /\ e.cur = [d.cur EXCEPT ![t] = NoSession]
  BY <1>3 DEF Shape
<1> HIDE DEF e
<1>5. e.sess \in [Session -> SessionRow]
  BY <1>1, <1>4 DEF Shape, SessionRow
<1>6. /\ e.cur \in [Table -> Session \cup {NoSession}]
      /\ e.cur = [x \in Table |-> IF x \in {t} THEN NoSession ELSE d.cur[x]]
  BY <1>4 DEF Shape
<1> QED
  BY <1>2, <1>4, <1>5, <1>6 DEF Shape, Closed, e

\* cancelTableSessionHandler ends the session the table had.
LEMMA CancelAllDoes ==
  ASSUME NEW v, Shape(v), NEW d, Shape(d), NEW t \in Table
  PROVE  LET e == CancelAll(v, d, t)
         IN  /\ Shape(e)
             /\ IF v.cur[t] = NoSession
                THEN /\ e.sess = d.sess
                     /\ e.cur = [d.cur EXCEPT ![t] = NoSession]
                ELSE Closed(d, e, v.cur[t], {t})
             /\ RowsKept(d, e)
             /\ BulkKept(d, e, {})
<1> DEFINE s == v.cur[t]
           freed == [d EXCEPT !.cur[t] = NoSession]
           rows == [o \in Row |-> IF d.ord[o].sess = s
                      THEN [d.ord[o] EXCEPT !.st = "cancelled"] ELSE d.ord[o]]
           e == CancelAll(v, d, t)
<1>1. /\ DOMAIN freed = DOMAIN d /\ freed.ord = d.ord /\ freed.sess = d.sess
      /\ freed.cur = [d.cur EXCEPT ![t] = NoSession]
      /\ freed.cur \in [Table -> Session \cup {NoSession}]
  BY DEF Shape
<1> HIDE DEF freed
<1>2. CASE s = NoSession
  <2>1. e = freed
    BY <1>2 DEF CancelAll, freed
  <2> HIDE DEF e
  <2> QED
    BY <1>1, <1>2, <2>1 DEF Shape, RowsKept, BulkKept, e
<1>3. CASE s # NoSession
  <2>1. s \in Session
    BY <1>3 DEF Shape
  <2>2. /\ rows \in [Row -> OrderRow]
        /\ \A o \in Row : /\ rows[o].bulk = d.ord[o].bulk
                          /\ d.ord[o].st # "none" => rows[o].st # "none"
    BY DEF Shape, OrderRow
  <2>3. e = [freed EXCEPT !.sess[s].st = "cancelled", !.ord = rows]
    BY <1>3 DEF CancelAll, freed
  <2> HIDE DEF rows, s
  <2>4. /\ DOMAIN e = DOMAIN d /\ e.ord = rows /\ e.cur = freed.cur
        /\ e.sess = [d.sess EXCEPT ![s].st = "cancelled"]
    BY <1>1, <2>3 DEF Shape
  <2> HIDE DEF e
  <2>5. e.sess \in [Session -> SessionRow]
    BY <2>1, <2>4 DEF Shape, SessionRow
  <2>6. e.cur = [x \in Table |-> IF x \in {t} THEN NoSession ELSE d.cur[x]]
    BY <1>1, <2>4 DEF Shape
  <2>7. Shape(e) /\ Closed(d, e, s, {t})
    BY <1>1, <2>2, <2>4, <2>5, <2>6 DEF Shape, Closed
  <2>8. RowsKept(d, e) /\ BulkKept(d, e, {})
    BY <2>2, <2>4 DEF RowsKept, BulkKept, Row
  <2> QED
    BY <1>3, <2>7, <2>8 DEF e, s
<1> QED
  BY <1>2, <1>3

\* Cancelling an order closes the session it was read with at most.
LEMMA CancelOneDoes ==
  ASSUME NEW v, Shape(v), NEW d, Shape(d), NEW o \in Row
  PROVE  LET e == CancelOne(v, d, o)
             s == v.ord[o].sess
         IN  /\ Shape(e)
             /\ Same(d, e) \/ (s \in Session /\ Closed(d, e, s, Holding(d, s)))
             /\ RowsKept(d, e)
             /\ BulkKept(d, e, {})
<1> DEFINE s == v.ord[o].sess
           b == SetRow(d, o, "cancelled")
           e == AutoClose(b, s)
<1>1. s \in Session \cup {NoSession}
  BY DEF Shape, OrderRow
<1>2. Shape(b) /\ Same(d, b) /\ RowsKept(d, b) /\ BulkKept(d, b, {})
  BY SetRowDoes
<1> HIDE DEF b, s
<1>3. /\ Shape(e)
      /\ Same(b, e) \/ (s \in Session /\ Closed(b, e, s, Holding(b, s)))
      /\ e.ord = b.ord
  BY <1>1, <1>2, AutoCloseDoes
<1>4. CancelOne(v, d, o) = e
  BY DEF CancelOne, b, s
<1> HIDE DEF e
<1>5. Same(d, e) \/ (s \in Session /\ Closed(d, e, s, Holding(d, s)))
  BY <1>2, <1>3 DEF Same, Closed, Holding
<1>6. RowsKept(d, e) /\ BulkKept(d, e, {})
  BY <1>2, <1>3 DEF RowsKept, BulkKept
<1> QED
  BY <1>3, <1>4, <1>5, <1>6 DEF s

-----------------------------------------------------------------------------
(* Requests *)

\* What a request carries, by its call.
LEMMA RequestFields ==
  ASSUME NEW r \in Request
  PROVE  /\ r.call \in Placing =>
              r \in PlaceRequest
         /\ r.call \in {"checkoutSession", "sessionPayment"} => r.s \in Session
         /\ r.call = "payment" => r.o \in Row
         /\ r.call = "split" => r.s \in Session /\ r.o \in Row /\ r.n \in Nat
         /\ r.call = "transferItem" => r.o \in Row /\ r.u \in Table /\ r.n \in Nat
         /\ r.call \in {"open", "cancelTable"} => r.t \in Table
         /\ r.call \in {"transferTable", "mergeTables"} => r.t \in Table /\ r.u \in Table
         /\ r.call \in {"serve", "cancel", "kitchen", "kitchenCancel"} => r.o \in Row
<1> USE DEF Placing, PlaceRequest, Amount
<1>0. MaxAmount \in Nat
  BY BoundAssumption
<1>1. CASE r \in [call : {"create", "checkout"}, o : Order, t : Table,
                  s : Session \cup {NoSession}]
  BY <1>1
<1>2. CASE r \in [call : {"checkoutSession"}, s : Session]
  BY <1>2
<1>3. CASE r \in [call : {"sessionPayment"}, s : Session, n : Amount]
  BY <1>3
<1>4. CASE r \in [call : {"payment"}, o : Row, n : Amount]
  BY <1>4
<1>5. CASE r \in [call : {"split"}, s : Session, o : Row, n : Amount]
  BY <1>0, <1>5
<1>6. CASE r \in [call : {"transferItem"}, o : Row, n : Amount, u : Table]
  BY <1>0, <1>6
<1>7. CASE r \in [call : {"open", "cancelTable"}, t : Table]
  BY <1>7
<1>8. CASE r \in [call : {"transferTable", "mergeTables"}, t : Table, u : Table]
  BY <1>8
<1>9. CASE r \in [call : {"serve", "cancel", "kitchen", "kitchenCancel"}, o : Row]
  BY <1>9
<1> QED
  BY <1>1, <1>2, <1>3, <1>4, <1>5, <1>6, <1>7, <1>8, <1>9 DEF Request

\* What a till's request says of the rows it is made from.
LEMMA KnownFacts ==
  ASSUME NEW r, Known(r)
  PROVE  /\ r.call \in Placing =>
              /\ r.s # NoSession => Shows(r.t, r.s)
              /\ r.call = "checkout" /\ db.ord[r.o].st # "none" => db.ord[r.o].bulk
              /\ r.o \notin Submitted
         /\ r.call \in {"checkoutSession", "sessionPayment"} => ShowsSession(r.s)
         /\ r.call = "split" => ShowsSession(r.s) /\ r.o \in UnpaidOf(db, r.s)
         /\ r.call = "transferItem" => \E s \in Session : r.o \in UnpaidOf(db, s)
         /\ r.call \in {"transferTable", "mergeTables"} => r.t # r.u
BY DEF Known, Placing

-----------------------------------------------------------------------------
(* Requests that overlap, without moving sessions *)

\* Rows read earlier against rows now: sessions stay with their tables.
Later(v, d) ==
  /\ \A s \in Session : v.sess[s].st # "none" =>
       d.sess[s].st # "none" /\ d.sess[s].table = v.sess[s].table
  /\ RowsKept(v, d)

\* What one commit leaves true.
Step(d, e, but) ==
  Shape(e) /\ PointsToOpen(e) /\ Later(d, e) /\ BulkKept(d, e, but)

LEMMA LaterTransitive ==
  ASSUME NEW a, NEW b, NEW c, Later(a, b), Later(b, c)
  PROVE  Later(a, c)
BY DEF Later, RowsKept

LEMMA SameKeeps ==
  ASSUME NEW d, NEW e, Same(d, e), PointsToOpen(d), RowsKept(d, e)
  PROVE  PointsToOpen(e) /\ Later(d, e)
BY DEF Same, PointsToOpen, Later

LEMMA OpenedKeeps ==
  ASSUME NEW d, Shape(d), NEW e, NEW t \in Table, NEW n \in Session,
         Opened(d, e, t, n), d.sess[n].st = "none", PointsToOpen(d), RowsKept(d, e)
  PROVE  PointsToOpen(e) /\ Later(d, e)
<1>1. PointsToOpen(e)
  BY DEF Shape, Opened, PointsToOpen
<1>2. Later(d, e)
  BY DEF Shape, Opened, Later
<1> QED
  BY <1>1, <1>2

LEMMA ClosedKeeps ==
  ASSUME NEW d, Shape(d), NEW e, NEW s \in Session, NEW freed,
         Closed(d, e, s, freed), Holding(d, s) \subseteq freed,
         PointsToOpen(d), RowsKept(d, e)
  PROVE  PointsToOpen(e) /\ Later(d, e)
<1> PICK st \in {"paid", "cancelled"} : e.sess = [d.sess EXCEPT ![s].st = st]
  BY DEF Closed
<1>1. \A x \in Session : /\ x # s => e.sess[x] = d.sess[x]
                         /\ e.sess[s].st = st
                         /\ e.sess[s].table = d.sess[s].table
  BY DEF Shape, SessionRow
<1>2. \A t \in Table : e.cur[t] # NoSession =>
                         e.cur[t] = d.cur[t] /\ d.cur[t] # s /\ d.cur[t] \in Session
  BY DEF Shape, Closed, Holding
<1>3. PointsToOpen(e)
  BY <1>1, <1>2 DEF PointsToOpen
<1>4. Later(d, e)
  BY <1>1 DEF Later
<1> QED
  BY <1>3, <1>4

\* A session that was of table t is held by no other table.
LEMMA HeldByItsTable ==
  ASSUME NEW d, PointsToOpen(d), NEW s \in Session, NEW t \in Table,
         d.sess[s].table = t
  PROVE  Holding(d, s) \subseteq {t}
<1> SUFFICES ASSUME NEW x \in Table, d.cur[x] = s PROVE x = t
  BY DEF Holding
<1>1. d.sess[s] = [st |-> "active", table |-> x]
  BY NoneAssumption DEF PointsToOpen
<1> QED
  BY <1>1

\* A request in progress: what it asked for, against what it read and the rows now.
Pending(r, v, d) ==
  /\ r \in Request
  /\ r.call \in Calls
  /\ PointsToOpen(v)
  /\ Later(v, d)
  /\ r.call \in Placing =>
       /\ r.s # NoSession => v.sess[r.s].st # "none" /\ v.sess[r.s].table = r.t
       /\ r.call = "checkout" /\ v.ord[r.o].st # "none" => d.ord[r.o].bulk
  /\ r.call = "transferItem" => v.ord[r.o].st # "none"

Places(w) == Handles(w, "create") \/ Handles(w, "checkout")

\* The inductive invariant behind TableSession when requests overlap.
OverlapInv ==
  /\ Shape(db)
  /\ PointsToOpen(db)
  /\ req \in [Worker -> Request \cup {NoRequest}]
  /\ view = [w \in Worker |-> view[w]]
  /\ \A w \in Worker : /\ Shape(view[w])
                       /\ req[w] # NoRequest => Pending(req[w], view[w], db)
  /\ \A w, x \in Worker : w # x /\ Places(w) /\ Places(x) => req[w].o # req[x].o

\* The order a request may write anew.
Rewrites(w) == IF Places(w) THEN {req[w].o} ELSE {}

\* A new order never moves a session.
LEMMA PlaceSteps ==
  ASSUME NEW v, Shape(v), NEW d, Shape(d), PointsToOpen(d), NEW n \in Session,
         NEW r \in PlaceRequest,
         Pending(r, v, d), Opens(v, r) => d.sess[n].st = "none"
  PROVE  LET e == Place(v, d, r, n)
         IN  /\ Step(d, e, {r.o})
             /\ v.ord[r.o].st = "none" =>
                  Found(v, r, n) \in Session /\ e.sess[Found(v, r, n)].table = r.t
<1> /\ r.o \in Order /\ r.t \in Table /\ r.s \in Session \cup {NoSession}
    /\ r.call \in Placing
  BY DEF PlaceRequest
<1> DEFINE e == Place(v, d, r, n)
           f == Found(v, r, n)
<1>1. /\ Shape(e)
      /\ v.ord[r.o].st # "none" => e = d
      /\ v.ord[r.o].st = "none" =>
           /\ IF Opens(v, r) THEN Opened(d, e, r.t, n) ELSE Same(d, e)
           /\ f \in Session
      /\ RowsKept(d, e)
      /\ BulkKept(d, e, IF v.ord[r.o].st = "none" THEN {r.o} ELSE {})
  BY PlaceDoes
<1> HIDE DEF e
<1>2. BulkKept(d, e, {r.o})
  BY <1>1 DEF BulkKept
<1>3. PointsToOpen(e) /\ Later(d, e)
  <2>1. CASE v.ord[r.o].st # "none"
    BY <1>1, <2>1 DEF Later
  <2>2. CASE v.ord[r.o].st = "none" /\ Opens(v, r)
    BY <1>1, <2>2, OpenedKeeps
  <2>3. CASE v.ord[r.o].st = "none" /\ ~Opens(v, r)
    BY <1>1, <2>3, SameKeeps
  <2> QED
    BY <2>1, <2>2, <2>3
<1>4. ASSUME v.ord[r.o].st = "none"
      PROVE  e.sess[f].table = r.t
  <2>1. CASE Opens(v, r)
    BY <1>1, <1>4, <2>1 DEF Found, Opened, Shape
  <2>2. CASE ~Opens(v, r)
    <3>1. v.sess[f].st # "none" /\ v.sess[f].table = r.t
      <4>1. CASE r.s # NoSession
        BY <2>2, <4>1 DEF Pending, Found
      <4>2. CASE r.s = NoSession
        <5>1. f = v.cur[r.t] /\ v.cur[r.t] # NoSession /\ r.t \in Table
          BY <1>4, <2>2, <4>2 DEF Found, Opens, HasSession
        <5>2. v.sess[f] = [st |-> "active", table |-> r.t]
          BY <5>1 DEF Pending, PointsToOpen
        <5> QED
          BY <5>2
      <4> QED
        BY <4>1, <4>2
    <3>2. d.sess[f].st # "none" /\ d.sess[f].table = r.t
      BY <1>1, <1>4, <3>1 DEF Pending, Later
    <3> QED
      BY <1>1, <1>3, <1>4, <3>2 DEF Later
  <2> QED
    BY <2>1, <2>2
<1> QED
  BY <1>1, <1>2, <1>3, <1>4 DEF Step, e

\* A checkout closes no table but its own.
LEMMA CheckoutSteps ==
  ASSUME NEW v, Shape(v), NEW d, Shape(d), PointsToOpen(d), NEW n \in Session,
         NEW r \in PlaceRequest,
         r.call = "checkout",
         Pending(r, v, d), Opens(v, r) => d.sess[n].st = "none"
  PROVE  Step(d, PayAtOnce(v, Place(v, d, r, n), r), {r.o})
<1> /\ r.o \in Order /\ r.t \in Table /\ r.s \in Session \cup {NoSession}
    /\ r.call \in Placing
  BY DEF PlaceRequest
<1> DEFINE b == Place(v, d, r, n)
           e == PayAtOnce(v, b, r)
           f == Found(v, r, n)
<1>1. /\ Step(d, b, {r.o})
      /\ v.ord[r.o].st = "none" => f \in Session /\ b.sess[f].table = r.t
  BY PlaceSteps
<1>2. /\ v.ord[r.o].st # "none" => b = d
      /\ v.ord[r.o].st = "none" => b.ord[r.o].sess = f /\ ~b.ord[r.o].bulk
  BY PlaceDoes
<1>3. v.ord[r.o].st # "none" => d.ord[r.o].bulk
  BY DEF Pending, Placing
<1>4. /\ Shape(b) /\ PointsToOpen(b) /\ Later(d, b) /\ BulkKept(d, b, {r.o})
      /\ ~b.ord[r.o].bulk => b.ord[r.o].sess \in Session
  BY <1>1, <1>2, <1>3 DEF Step
<1> HIDE DEF b, f
<1>5. /\ Shape(e)
      /\ IF b.ord[r.o].bulk THEN Same(b, e) ELSE Closed(b, e, b.ord[r.o].sess, {r.t})
      /\ RowsKept(b, e)
      /\ BulkKept(b, e, {})
  BY <1>4, PayAtOnceDoes
<1> HIDE DEF e
<1>6. PointsToOpen(e) /\ Later(b, e)
  <2>1. CASE b.ord[r.o].bulk
    BY <1>4, <1>5, <2>1, SameKeeps
  <2>2. CASE ~b.ord[r.o].bulk
    <3>1. v.ord[r.o].st = "none"
      BY <1>2, <1>3, <2>2
    <3>2. f \in Session /\ b.sess[f].table = r.t /\ Closed(b, e, f, {r.t})
      BY <1>1, <1>2, <1>5, <2>2, <3>1
    <3>3. Holding(b, f) \subseteq {r.t}
      BY <1>4, <3>2, HeldByItsTable
    <3> QED
      BY <1>4, <1>5, <3>2, <3>3, ClosedKeeps
  <2> QED
    BY <2>1, <2>2
<1>7. Later(d, e)
  BY <1>4, <1>6, LaterTransitive
<1>8. BulkKept(d, e, {r.o})
  BY <1>4, <1>5 DEF BulkKept
<1> QED
  BY <1>5, <1>6, <1>7, <1>8 DEF Step, e, b

\* Closing a session by its id, or leaving the sessions alone.
LEMMA ClosingSteps ==
  ASSUME NEW d, Shape(d), PointsToOpen(d), NEW e, Shape(e), NEW s, NEW but,
         Same(d, e) \/ (s \in Session /\ Closed(d, e, s, Holding(d, s))),
         RowsKept(d, e), BulkKept(d, e, {})
  PROVE  Step(d, e, but)
<1>1. PointsToOpen(e) /\ Later(d, e)
  BY SameKeeps, ClosedKeeps
<1> QED
  BY <1>1 DEF Step, BulkKept

\* Cancelling a table closes no other table.
LEMMA CancelAllSteps ==
  ASSUME NEW v, Shape(v), PointsToOpen(v), NEW d, Shape(d), PointsToOpen(d),
         Later(v, d), NEW t \in Table, NEW but
  PROVE  Step(d, CancelAll(v, d, t), but)
<1> DEFINE e == CancelAll(v, d, t)
           s == v.cur[t]
<1>1. /\ Shape(e)
      /\ IF s = NoSession
         THEN e.sess = d.sess /\ e.cur = [d.cur EXCEPT ![t] = NoSession]
         ELSE Closed(d, e, s, {t})
      /\ RowsKept(d, e)
      /\ BulkKept(d, e, {})
  BY CancelAllDoes
<1> HIDE DEF e
<1>2. PointsToOpen(e) /\ Later(d, e)
  <2>1. CASE s = NoSession
    BY <1>1, <2>1 DEF Shape, PointsToOpen, Later
  <2>2. CASE s # NoSession
    <3>1. s \in Session /\ v.sess[s] = [st |-> "active", table |-> t]
      BY <2>2 DEF Shape, PointsToOpen
    <3>2. d.sess[s].table = t
      BY <3>1 DEF Later
    <3>3. Holding(d, s) \subseteq {t}
      BY <3>1, <3>2, HeldByItsTable
    <3> HIDE DEF s
    <3> QED
      BY <1>1, <2>2, <3>1, <3>3, ClosedKeeps
  <2> QED
    BY <2>1, <2>2
<1> QED
  BY <1>1, <1>2 DEF Step, BulkKept, e

\* Every handler but the two that move sessions.
LEMMA OverlapHandler ==
  ASSUME OverlapInv, Calls \cap {"transferTable", "mergeTables"} = {},
         NEW w \in Worker, Handler(w) \/ Abort(w)
  PROVE  \E e : Commit(w, e) /\ Step(db, e, Rewrites(w))
<1> DEFINE r == req[w]
           v == view[w]
<1>1. /\ Shape(db) /\ PointsToOpen(db) /\ Shape(v)
      /\ r # NoRequest => Pending(r, v, db) /\ r \in Request
  BY DEF OverlapInv, Pending
<1>2. ASSUME NEW call, Handles(w, call)
      PROVE  r # NoRequest /\ r.call = call /\ Pending(r, v, db)
  BY <1>1, <1>2 DEF Handles
<1>3. ASSUME r.call \in Placing, r # NoRequest
      PROVE  r \in PlaceRequest /\ Rewrites(w) = {r.o}
  BY <1>1, <1>3, RequestFields DEF Rewrites, Places, Handles, Placing
<1>4. Step(db, db, Rewrites(w))
  BY <1>1 DEF Step, Later, RowsKept, BulkKept
<1> HIDE DEF r, v
<1>5. CASE CreateOrder(w)
  <2>1. /\ r # NoRequest /\ r.call \in Placing /\ Pending(r, v, db)
        /\ r \in PlaceRequest /\ Rewrites(w) = {r.o}
    BY <1>2, <1>3, <1>5 DEF CreateOrder, Placing
  <2>2. PICK n \in Session : /\ Opens(v, r) => NewSession(n)
                             /\ Commit(w, Place(v, db, r, n))
    BY <1>5 DEF CreateOrder, r, v
  <2>3. Step(db, Place(v, db, r, n), {r.o})
    BY <1>1, <2>1, <2>2, PlaceSteps DEF NewSession
  <2> QED
    BY <2>1, <2>2, <2>3
<1>6. CASE Checkout(w)
  <2>1. /\ r # NoRequest /\ r.call = "checkout" /\ Pending(r, v, db)
        /\ r \in PlaceRequest /\ Rewrites(w) = {r.o}
    BY <1>2, <1>3, <1>6 DEF Checkout, Placing
  <2>2. PICK n \in Session : /\ Opens(v, r) => NewSession(n)
                             /\ Commit(w, PayAtOnce(v, Place(v, db, r, n), r))
    BY <1>6 DEF Checkout, r, v
  <2>3. Step(db, PayAtOnce(v, Place(v, db, r, n), r), {r.o})
    BY <1>1, <2>1, <2>2, CheckoutSteps DEF NewSession
  <2> QED
    BY <2>1, <2>2, <2>3
<1>7. CASE CheckoutSession(w)
  <2>1. r.s \in Session
    BY <1>1, <1>2, <1>7, RequestFields DEF CheckoutSession
  <2>2. Commit(w, PayAll(v, db, r.s))
    BY <1>7 DEF CheckoutSession, r, v
  <2>3. Step(db, PayAll(v, db, r.s), Rewrites(w))
    BY <1>1, <2>1, PayAllDoes, ClosingSteps
  <2> QED
    BY <2>2, <2>3
<1>8. CASE SessionPayment(w)
  <2>1. r.s \in Session
    BY <1>1, <1>2, <1>8, RequestFields DEF SessionPayment
  <2>2. PICK p : Commit(w, PayShares(v, db, r.s, p))
    BY <1>8 DEF SessionPayment, r, v
  <2>3. Step(db, PayShares(v, db, r.s, p), Rewrites(w))
    BY <1>1, <2>1, PaySharesDoes, ClosingSteps
  <2> QED
    BY <2>2, <2>3
<1>9. CASE Payment(w)
  <2>1. r.o \in Row
    BY <1>1, <1>2, <1>9, RequestFields DEF Payment
  <2>2. Commit(w, PayOne(db, r.o, r.n))
    BY <1>9 DEF Payment, r, v
  <2>3. Step(db, PayOne(db, r.o, r.n), Rewrites(w))
    BY <1>1, <2>1, PayOneDoes, ClosingSteps
  <2> QED
    BY <2>2, <2>3
<1>10. CASE Split(w)
  <2>1. r.s \in Session /\ r.o \in Row /\ r.n \in Nat
    BY <1>1, <1>2, <1>10, RequestFields DEF Split
  <2>2. PICK x \in Extra : Commit(w, SplitOff(db, r.s, r.o, r.n, x))
    BY <1>10 DEF Split, r, v
  <2>3. r.n < db.ord[r.o].total
    BY <1>10 DEF Split, r, v
  <2>4. Step(db, SplitOff(db, r.s, r.o, r.n, x), Rewrites(w))
    BY <1>1, <2>1, <2>3, SplitOffDoes, ClosingSteps
  <2> QED
    BY <2>2, <2>4
<1>11. CASE TransferItem(w)
  <2> DEFINE s == v.cur[r.u]
  <2>1. r.o \in Row /\ r.u \in Table /\ r.n \in Nat /\ Pending(r, v, db)
        /\ r.call = "transferItem"
    BY <1>1, <1>2, <1>11, RequestFields DEF TransferItem
  <2>2. s \in Session
    BY <1>1, <1>11, <2>1 DEF TransferItem, Shape, r, v
  <2>3. r.n < db.ord[r.o].total
    BY <1>11 DEF TransferItem, r, v
  <2>4. PICK x \in Row :
          /\ IF OpenOf(v, s) = {} THEN NewRow(x) ELSE x \in OpenOf(v, s)
          /\ Commit(w, MoveItems(db, s, r.o, r.n, x))
    BY <1>11 DEF TransferItem, r, v
  <2>5. db.ord[r.o].st # "none"
    BY <2>1 DEF Pending, Later, RowsKept
  <2>6. db.ord[x].st = "none" => x \in Extra
    BY <2>1, <2>4 DEF NewRow, OpenOf, Live, Pending, Later, RowsKept
  <2> HIDE DEF s
  <2>7. Step(db, MoveItems(db, s, r.o, r.n, x), Rewrites(w))
    BY <1>1, <2>1, <2>2, <2>3, <2>5, <2>6, MoveItemsDoes, ClosingSteps
  <2> QED
    BY <2>4, <2>7
<1>12. CASE OpenTable(w)
  <2>1. r.t \in Table
    BY <1>1, <1>2, <1>12, RequestFields DEF OpenTable
  <2>2. CASE HasSession(db, r.t)
    BY <1>4, <1>12, <2>2 DEF OpenTable, r
  <2>3. CASE ~HasSession(db, r.t)
    <3>1. PICK n \in Session : NewSession(n) /\ Commit(w, OpenSession(db, r.t, n))
      BY <1>12, <2>3 DEF OpenTable, r
    <3> DEFINE e == OpenSession(db, r.t, n)
    <3>2. Shape(e) /\ Opened(db, e, r.t, n) /\ e.ord = db.ord
      BY <1>1, <2>1, OpenSessionDoes
    <3> HIDE DEF e
    <3>3. RowsKept(db, e) /\ BulkKept(db, e, Rewrites(w))
      BY <3>2 DEF RowsKept, BulkKept
    <3>4. PointsToOpen(e) /\ Later(db, e)
      BY <1>1, <2>1, <3>1, <3>2, <3>3, OpenedKeeps DEF NewSession
    <3> QED
      BY <3>1, <3>2, <3>3, <3>4 DEF Step, e
  <2> QED
    BY <2>2, <2>3
<1>13. CASE TransferTable(w) \/ MergeTables(w)
  BY <1>2, <1>13 DEF TransferTable, MergeTables, Pending
<1>14. CASE CancelTable(w)
  <2>1. r.t \in Table /\ Pending(r, v, db)
    BY <1>1, <1>2, <1>14, RequestFields DEF CancelTable
  <2>2. Commit(w, CancelAll(v, db, r.t))
    BY <1>14 DEF CancelTable, r, v
  <2>3. Step(db, CancelAll(v, db, r.t), Rewrites(w))
    BY <1>1, <2>1, CancelAllSteps DEF Pending
  <2> QED
    BY <2>2, <2>3
<1>15. CASE ServeOrder(w) \/ KitchenTicket(w)
  <2>1. r.o \in Row
    BY <1>1, <1>2, <1>15, RequestFields DEF ServeOrder, KitchenTicket
  <2>2. PICK st \in {"open", "completed"} : Commit(w, SetRow(db, r.o, st))
    BY <1>15 DEF ServeOrder, KitchenTicket, r
  <2>3. Step(db, SetRow(db, r.o, st), Rewrites(w))
    BY <1>1, <2>1, SetRowDoes, ClosingSteps
  <2> QED
    BY <2>2, <2>3
<1>16. CASE CancelOrder(w) \/ KitchenCancel(w)
  <2>1. r.o \in Row
    BY <1>1, <1>2, <1>16, RequestFields DEF CancelOrder, KitchenCancel
  <2>2. Commit(w, CancelOne(v, db, r.o))
    BY <1>16 DEF CancelOrder, KitchenCancel, r, v
  <2>3. Step(db, CancelOne(v, db, r.o), Rewrites(w))
    BY <1>1, <2>1, CancelOneDoes, ClosingSteps
  <2> QED
    BY <2>2, <2>3
<1>17. CASE Abort(w)
  BY <1>4, <1>17 DEF Abort
<1> QED
  BY <1>5, <1>6, <1>7, <1>8, <1>9, <1>10, <1>11, <1>12, <1>13, <1>14, <1>15,
     <1>16, <1>17 DEF Handler

\* A commit leaves the other requests what they need.
LEMMA OverlapCommit ==
  ASSUME OverlapInv, NEW w \in Worker, NEW e, Commit(w, e), Step(db, e, Rewrites(w)),
         req[w] # NoRequest
  PROVE  OverlapInv'
<1>1. db' = e /\ Shape(e) /\ PointsToOpen(e) /\ Later(db, e) /\ BulkKept(db, e, Rewrites(w))
  BY DEF Commit, Step
<1>2. Shape(Empty)
  BY DEF Shape, Empty, SessionRow, OrderRow, NoOrder
<1>3. /\ req' = [req EXCEPT ![w] = NoRequest]
      /\ view' = [view EXCEPT ![w] = Empty]
      /\ req \in [Worker -> Request \cup {NoRequest}]
      /\ view = [x \in Worker |-> view[x]]
  BY DEF Commit, OverlapInv
<1>4. /\ req' \in [Worker -> Request \cup {NoRequest}]
      /\ view' = [x \in Worker |-> view'[x]]
      /\ req'[w] = NoRequest /\ view'[w] = Empty
      /\ \A x \in Worker : x # w => req'[x] = req[x] /\ view'[x] = view[x]
  BY <1>3
<1>5. ASSUME NEW x \in Worker
      PROVE  /\ Shape(view[x])'
             /\ req'[x] # NoRequest => Pending(req'[x], view'[x], db')
  <2>1. CASE x = w
    BY <1>2, <1>4, <2>1
  <2>2. CASE x # w
    <3>1. Shape(view[x]) /\ req'[x] = req[x] /\ view'[x] = view[x]
      BY <1>4, <2>2 DEF OverlapInv
    <3>2. ASSUME req[x] # NoRequest
          PROVE  Pending(req[x], view[x], e)
      <4>1. Pending(req[x], view[x], db)
        BY <3>2 DEF OverlapInv
      <4>2. Later(view[x], e)
        BY <1>1, <4>1, LaterTransitive DEF Pending
      <4>3. ASSUME req[x].call = "checkout", view[x].ord[req[x].o].st # "none"
            PROVE  e.ord[req[x].o].bulk
        <5>1. db.ord[req[x].o].bulk
          BY <4>1, <4>3 DEF Pending, Placing
        <5>2. req[x].o \notin Rewrites(w)
          BY <2>2, <3>2, <4>3 DEF OverlapInv, Rewrites, Places, Handles
        <5>3. req[x].o \in Order
          BY <4>1, <4>3, RequestFields DEF Pending, PlaceRequest, Placing
        <5> QED
          BY <1>1, <5>1, <5>2, <5>3 DEF BulkKept
      <4> QED
        BY <4>1, <4>2, <4>3 DEF Pending
    <3> QED
      BY <1>1, <3>1, <3>2
  <2> QED
    BY <2>1, <2>2
<1>6. ASSUME NEW x \in Worker, NEW y \in Worker, x # y, Places(x)', Places(y)'
      PROVE  req'[x].o # req'[y].o
  <2>1. x # w /\ y # w
    BY <1>4, <1>6 DEF Places, Handles
  <2> QED
    BY <1>4, <1>6, <2>1 DEF OverlapInv, Places, Handles
<1> QED
  BY <1>1, <1>4, <1>5, <1>6 DEF OverlapInv

\* A new request fits the rows it has just read.
LEMMA OverlapBegin ==
  ASSUME OverlapInv, NEW w \in Worker, Begin(w)
  PROVE  OverlapInv'
<1>1. PICK r \in Request : /\ r.call \in Calls
                           /\ Known(r)
                           /\ req' = [req EXCEPT ![w] = r]
  BY DEF Begin
<1>2. /\ db' = db /\ view' = [view EXCEPT ![w] = db]
      /\ req[w] = NoRequest
      /\ req \in [Worker -> Request \cup {NoRequest}]
      /\ view = [x \in Worker |-> view[x]]
      /\ Shape(db) /\ PointsToOpen(db)
  BY DEF Begin, OverlapInv
<1>3. /\ req' \in [Worker -> Request \cup {NoRequest}]
      /\ view' = [x \in Worker |-> view'[x]]
      /\ req'[w] = r /\ view'[w] = db
      /\ \A x \in Worker : x # w => req'[x] = req[x] /\ view'[x] = view[x]
  BY <1>1, <1>2
<1>4. Later(db, db)
  BY DEF Later, RowsKept
<1>5. ASSUME r.call \in Placing, r.s # NoSession
      PROVE  db.sess[r.s].st # "none" /\ db.sess[r.s].table = r.t
  <2>1. Shows(r.t, r.s) /\ r.t \in Table
    BY <1>1, <1>5, KnownFacts, RequestFields DEF PlaceRequest
  <2>2. CASE Stale
    BY <2>1, <2>2 DEF Shows
  <2>3. CASE ~Stale
    <3>1. db.sess[r.s] = [st |-> "active", table |-> r.t]
      BY <1>2, <1>5, <2>1, <2>3 DEF Shows, PointsToOpen
    <3> QED
      BY <3>1
  <2> QED
    BY <2>2, <2>3
<1>6. ASSUME r.call = "checkout", db.ord[r.o].st # "none"
      PROVE  db.ord[r.o].bulk
  BY <1>1, <1>6, KnownFacts DEF Placing
<1>7. ASSUME r.call = "transferItem"
      PROVE  db.ord[r.o].st # "none"
  BY <1>1, <1>7, KnownFacts DEF UnpaidOf, Live
<1>8. Pending(r, db, db)
  BY <1>1, <1>2, <1>4, <1>5, <1>6, <1>7 DEF Pending
<1>9. ASSUME NEW x \in Worker
      PROVE  /\ Shape(view[x])'
             /\ req'[x] # NoRequest => Pending(req'[x], view'[x], db')
  <2>1. CASE x = w
    BY <1>2, <1>3, <1>8, <2>1
  <2>2. CASE x # w
    BY <1>2, <1>3, <2>2 DEF OverlapInv
  <2> QED
    BY <2>1, <2>2
<1>10. ASSUME NEW x \in Worker, NEW y \in Worker, x # y, Places(x)', Places(y)'
       PROVE  req'[x].o # req'[y].o
  <2>1. ASSUME r.call \in Placing, NEW z \in Worker, z # w, Places(z)'
        PROVE  req'[z].o # r.o
    BY <1>1, <1>3, <2>1, KnownFacts DEF Submitted, Places, Handles
  <2>2. CASE x # w /\ y # w
    BY <1>3, <1>10, <2>2 DEF OverlapInv, Places, Handles
  <2>3. CASE x = w
    BY <1>3, <1>10, <2>1, <2>3 DEF Places, Handles, Placing
  <2>4. CASE y = w
    BY <1>3, <1>10, <2>1, <2>4 DEF Places, Handles, Placing
  <2> QED
    BY <2>2, <2>3, <2>4
<1> QED
  BY <1>2, <1>3, <1>9, <1>10 DEF OverlapInv

\* Requests overlap as they like, tills use sessions of their tables old or new:
\* as long as no session moves to another table, a table only ever points to an
\* active session of its own.
THEOREM OverlapTableSession ==
  ASSUME Calls \cap {"transferTable", "mergeTables"} = {}
  PROVE  Spec => []TableSession
<1>1. Init => OverlapInv
  <2> SUFFICES ASSUME Init PROVE OverlapInv
    OBVIOUS
  <2>1. Shape(Empty) /\ PointsToOpen(Empty)
    BY DEF Shape, Empty, SessionRow, OrderRow, NoOrder, PointsToOpen
  <2> QED
    BY <2>1 DEF Init, OverlapInv, Places, Handles
<1>2. OverlapInv /\ [Next]_vars => OverlapInv'
  <2> SUFFICES ASSUME OverlapInv, [Next]_vars PROVE OverlapInv'
    OBVIOUS
  <2>1. CASE UNCHANGED vars
    BY <2>1 DEF OverlapInv, vars, Shape, PointsToOpen, Places, Handles, Pending
  <2>2. CASE Next
    <3> PICK w \in Worker : Begin(w) \/ Handler(w) \/ Abort(w)
      BY <2>2 DEF Next
    <3>1. CASE Begin(w)
      BY <3>1, OverlapBegin
    <3>2. CASE Handler(w) \/ Abort(w)
      <4>1. req[w] # NoRequest
        BY <3>2 DEF Handler, Abort, Handles, CreateOrder, Checkout, CheckoutSession,
           SessionPayment, Payment, Split, TransferItem, OpenTable, TransferTable,
           MergeTables, CancelTable, ServeOrder, CancelOrder, KitchenTicket, KitchenCancel
      <4> QED
        BY <3>2, <4>1, OverlapHandler, OverlapCommit
    <3> QED
      BY <3>1, <3>2
  <2> QED
    BY <2>1, <2>2
<1>3. OverlapInv => TableSession
  BY DEF OverlapInv, TableSession
<1> QED
  BY <1>1, <1>2, <1>3, PTL DEF Spec

-----------------------------------------------------------------------------
(* One request at a time, every call *)

Linked(d) == PointsToOpen(d) /\ Reachable(d)

LEMMA SameLinked ==
  ASSUME NEW d, NEW e, Same(d, e), Linked(d)
  PROVE  Linked(e)
BY DEF Same, Linked, PointsToOpen, Reachable

LEMMA OpenedLinked ==
  ASSUME NEW d, Shape(d), NEW e, NEW t \in Table, NEW n \in Session,
         Opened(d, e, t, n), d.sess[n].st = "none", ~HasSession(d, t), Linked(d)
  PROVE  Linked(e)
<1>1. d.cur[t] = NoSession
  <2> SUFFICES ASSUME d.cur[t] # NoSession PROVE FALSE
    OBVIOUS
  <2>1. d.sess[d.cur[t]] = [st |-> "active", table |-> t]
    BY DEF Linked, PointsToOpen
  <2>2. d.sess[d.cur[t]].st = "active"
    BY <2>1
  <2> QED
    BY <2>2 DEF HasSession
<1>2. PointsToOpen(e)
  <2> SUFFICES ASSUME NEW x \in Table, e.cur[x] # NoSession
               PROVE  e.sess[e.cur[x]] = [st |-> "active", table |-> x]
    BY DEF PointsToOpen
  <2>2. CASE x = t
    BY <2>2 DEF Shape, Opened
  <2>3. CASE x # t
    <3>1. e.cur[x] = d.cur[x] /\ d.cur[x] \in Session
      BY <2>3 DEF Shape, Opened
    <3>2. d.sess[d.cur[x]] = [st |-> "active", table |-> x]
      BY <3>1 DEF Linked, PointsToOpen
    <3>3. e.sess[d.cur[x]] = d.sess[d.cur[x]]
      BY <3>1, <3>2 DEF Shape, Opened
    <3> QED
      BY <3>1, <3>2, <3>3
  <2> QED
    BY <2>2, <2>3
<1>3. Reachable(e)
  <2> SUFFICES ASSUME NEW s \in Session, e.sess[s].st = "active"
               PROVE  e.sess[s].table \in Table /\ e.cur[e.sess[s].table] = s
    BY DEF Reachable
  <2>1. CASE s = n
    BY <2>1 DEF Shape, Opened
  <2>2. CASE s # n
    <3>1. e.sess[s] = d.sess[s]
      BY <2>2 DEF Shape, Opened
    <3>2. d.sess[s].table \in Table /\ d.cur[d.sess[s].table] = s
      BY <3>1 DEF Linked, Reachable
    <3>3. d.sess[s].table # t
      BY <1>1, <3>2, NoneAssumption
    <3> QED
      BY <3>1, <3>2, <3>3 DEF Shape, Opened
  <2> QED
    BY <2>1, <2>2
<1> QED
  BY <1>2, <1>3 DEF Linked

LEMMA ClosedLinked ==
  ASSUME NEW d, Shape(d), NEW e, NEW s \in Session, NEW freed,
         Closed(d, e, s, freed), freed \cap Table = Holding(d, s), Linked(d)
  PROVE  Linked(e)
<1> PICK st \in {"paid", "cancelled"} : e.sess = [d.sess EXCEPT ![s].st = st]
  BY DEF Closed
<1>1. \A x \in Session : x # s => e.sess[x] = d.sess[x]
  BY DEF Shape
<1>2. e.sess[s].st = st
  BY DEF Shape, SessionRow
<1>3. \A t \in Table : e.cur[t] = IF d.cur[t] = s THEN NoSession ELSE d.cur[t]
  BY DEF Closed, Holding
<1>4. PointsToOpen(e)
  <2> SUFFICES ASSUME NEW t \in Table, e.cur[t] # NoSession
               PROVE  e.sess[e.cur[t]] = [st |-> "active", table |-> t]
    BY DEF PointsToOpen
  <2>1. e.cur[t] = d.cur[t] /\ d.cur[t] # s /\ d.cur[t] \in Session
    BY <1>3 DEF Shape
  <2> QED
    BY <1>1, <2>1 DEF Linked, PointsToOpen
<1>5. Reachable(e)
  BY <1>1, <1>2, <1>3 DEF Linked, Reachable
<1> QED
  BY <1>4, <1>5 DEF Linked

\* The session a table points to is held by that table alone.
LEMMA HeldBy ==
  ASSUME NEW d, Shape(d), Linked(d), NEW t \in Table, d.cur[t] # NoSession
  PROVE  d.cur[t] \in Session /\ Holding(d, d.cur[t]) = {t}
<1>1. d.cur[t] \in Session /\ d.sess[d.cur[t]].table = t
  <2>1. d.sess[d.cur[t]] = [st |-> "active", table |-> t]
    BY DEF Linked, PointsToOpen
  <2> QED
    BY <2>1 DEF Shape
<1>2. Holding(d, d.cur[t]) \subseteq {t}
  BY <1>1, HeldByItsTable DEF Linked
<1> QED
  BY <1>1, <1>2 DEF Holding

\* Closing a session by its id, or leaving the sessions alone.
LEMMA ClosingLinked ==
  ASSUME NEW d, Shape(d), Linked(d), NEW e, NEW s,
         Same(d, e) \/ (s \in Session /\ Closed(d, e, s, Holding(d, s)))
  PROVE  Linked(e)
<1>1. Holding(d, s) \cap Table = Holding(d, s)
  BY DEF Holding
<1> QED
  BY <1>1, SameLinked, ClosedLinked

\* A request in progress that no other can overtake, against the rows it read.
Asked(r, d) ==
  /\ r \in Request
  /\ r.call \in Placing =>
       /\ r.s # NoSession => d.cur[r.t] = r.s
       /\ r.call = "checkout" /\ d.ord[r.o].st # "none" => d.ord[r.o].bulk
  /\ r.call \in {"transferTable", "mergeTables"} => r.t # r.u
  /\ r.call = "transferItem" => d.ord[r.o].st # "none"

\* The inductive invariant behind TablesLinked.
SerialInv ==
  /\ Shape(db)
  /\ Linked(db)
  /\ req \in [Worker -> Request \cup {NoRequest}]
  /\ view = [w \in Worker |-> view[w]]
  /\ \A w \in Worker : req[w] # NoRequest => view[w] = db /\ Asked(req[w], db)

\* A new order is of the session its table points to.
LEMMA PlaceLinked ==
  ASSUME NEW d, Shape(d), Linked(d), NEW n \in Session, NEW r \in PlaceRequest,
         Asked(r, d), Opens(d, r) => d.sess[n].st = "none"
  PROVE  LET e == Place(d, d, r, n)
         IN  /\ Shape(e)
             /\ Linked(e)
             /\ d.ord[r.o].st = "none" => e.ord[r.o].sess = e.cur[r.t]
                                          /\ e.cur[r.t] \in Session
                                          /\ ~e.ord[r.o].bulk
             /\ d.ord[r.o].st # "none" => e = d
<1> /\ r.o \in Order /\ r.t \in Table /\ r.s \in Session \cup {NoSession}
    /\ r.call \in Placing
  BY DEF PlaceRequest
<1> DEFINE e == Place(d, d, r, n)
           f == Found(d, r, n)
<1>1. /\ Shape(e)
      /\ d.ord[r.o].st # "none" => e = d
      /\ d.ord[r.o].st = "none" =>
           /\ IF Opens(d, r) THEN Opened(d, e, r.t, n) ELSE Same(d, e)
           /\ f \in Session
           /\ e.ord[r.o].sess = f
           /\ ~e.ord[r.o].bulk
  BY PlaceDoes
<1> HIDE DEF e
<1>2. CASE d.ord[r.o].st # "none"
  BY <1>1, <1>2 DEF e
<1>3. CASE d.ord[r.o].st = "none" /\ Opens(d, r)
  <2>1. Linked(e)
    BY <1>1, <1>3, OpenedLinked DEF Opens
  <2>2. e.cur[r.t] = n /\ f = n
    BY <1>1, <1>3 DEF Opened, Shape, Found
  <2> QED
    BY <1>1, <1>3, <2>1, <2>2 DEF e
<1>4. CASE d.ord[r.o].st = "none" /\ ~Opens(d, r)
  <2>1. Linked(e) /\ e.cur = d.cur
    BY <1>1, <1>4, SameLinked DEF Same
  <2>2. f = d.cur[r.t]
    BY <1>4 DEF Found, Asked
  <2> HIDE DEF f
  <2> QED
    BY <1>1, <1>4, <2>1, <2>2 DEF e
<1> QED
  BY <1>2, <1>3, <1>4

LEMMA CheckoutLinked ==
  ASSUME NEW d, Shape(d), Linked(d), NEW n \in Session, NEW r \in PlaceRequest,
         r.call = "checkout", Asked(r, d), Opens(d, r) => d.sess[n].st = "none"
  PROVE  LET e == PayAtOnce(d, Place(d, d, r, n), r)
         IN  Shape(e) /\ Linked(e)
<1> r.o \in Order /\ r.t \in Table
  BY DEF PlaceRequest
<1> DEFINE b == Place(d, d, r, n)
           e == PayAtOnce(d, b, r)
<1>1. /\ Shape(b) /\ Linked(b)
      /\ d.ord[r.o].st = "none" => b.ord[r.o].sess = b.cur[r.t]
                                   /\ b.cur[r.t] \in Session
                                   /\ ~b.ord[r.o].bulk
      /\ d.ord[r.o].st # "none" => b = d
  BY PlaceLinked
<1>2. d.ord[r.o].st # "none" => b.ord[r.o].bulk
  BY <1>1 DEF Asked, Placing
<1> HIDE DEF b
<1>3. ~b.ord[r.o].bulk => b.ord[r.o].sess = b.cur[r.t] /\ b.cur[r.t] \in Session
  BY <1>1, <1>2
<1>4. /\ Shape(e)
      /\ IF b.ord[r.o].bulk THEN Same(b, e) ELSE Closed(b, e, b.ord[r.o].sess, {r.t})
  BY <1>1, <1>3, PayAtOnceDoes
<1> HIDE DEF e
<1>5. CASE b.ord[r.o].bulk
  BY <1>1, <1>4, <1>5, SameLinked DEF b, e
<1>6. CASE ~b.ord[r.o].bulk
  <2>1. Holding(b, b.cur[r.t]) = {r.t}
    BY <1>1, <1>3, <1>6, HeldBy, NoneAssumption
  <2>2. Linked(e)
    BY <1>1, <1>3, <1>4, <1>6, <2>1, ClosedLinked
  <2> QED
    BY <1>4, <2>2 DEF b, e
<1> QED
  BY <1>5, <1>6

LEMMA MoveTableLinked ==
  ASSUME NEW d, Shape(d), Linked(d), NEW t \in Table, NEW u \in Table, t # u,
         d.cur[t] # NoSession, d.cur[u] = NoSession
  PROVE  LET e == MoveTable(d, d, t, u)
         IN  Shape(e) /\ Linked(e)
<1> DEFINE e == MoveTable(d, d, t, u)
           s == d.cur[t]
<1>1. /\ Shape(e)
      /\ e.cur = [x \in Table |-> IF x = u THEN s ELSE IF x = t THEN NoSession ELSE d.cur[x]]
      /\ e.sess = [d.sess EXCEPT ![s].table = u]
  BY MoveTableDoes
<1> HIDE DEF e
<1>2. s \in Session /\ Holding(d, s) = {t}
  BY HeldBy
<1>3. d.sess[s] = [st |-> "active", table |-> t]
  BY DEF Linked, PointsToOpen
<1>4. e.sess[s] = [st |-> "active", table |-> u]
  BY <1>1, <1>2, <1>3 DEF Shape
<1>5. \A x \in Session : x # s => e.sess[x] = d.sess[x]
  BY <1>1 DEF Shape
<1>6. PointsToOpen(e)
  <2> SUFFICES ASSUME NEW x \in Table, e.cur[x] # NoSession
               PROVE  e.sess[e.cur[x]] = [st |-> "active", table |-> x]
    BY DEF PointsToOpen
  <2>1. CASE x = u
    BY <1>1, <1>4, <2>1
  <2>2. CASE x # u
    <3>1. x # t /\ e.cur[x] = d.cur[x]
      BY <1>1, <2>2
    <3>2. d.cur[x] # s /\ d.cur[x] \in Session
      BY <1>2, <3>1 DEF Holding, Shape
    <3> QED
      BY <1>5, <3>1, <3>2 DEF Linked, PointsToOpen
  <2> QED
    BY <2>1, <2>2
<1>7. Reachable(e)
  <2> SUFFICES ASSUME NEW x \in Session, e.sess[x].st = "active"
               PROVE  e.sess[x].table \in Table /\ e.cur[e.sess[x].table] = x
    BY DEF Reachable
  <2>1. CASE x = s
    BY <1>1, <1>4, <2>1
  <2>2. CASE x # s
    <3> DEFINE tb == d.sess[x].table
    <3>1. e.sess[x] = d.sess[x] /\ tb \in Table /\ d.cur[tb] = x
      BY <1>5, <2>2 DEF Linked, Reachable
    <3>2. tb # t /\ tb # u
      BY <2>2, <3>1, NoneAssumption
    <3> QED
      BY <1>1, <3>1, <3>2
  <2> QED
    BY <2>1, <2>2
<1> QED
  BY <1>1, <1>6, <1>7 DEF Linked, e

LEMMA CancelAllLinked ==
  ASSUME NEW d, Shape(d), Linked(d), NEW t \in Table
  PROVE  LET e == CancelAll(d, d, t)
         IN  Shape(e) /\ Linked(e)
<1> DEFINE e == CancelAll(d, d, t)
<1>1. /\ Shape(e)
      /\ IF d.cur[t] = NoSession
         THEN e.sess = d.sess /\ e.cur = [d.cur EXCEPT ![t] = NoSession]
         ELSE Closed(d, e, d.cur[t], {t})
  BY CancelAllDoes
<1> HIDE DEF e
<1>2. CASE d.cur[t] = NoSession
  <2>1. Same(d, e)
    BY <1>1, <1>2 DEF Shape, Same
  <2> QED
    BY <1>1, <2>1, SameLinked DEF e
<1>3. CASE d.cur[t] # NoSession
  <2>1. d.cur[t] \in Session /\ {t} \cap Table = Holding(d, d.cur[t])
    BY <1>3, HeldBy
  <2>2. Linked(e)
    BY <1>1, <1>3, <2>1, ClosedLinked
  <2> QED
    BY <1>1, <2>2 DEF e
<1> QED
  BY <1>2, <1>3

\* A handler that runs alone leaves tables and sessions linked.
LEMMA SerialHandler ==
  ASSUME SerialInv, NEW w \in Worker, Handler(w) \/ Abort(w)
  PROVE  \E e : Commit(w, e) /\ Shape(e) /\ Linked(e)
<1> DEFINE r == req[w]
           v == view[w]
<1>1. Shape(db) /\ Linked(db)
  BY DEF SerialInv
<1>2. ASSUME NEW call, Handles(w, call)
      PROVE  r # NoRequest /\ r.call = call /\ v = db /\ Asked(r, db) /\ r \in Request
  BY <1>2 DEF SerialInv, Handles, Asked
<1> HIDE DEF r, v
<1>3. CASE CreateOrder(w)
  <2>1. v = db /\ Asked(r, db) /\ r \in PlaceRequest
    BY <1>2, <1>3, RequestFields DEF CreateOrder, Placing
  <2>2. PICK n \in Session : /\ Opens(v, r) => NewSession(n)
                             /\ Commit(w, Place(v, db, r, n))
    BY <1>3 DEF CreateOrder, r, v
  <2>3. Shape(Place(db, db, r, n)) /\ Linked(Place(db, db, r, n))
    BY <1>1, <2>1, <2>2, PlaceLinked DEF NewSession
  <2> QED
    BY <2>1, <2>2, <2>3
<1>4. CASE Checkout(w)
  <2>1. v = db /\ Asked(r, db) /\ r \in PlaceRequest /\ r.call = "checkout"
    BY <1>2, <1>4, RequestFields DEF Checkout, Placing
  <2>2. PICK n \in Session : /\ Opens(v, r) => NewSession(n)
                             /\ Commit(w, PayAtOnce(v, Place(v, db, r, n), r))
    BY <1>4 DEF Checkout, r, v
  <2> DEFINE e == PayAtOnce(db, Place(db, db, r, n), r)
  <2>3. Shape(e) /\ Linked(e)
    BY <1>1, <2>1, <2>2, CheckoutLinked DEF NewSession
  <2> QED
    BY <2>1, <2>2, <2>3
<1>5. CASE CheckoutSession(w)
  <2>1. r.s \in Session
    BY <1>2, <1>5, RequestFields DEF CheckoutSession
  <2>2. Commit(w, PayAll(v, db, r.s))
    BY <1>5 DEF CheckoutSession, r, v
  <2>3. Shape(PayAll(v, db, r.s)) /\ Linked(PayAll(v, db, r.s))
    BY <1>1, <2>1, PayAllDoes, ClosingLinked
  <2> QED
    BY <2>2, <2>3
<1>6. CASE SessionPayment(w)
  <2>1. r.s \in Session
    BY <1>2, <1>6, RequestFields DEF SessionPayment
  <2>2. PICK p : Commit(w, PayShares(v, db, r.s, p))
    BY <1>6 DEF SessionPayment, r, v
  <2>3. Shape(PayShares(v, db, r.s, p)) /\ Linked(PayShares(v, db, r.s, p))
    BY <1>1, <2>1, PaySharesDoes, ClosingLinked
  <2> QED
    BY <2>2, <2>3
<1>7. CASE Payment(w)
  <2>1. r.o \in Row
    BY <1>2, <1>7, RequestFields DEF Payment
  <2>2. Commit(w, PayOne(db, r.o, r.n))
    BY <1>7 DEF Payment, r, v
  <2>3. Shape(PayOne(db, r.o, r.n)) /\ Linked(PayOne(db, r.o, r.n))
    BY <1>1, <2>1, PayOneDoes, ClosingLinked
  <2> QED
    BY <2>2, <2>3
<1>8. CASE Split(w)
  <2>1. r.s \in Session /\ r.o \in Row /\ r.n \in Nat
    BY <1>2, <1>8, RequestFields DEF Split
  <2>2. PICK x \in Extra : Commit(w, SplitOff(db, r.s, r.o, r.n, x))
    BY <1>8 DEF Split, r, v
  <2>3. r.n < db.ord[r.o].total
    BY <1>8 DEF Split, r, v
  <2> DEFINE e == SplitOff(db, r.s, r.o, r.n, x)
  <2>4. Shape(e) /\ Linked(e)
    BY <1>1, <2>1, <2>3, SplitOffDoes, ClosingLinked
  <2> QED
    BY <2>2, <2>4
<1>9. CASE TransferItem(w)
  <2> DEFINE s == v.cur[r.u]
  <2>1. r.o \in Row /\ r.u \in Table /\ r.n \in Nat /\ v = db /\ db.ord[r.o].st # "none"
    BY <1>2, <1>9, RequestFields DEF TransferItem, Asked
  <2>2. s \in Session
    BY <1>1, <1>9, <2>1 DEF TransferItem, Shape, r, v
  <2>3. r.n < db.ord[r.o].total
    BY <1>9 DEF TransferItem, r, v
  <2>4. PICK x \in Row :
          /\ IF OpenOf(v, s) = {} THEN NewRow(x) ELSE x \in OpenOf(v, s)
          /\ Commit(w, MoveItems(db, s, r.o, r.n, x))
    BY <1>9 DEF TransferItem, r, v
  <2>5. db.ord[x].st = "none" => x \in Extra
    BY <2>1, <2>4 DEF NewRow, OpenOf, Live
  <2> HIDE DEF s
  <2> DEFINE e == MoveItems(db, s, r.o, r.n, x)
  <2>6. Shape(e) /\ Same(db, e)
    BY <1>1, <2>1, <2>2, <2>3, <2>5, MoveItemsDoes
  <2>7. Linked(e)
    BY <1>1, <2>6, SameLinked
  <2> QED
    BY <2>4, <2>6, <2>7
<1>10. CASE OpenTable(w)
  <2>1. r.t \in Table
    BY <1>2, <1>10, RequestFields DEF OpenTable
  <2>2. CASE HasSession(db, r.t)
    BY <1>1, <1>10, <2>2 DEF OpenTable, r
  <2>3. CASE ~HasSession(db, r.t)
    <3>1. PICK n \in Session : NewSession(n) /\ Commit(w, OpenSession(db, r.t, n))
      BY <1>10, <2>3 DEF OpenTable, r
    <3> DEFINE e == OpenSession(db, r.t, n)
    <3>2. Shape(e) /\ Opened(db, e, r.t, n)
      BY <1>1, <2>1, OpenSessionDoes
    <3> HIDE DEF e
    <3>3. Linked(e)
      BY <1>1, <2>1, <2>3, <3>1, <3>2, OpenedLinked DEF NewSession
    <3> QED
      BY <3>1, <3>2, <3>3 DEF e
  <2> QED
    BY <2>2, <2>3
<1>11. CASE TransferTable(w)
  <2>1. r.t \in Table /\ r.u \in Table /\ r.t # r.u /\ v = db
    BY <1>2, <1>11, RequestFields DEF TransferTable, Asked
  <2>2. /\ v.cur[r.t] # NoSession /\ v.cur[r.u] = NoSession
        /\ Commit(w, MoveTable(v, db, r.t, r.u))
    BY <1>11 DEF TransferTable, r, v
  <2> DEFINE e == MoveTable(db, db, r.t, r.u)
  <2>3. Shape(e) /\ Linked(e)
    BY <1>1, <2>1, <2>2, MoveTableLinked
  <2> QED
    BY <2>1, <2>2, <2>3
<1>12. CASE MergeTables(w)
  <2>1. r.t \in Table /\ r.u \in Table /\ v = db
    BY <1>2, <1>12, RequestFields DEF MergeTables
  <2>2. /\ v.cur[r.t] # NoSession /\ v.cur[r.u] # NoSession
        /\ Commit(w, Merge(v, db, r.t, r.u))
    BY <1>12 DEF MergeTables, r, v
  <2> DEFINE e == Merge(db, db, r.t, r.u)
  <2>3. Shape(e) /\ Closed(db, e, db.cur[r.t], {r.t})
    BY <1>1, <2>1, <2>2, MergeDoes
  <2>4. db.cur[r.t] \in Session /\ {r.t} \cap Table = Holding(db, db.cur[r.t])
    BY <1>1, <2>1, <2>2, HeldBy
  <2>5. Linked(e)
    BY <1>1, <2>3, <2>4, ClosedLinked
  <2> QED
    BY <2>1, <2>2, <2>3, <2>5
<1>13. CASE CancelTable(w)
  <2>1. r.t \in Table /\ v = db
    BY <1>2, <1>13, RequestFields DEF CancelTable
  <2>2. Commit(w, CancelAll(v, db, r.t))
    BY <1>13 DEF CancelTable, r, v
  <2>3. Shape(CancelAll(db, db, r.t)) /\ Linked(CancelAll(db, db, r.t))
    BY <1>1, <2>1, CancelAllLinked
  <2> QED
    BY <2>1, <2>2, <2>3
<1>14. CASE ServeOrder(w) \/ KitchenTicket(w)
  <2>1. r.o \in Row
    BY <1>2, <1>14, RequestFields DEF ServeOrder, KitchenTicket
  <2>2. PICK st \in {"open", "completed"} : Commit(w, SetRow(db, r.o, st))
    BY <1>14 DEF ServeOrder, KitchenTicket, r
  <2>3. Shape(SetRow(db, r.o, st)) /\ Linked(SetRow(db, r.o, st))
    BY <1>1, <2>1, SetRowDoes, SameLinked
  <2> QED
    BY <2>2, <2>3
<1>15. CASE CancelOrder(w) \/ KitchenCancel(w)
  <2>1. r.o \in Row /\ v = db
    BY <1>2, <1>15, RequestFields DEF CancelOrder, KitchenCancel
  <2>2. Commit(w, CancelOne(v, db, r.o))
    BY <1>15 DEF CancelOrder, KitchenCancel, r, v
  <2>3. Shape(CancelOne(db, db, r.o)) /\ Linked(CancelOne(db, db, r.o))
    BY <1>1, <2>1, CancelOneDoes, ClosingLinked
  <2> QED
    BY <2>1, <2>2, <2>3
<1>16. CASE Abort(w)
  BY <1>1, <1>16 DEF Abort
<1> QED
  BY <1>3, <1>4, <1>5, <1>6, <1>7, <1>8, <1>9, <1>10, <1>11, <1>12, <1>13, <1>14,
     <1>15, <1>16 DEF Handler

\* Tables and sessions are linked when nothing was done yet.
LEMMA SerialInit == Init => SerialInv
<1> SUFFICES ASSUME Init PROVE SerialInv
  OBVIOUS
<1>1. Shape(Empty) /\ Linked(Empty)
  BY DEF Shape, Empty, SessionRow, OrderRow, NoOrder, Linked, PointsToOpen, Reachable
<1> QED
  BY <1>1 DEF Init, SerialInv

\* And after every step.
LEMMA SerialStep ==
  ASSUME NEW w0, Worker = {w0}, ~Stale, SerialInv, [Next]_vars
  PROVE  SerialInv'
<1>1. CASE UNCHANGED vars
  BY <1>1 DEF SerialInv, vars
<1>2. CASE Next
  <2> PICK w \in Worker : Begin(w) \/ Handler(w) \/ Abort(w)
    BY <1>2 DEF Next
  <2>0. \A x \in Worker : x = w
    OBVIOUS
  <2>1. CASE Begin(w)
    <3>1. PICK r \in Request : Known(r) /\ req' = [req EXCEPT ![w] = r]
      BY <2>1 DEF Begin
    <3>2. db' = db /\ view' = [view EXCEPT ![w] = db]
      BY <2>1 DEF Begin
    <3>3. r.call \in Placing => (r.s # NoSession => db.cur[r.t] = r.s)
      BY <3>1, KnownFacts DEF Shows
    <3>4. Asked(r, db)
      BY <3>1, <3>3, KnownFacts DEF Asked, UnpaidOf, Live, Placing
    <3>5. /\ req' \in [Worker -> Request \cup {NoRequest}] /\ req'[w] = r
          /\ view' = [x \in Worker |-> view'[x]] /\ view'[w] = db
      BY <3>1, <3>2 DEF SerialInv
    <3> QED
      BY <2>0, <3>2, <3>4, <3>5 DEF SerialInv
  <2>2. CASE Handler(w) \/ Abort(w)
    <3>1. PICK e : Commit(w, e) /\ Shape(e) /\ Linked(e)
      BY <2>2, SerialHandler
    <3>2. /\ db' = e
          /\ req' \in [Worker -> Request \cup {NoRequest}] /\ req'[w] = NoRequest
          /\ view' = [x \in Worker |-> view'[x]]
      BY <3>1 DEF Commit, SerialInv
    <3> QED
      BY <2>0, <3>1, <3>2 DEF SerialInv
  <2> QED
    BY <2>1, <2>2
<1> QED
  BY <1>1, <1>2

\* One request at a time and tills that use the sessions their tables have: a
\* table points to an active session of its own, and every active session is
\* the one its table points to, whatever is ordered, paid, split, moved, merged
\* or cancelled.
THEOREM SerialLinked ==
  ASSUME NEW w0, Worker = {w0}, ~Stale
  PROVE  Spec => []TablesLinked
<1>1. Init => SerialInv
  BY SerialInit
<1>2. SerialInv /\ [Next]_vars => SerialInv'
  BY SerialStep
<1>3. SerialInv => TablesLinked
  BY DEF SerialInv, Linked, TablesLinked, TableSession, ActiveHasTable
<1> QED
  BY <1>1, <1>2, <1>3, PTL DEF Spec

-----------------------------------------------------------------------------
(* What the handlers do to the rows of orders and payments *)

\* What DB says, part by part.
LEMMA RowsAre ==
  ASSUME NEW d \in DB
  PROVE  /\ Shape(d)
         /\ d.paid \in [Row -> Nat]
         /\ d = [x \in DOMAIN d |-> d[x]]
         /\ \A o \in Row : d.ord[o] \in OrderRow /\ d.paid[o] \in Nat
BY DEF DB, Shape

\* What a handler returns is in DB when its parts are.
LEMMA RowsFrom ==
  ASSUME NEW d \in DB, NEW e, Shape(e), e.paid \in [Row -> Nat],
         e = [x \in DOMAIN d |-> e[x]]
  PROVE  e \in DB
<1>1. DOMAIN d = DOMAIN e
  BY DEF DB, Shape
<1> QED
  BY <1>1 DEF DB, Shape

\* Opening a session leaves orders and payments alone.
LEMMA OpenSessionRows ==
  ASSUME NEW d \in DB, NEW t \in Table, NEW n \in Session
  PROVE  LET e == OpenSession(d, t, n)
         IN  e \in DB /\ e.ord = d.ord /\ e.paid = d.paid
<1> DEFINE e == OpenSession(d, t, n)
<1>1. Shape(e) /\ e.ord = d.ord
  BY RowsAre, OpenSessionDoes
<1>2. e.paid = d.paid /\ e = [x \in DOMAIN d |-> e[x]]
  BY DEF DB, OpenSession
<1> HIDE DEF e
<1> QED
  BY <1>1, <1>2, RowsAre, RowsFrom DEF e

BillOf(d, s) == {o \in Row : d.ord[o].sess = s}

\* Session s gets status st, the others keep theirs.
Ended(d, e, s, st) == e.sess = [d.sess EXCEPT ![s].st = st]

\* So does closing one.
LEMMA CloseRows ==
  ASSUME NEW d \in DB, NEW s \in Session, NEW st \in {"paid", "cancelled"}
  PROVE  LET e == Close(d, s, st)
         IN  /\ e \in DB /\ e.ord = d.ord /\ e.paid = d.paid
             /\ Ended(d, e, s, st)
<1> DEFINE e == Close(d, s, st)
<1>1. Shape(e) /\ e.ord = d.ord
  BY RowsAre, CloseDoes
<1>2. /\ e.paid = d.paid /\ e.sess = [d.sess EXCEPT ![s].st = st]
      /\ e = [x \in DOMAIN d |-> e[x]]
  BY DEF DB, Close
<1> HIDE DEF e
<1>3. e \in DB
  BY <1>1, <1>2, RowsAre, RowsFrom
<1> QED
  BY <1>1, <1>2, <1>3 DEF Ended, e

\* The rows of set S get status st; amounts stay.
Restated(d, e, S, st) ==
  /\ e \in DB
  /\ e.paid = d.paid
  /\ \A o \in Row : /\ e.ord[o].total = d.ord[o].total
                    /\ e.ord[o].sess = d.ord[o].sess
                    /\ e.ord[o].pay = d.ord[o].pay
                    /\ e.ord[o].bulk = d.ord[o].bulk
                    /\ e.ord[o].st = IF o \in S THEN st ELSE d.ord[o].st

\* One payment for order r.o and the other open orders of its session.
PaidAtOnce(v, d, r, e) ==
  LET s == d.ord[r.o].sess
  IN  /\ e \in DB
      /\ \A o \in Row :
           /\ e.ord[o].total = d.ord[o].total
           /\ e.ord[o].sess = d.ord[o].sess
           /\ e.ord[o].pay = d.ord[o].pay
           /\ e.ord[o].st = IF o \in OpenOf(d, s) \ {r.o} THEN "completed" ELSE d.ord[o].st
      /\ IF d.ord[r.o].bulk THEN e.paid = d.paid /\ e.sess = d.sess
         ELSE /\ e.paid = [d.paid EXCEPT ![r.o] = @ + d.ord[r.o].total
                                                  + Totals(v, OpenOf(v, s) \ {r.o})]
              /\ Ended(d, e, s, "paid")

\* A payment for each order that was not paid; every live order is paid.
PaidAll(v, d, s, e) ==
  /\ e \in DB
  /\ Ended(d, e, s, "paid")
  /\ \A o \in Row :
       /\ e.paid[o] = IF o \in UnpaidOf(v, s) THEN d.paid[o] + v.ord[o].total ELSE d.paid[o]
       /\ e.ord[o].total = d.ord[o].total
       /\ e.ord[o].sess = d.ord[o].sess
       /\ e.ord[o].st = IF UnpaidOf(v, s) # {} /\ o \in Live(d, s) THEN "open" ELSE d.ord[o].st
       /\ e.ord[o].pay = IF UnpaidOf(v, s) # {} /\ o \in Live(d, s) THEN "paid" ELSE d.ord[o].pay

\* The orders of S get their shares p.
PaidShares(v, d, s, S, p, e) ==
  /\ e \in DB
  /\ e.sess = d.sess \/ (UnpaidOf(e, s) = {} /\ Ended(d, e, s, "paid"))
  /\ \A o \in Row :
       /\ e.paid[o] = IF o \in S THEN d.paid[o] + p[o] ELSE d.paid[o]
       /\ e.ord[o].total = d.ord[o].total
       /\ e.ord[o].sess = d.ord[o].sess
       /\ e.ord[o].st = d.ord[o].st
       /\ e.ord[o].pay = IF o \in S /\ p[o] > 0
                         THEN (IF p[o] = Rest(v, o) THEN "paid" ELSE "partial")
                         ELSE d.ord[o].pay

\* n items of order o become order x, which is new and paid.
SplitInto(d, o, n, x, e) ==
  /\ e \in DB
  /\ e.paid = d.paid
  /\ \A y \in Row :
       /\ y # x => e.ord[y].st = d.ord[y].st /\ e.ord[y].sess = d.ord[y].sess
       /\ e.ord[y].total = IF y = x THEN n ELSE IF y = o THEN d.ord[o].total - n
                           ELSE d.ord[y].total
  /\ e.ord[x].st = "completed"

\* n items of order o go to order x; a new one is of session s and starts empty.
MovedInto(d, s, o, n, x, e) ==
  LET new(y) == y = x /\ d.ord[x].st = "none"
  IN  /\ e \in DB /\ e.paid = d.paid /\ e.sess = d.sess /\ e.cur = d.cur
      /\ \A y \in Row :
           /\ e.ord[y].st = IF new(y) THEN "open" ELSE d.ord[y].st
           /\ e.ord[y].sess = IF new(y) THEN s ELSE d.ord[y].sess
           /\ e.ord[y].pay = IF new(y) THEN "unpaid" ELSE d.ord[y].pay
           /\ x = o => e.ord[y].total = d.ord[y].total
           /\ x # o => e.ord[y].total = IF y = x THEN (IF new(x) THEN 0 ELSE d.ord[x].total) + n
                                        ELSE IF y = o THEN d.ord[o].total - n
                                        ELSE d.ord[y].total

\* The orders of session s are those of session z.
MergedInto(d, s, z, e) ==
  /\ e \in DB
  /\ e.paid = d.paid
  /\ Ended(d, e, s, "paid")
  /\ \A o \in Row : /\ e.ord[o].total = d.ord[o].total
                    /\ e.ord[o].st = d.ord[o].st
                    /\ e.ord[o].pay = d.ord[o].pay
                    /\ e.ord[o].bulk = d.ord[o].bulk
                    /\ e.ord[o].sess = IF d.ord[o].sess = s THEN z ELSE d.ord[o].sess

\* Restated, from the rows as records.
LEMMA RestatedBy ==
  ASSUME NEW d \in DB, NEW e \in DB, e.paid = d.paid, NEW S,
         NEW st \in {"open", "completed", "cancelled"},
         \A o \in Row \cap S : e.ord[o] = [d.ord[o] EXCEPT !.st = st],
         \A o \in Row \ S : e.ord[o] = d.ord[o]
  PROVE  Restated(d, e, S, st)
<1> SUFFICES ASSUME NEW o \in Row
             PROVE  /\ e.ord[o].total = d.ord[o].total
                    /\ e.ord[o].sess = d.ord[o].sess
                    /\ e.ord[o].pay = d.ord[o].pay
                    /\ e.ord[o].bulk = d.ord[o].bulk
                    /\ e.ord[o].st = IF o \in S THEN st ELSE d.ord[o].st
  BY DEF Restated
<1>1. d.ord[o] \in OrderRow
  BY RowsAre
<1>2. CASE o \in S
  <2>1. e.ord[o] = [d.ord[o] EXCEPT !.st = st]
    BY <1>2
  <2> QED
    BY <1>1, <1>2, <2>1 DEF OrderRow
<1>3. CASE o \notin S
  BY <1>3
<1> QED
  BY <1>2, <1>3

\* One order gets another status.
LEMMA SetRowRows ==
  ASSUME NEW d \in DB, NEW o \in Row, NEW st \in {"open", "completed", "cancelled"}
  PROVE  /\ Restated(d, SetRow(d, o, st), {o}, st)
         /\ SetRow(d, o, st).sess = d.sess
<1> DEFINE e == SetRow(d, o, st)
<1>1. Shape(e)
  BY RowsAre, SetRowDoes
<1>2. /\ e.paid = d.paid /\ e.sess = d.sess
      /\ e = [x \in DOMAIN d |-> e[x]]
      /\ e.ord = [d.ord EXCEPT ![o].st = st]
  BY DEF DB, SetRow
<1> DEFINE S == {o}
<1>3. /\ \A x \in Row \cap S : e.ord[x] = [d.ord[x] EXCEPT !.st = st]
      /\ \A x \in Row \ S : e.ord[x] = d.ord[x]
  BY <1>2, RowsAre DEF Shape
<1> HIDE DEF e
<1>4. e \in DB
  BY <1>1, <1>2, RowsAre, RowsFrom
<1> HIDE DEF S
<1>5. e.paid = d.paid
  BY <1>2
<1>6. Restated(d, e, S, st)
  BY <1>3, <1>4, <1>5, RestatedBy
<1> QED
  BY <1>2, <1>6 DEF e, S

\* Closing a session without open orders: the orders stay, whoever names the session.
LEMMA AutoCloseRows ==
  ASSUME NEW d \in DB, NEW s \in Session \cup {NoSession}
  PROVE  LET e == AutoClose(d, s)
         IN  /\ e \in DB /\ e.ord = d.ord /\ e.paid = d.paid
             /\ e.sess = d.sess \/ (s \in Session /\ Ended(d, e, s, "cancelled"))
<1>1. CASE OpenOf(d, s) # {}
  BY <1>1 DEF AutoClose
<1>2. CASE OpenOf(d, s) = {} /\ s \in Session
  BY <1>2, CloseRows DEF AutoClose
<1>3. CASE OpenOf(d, s) = {} /\ s = NoSession
  <2> DEFINE e == Close(d, NoSession, "cancelled")
  <2>1. Shape(AutoClose(d, NoSession)) /\ AutoClose(d, NoSession) = e
    BY <1>3, RowsAre, AutoCloseDoes DEF AutoClose
  <2>2. /\ e.paid = d.paid /\ e.ord = d.ord
        /\ e.sess = [d.sess EXCEPT ![NoSession].st = "cancelled"]
        /\ e = [x \in DOMAIN d |-> e[x]]
    BY DEF DB, Close
  <2>3. e.sess = d.sess
    BY <2>2, NoneAssumption, RowsAre DEF Shape
  <2> HIDE DEF e
  <2>4. e \in DB
    BY <2>1, <2>2, RowsAre, RowsFrom
  <2> QED
    BY <1>3, <2>1, <2>2, <2>3, <2>4
<1> QED
  BY <1>1, <1>2, <1>3

\* One order is cancelled; its session may end with it.
LEMMA CancelOneRows ==
  ASSUME NEW v \in DB, NEW d \in DB, NEW o \in Row
  PROVE  LET e == CancelOne(v, d, o)
             s == v.ord[o].sess
         IN  /\ Restated(d, e, {o}, "cancelled")
             /\ e.sess = d.sess \/ (s \in Session /\ Ended(d, e, s, "cancelled"))
<1> DEFINE b == SetRow(d, o, "cancelled")
           s == v.ord[o].sess
           e == AutoClose(b, s)
<1>1. Restated(d, b, {o}, "cancelled") /\ b.sess = d.sess
  BY SetRowRows
<1>2. s \in Session \cup {NoSession}
  BY RowsAre DEF OrderRow
<1>3. CancelOne(v, d, o) = e
  BY DEF CancelOne
<1>4. b \in DB
  BY <1>1 DEF Restated
<1> HIDE DEF b, s
<1>5. /\ e \in DB /\ e.ord = b.ord /\ e.paid = b.paid
      /\ e.sess = b.sess \/ (s \in Session /\ e.sess = [b.sess EXCEPT ![s].st = "cancelled"])
  BY <1>2, <1>4, AutoCloseRows DEF Ended
<1> HIDE DEF e
<1>6. Restated(d, e, {o}, "cancelled")
  BY <1>1, <1>5 DEF Restated
<1> QED
  BY <1>1, <1>3, <1>5, <1>6 DEF Ended, s

\* The row a new order gets.
Ordered(r, s) == [NoOrder EXCEPT !.st = "open", !.sess = s, !.total = Price[r.o]]

\* A new order is a new row of its session.
LEMMA PlaceRows ==
  ASSUME NEW v \in DB, NEW d \in DB, NEW n \in Session, NEW r \in PlaceRequest,
         v.ord[r.o].st = "none"
  PROVE  LET e == Place(v, d, r, n)
         IN  /\ e \in DB /\ e.paid = d.paid
             /\ Found(v, r, n) \in Session
             /\ \A o \in Row : e.ord[o] = IF o = r.o THEN Ordered(r, Found(v, r, n)) ELSE d.ord[o]
<1> /\ r.o \in Order /\ r.t \in Table /\ r.s \in Session \cup {NoSession} /\ r.o \in Row
  BY DEF PlaceRequest, Row
<1> DEFINE e == Place(v, d, r, n)
           base == IF Opens(v, r) THEN OpenSession(d, r.t, n) ELSE d
           row == Ordered(r, Found(v, r, n))
<1>1. base \in DB /\ base.ord = d.ord /\ base.paid = d.paid
  BY OpenSessionRows
<1>2. Shape(e) /\ Found(v, r, n) \in Session
  BY RowsAre, PlaceDoes
<1> HIDE DEF base
<1>3. e = [base EXCEPT !.ord[r.o] = row]
  BY DEF Place, Found, base, Ordered
<1> HIDE DEF row
<1>4. /\ e.paid = base.paid
      /\ e.ord = [base.ord EXCEPT ![r.o] = row]
      /\ e = [x \in DOMAIN d |-> e[x]]
  BY <1>1, <1>3 DEF DB
<1> HIDE DEF e
<1>5. e \in DB
  BY <1>1, <1>2, <1>4, RowsAre, RowsFrom
<1>6. \A o \in Row : e.ord[o] = IF o = r.o THEN row ELSE d.ord[o]
  BY <1>1, <1>4, RowsAre DEF Shape
<1> QED
  BY <1>1, <1>2, <1>4, <1>5, <1>6 DEF e, row

\* A checkout pays once, for its order and the other open ones.
LEMMA PayAtOnceRows ==
  ASSUME NEW v \in DB, NEW d \in DB, NEW r, r.o \in Order, r.t \in Table,
         ~d.ord[r.o].bulk => d.ord[r.o].sess \in Session
  PROVE  PaidAtOnce(v, d, r, PayAtOnce(v, d, r))
<1> DEFINE s == d.ord[r.o].sess
           others == OpenOf(d, s) \ {r.o}
           due == Totals(v, OpenOf(v, s) \ {r.o})
           rows == [o \in Row |-> IF o \in others
                      THEN [d.ord[o] EXCEPT !.st = "completed"] ELSE d.ord[o]]
           done == [d EXCEPT !.ord = rows]
           e == PayAtOnce(v, d, r)
<1>0. r.o \in Row
  BY DEF Row
<1>1. /\ rows \in [Row -> OrderRow]
      /\ \A o \in Row :
           /\ rows[o].sess = d.ord[o].sess
           /\ rows[o].pay = d.ord[o].pay
           /\ rows[o].total = d.ord[o].total
           /\ rows[o].st = IF o \in others THEN "completed" ELSE d.ord[o].st
  <2> HIDE DEF others
  <2> QED
    BY RowsAre DEF OrderRow
<1>2. due \in Nat
  <2>1. IsFiniteSet(Row)
    BY RowAssumption, FS_Union DEF Row
  <2>2. PICK S : S = OpenOf(v, s) \ {r.o}
    OBVIOUS
  <2>3. S \subseteq Row
    BY <2>2 DEF OpenOf, Live
  <2>4. IsFiniteSet(S)
    BY <2>1, <2>3, FS_Subset
  <2>5. PICK f : f = [o \in Row |-> v.ord[o].total]
    OBVIOUS
  <2>6. \A o \in S : f[o] \in Nat
    BY <2>3, <2>5, RowsAre DEF OrderRow
  <2>7. SumFunctionOnSet(f, S) \in Nat
    BY <2>4, <2>6, SumNat
  <2> QED
    BY <2>2, <2>5, <2>7 DEF Totals
<1> HIDE DEF rows, due, others
<1>3. done \in DB /\ done.ord = rows /\ done.paid = d.paid /\ done.sess = d.sess /\ done.cur = d.cur
  BY <1>1 DEF DB
<1>4. Shape(e)
  BY RowsAre, PayAtOnceDoes
<1>5. CASE d.ord[r.o].bulk
  <2>1. e = done
    BY <1>5 DEF PayAtOnce, rows, others
  <2> HIDE DEF e, done
  <2> QED
    BY <1>1, <1>3, <1>5, <2>1 DEF PaidAtOnce, e, others
<1>6. CASE ~d.ord[r.o].bulk
  <2>1. e = [done EXCEPT !.paid[r.o] = @ + d.ord[r.o].total + due,
                         !.ord[r.o].bulk = TRUE,
                         !.sess[s].st = "paid",
                         !.cur[r.t] = NoSession]
    BY <1>6 DEF PayAtOnce, rows, due, others
  <2>0. s \in Session
    BY <1>6
  <2> HIDE DEF done, s
  <2>2. /\ e.ord = [rows EXCEPT ![r.o].bulk = TRUE]
        /\ e.paid = [d.paid EXCEPT ![r.o] = @ + d.ord[r.o].total + due]
        /\ e.sess = [d.sess EXCEPT ![s].st = "paid"]
        /\ e = [x \in DOMAIN d |-> e[x]]
    <3>1. DOMAIN done = DOMAIN d /\ DOMAIN d = {"cur", "sess", "ord", "paid"}
      BY <1>3 DEF DB
    <3>2. e.ord = [rows EXCEPT ![r.o].bulk = TRUE]
      BY <1>3, <2>1, <3>1
    <3>3. e.paid = [d.paid EXCEPT ![r.o] = @ + d.ord[r.o].total + due]
      BY <1>3, <2>1, <3>1
    <3>4. e.sess = [d.sess EXCEPT ![s].st = "paid"]
      BY <1>3, <2>1, <3>1
    <3>5. e = [x \in DOMAIN d |-> e[x]]
      BY <2>1, <3>1
    <3> QED
      BY <3>2, <3>3, <3>4, <3>5
  <2> HIDE DEF e
  <2>3. \A o \in Row : rows[o] \in OrderRow /\ e.ord[o] = IF o = r.o THEN [rows[o] EXCEPT !.bulk = TRUE] ELSE rows[o]
    BY <1>1, <2>2
  <2>4. \A o \in Row : /\ e.ord[o].sess = rows[o].sess
                       /\ e.ord[o].pay = rows[o].pay
                       /\ e.ord[o].total = rows[o].total
                       /\ e.ord[o].st = rows[o].st
    BY <2>3 DEF OrderRow
  <2>5. e.paid \in [Row -> Nat]
    BY <1>0, <1>2, <2>2, RowsAre DEF OrderRow
  <2>6. e \in DB
    BY <1>4, <2>2, <2>5, RowsFrom DEF e
  <2> QED
    BY <1>1, <1>6, <2>2, <2>4, <2>6 DEF Ended, PaidAtOnce, e, s, due, others
<1> QED
  BY <1>5, <1>6

\* Closing a session pays the full total of every unpaid order.
LEMMA PayAllRows ==
  ASSUME NEW v \in DB, NEW d \in DB, NEW s \in Session
  PROVE  PaidAll(v, d, s, PayAll(v, d, s))
<1> DEFINE due == UnpaidOf(v, s)
           sums == [o \in Row |-> IF o \in due THEN d.paid[o] + v.ord[o].total ELSE d.paid[o]]
           charged == [d EXCEPT !.paid = sums]
           live == Live(charged, s)
           rows == [o \in Row |-> IF o \in live THEN [d.ord[o] EXCEPT !.st = "open", !.pay = "paid"]
                                  ELSE d.ord[o]]
           base == IF due = {} THEN d ELSE Settle(charged, s)
           e == PayAll(v, d, s)
<1>1. e = Close(base, s, "paid")
  BY DEF PayAll
<1>2. sums \in [Row -> Nat] /\ \A o \in Row : sums[o] = IF o \in due THEN d.paid[o] + v.ord[o].total ELSE d.paid[o]
  <2> HIDE DEF due
  <2> QED
    BY RowsAre DEF OrderRow
<1>3. due = {} => \A o \in Row : sums[o] = d.paid[o]
  OBVIOUS
<1> HIDE DEF sums, due
<1>4. charged \in DB /\ charged.ord = d.ord /\ charged.paid = sums /\ charged.sess = d.sess
  BY <1>2 DEF DB
<1>5. live = Live(d, s)
  BY <1>4 DEF Live
<1> HIDE DEF charged, live
<1>6. rows \in [Row -> OrderRow] /\ \A o \in Row : rows[o] = IF o \in live THEN [d.ord[o] EXCEPT !.st = "open", !.pay = "paid"]
                                  ELSE d.ord[o]
  BY RowsAre, RowUpdates
<1>7. Settle(charged, s) = [charged EXCEPT !.ord = rows]
  BY <1>4 DEF Settle, live
<1> HIDE DEF rows
<1>8. /\ Settle(charged, s) \in DB /\ Settle(charged, s).ord = rows
      /\ Settle(charged, s).paid = sums /\ Settle(charged, s).sess = d.sess
  BY <1>4, <1>6, <1>7 DEF DB
<1>9. /\ base \in DB /\ base.sess = d.sess
      /\ \A o \in Row : /\ base.paid[o] = sums[o]
                        /\ base.ord[o] = IF due # {} THEN rows[o] ELSE d.ord[o]
  BY <1>3, <1>8
<1> HIDE DEF base
<1>10. e \in DB /\ e.ord = base.ord /\ e.paid = base.paid /\ e.sess = [d.sess EXCEPT ![s].st = "paid"]
  <2> DEFINE c == Close(base, s, "paid")
  <2>1. c \in DB /\ c.ord = base.ord /\ c.paid = base.paid /\ c.sess = [base.sess EXCEPT ![s].st = "paid"]
    BY <1>9, CloseRows DEF Ended
  <2> QED
    BY <1>1, <1>9, <2>1
<1> HIDE DEF e
<1>11. \A o \in Row : /\ e.ord[o].total = d.ord[o].total
                      /\ e.ord[o].sess = d.ord[o].sess
                      /\ e.ord[o].st = IF due # {} /\ o \in live THEN "open" ELSE d.ord[o].st
                      /\ e.ord[o].pay = IF due # {} /\ o \in live THEN "paid" ELSE d.ord[o].pay
  <2> SUFFICES ASSUME NEW o \in Row
               PROVE  /\ e.ord[o].total = d.ord[o].total
                      /\ e.ord[o].sess = d.ord[o].sess
                      /\ e.ord[o].st = IF due # {} /\ o \in live THEN "open" ELSE d.ord[o].st
                      /\ e.ord[o].pay = IF due # {} /\ o \in live THEN "paid" ELSE d.ord[o].pay
    OBVIOUS
  <2>0. d.ord[o] \in OrderRow
    BY RowsAre
  <2>1. CASE due # {} /\ o \in live
    <3>1. e.ord[o] = [d.ord[o] EXCEPT !.st = "open", !.pay = "paid"]
      BY <1>6, <1>9, <1>10, <2>1
    <3> QED
      BY <2>0, <2>1, <3>1 DEF OrderRow
  <2>2. CASE ~(due # {} /\ o \in live)
    <3>1. e.ord[o] = d.ord[o]
      BY <1>6, <1>9, <1>10, <2>2
    <3> QED
      BY <2>2, <3>1
  <2> QED
    BY <2>1, <2>2
<1>12. \A o \in Row : e.paid[o] = IF o \in due THEN d.paid[o] + v.ord[o].total ELSE d.paid[o]
  BY <1>2, <1>9, <1>10
<1> QED
  BY <1>5, <1>10, <1>11, <1>12 DEF Ended, PaidAll, e, due

\* A payment of a session in shares.
LEMMA PaySharesRows ==
  ASSUME NEW v, NEW d \in DB, NEW s \in Session, NEW S, NEW n \in Nat, NEW p \in [S -> 0..n]
  PROVE  PaidShares(v, d, s, S, p, PayShares(v, d, s, p))
<1> DEFINE got == {o \in DOMAIN p : p[o] > 0}
           sums == [o \in Row |-> IF o \in got THEN d.paid[o] + p[o] ELSE d.paid[o]]
           rows == [o \in Row |-> IF o \in got
             THEN [d.ord[o] EXCEPT !.pay = IF p[o] = Rest(v, o) THEN "paid" ELSE "partial"]
             ELSE d.ord[o]]
           paid == [d EXCEPT !.paid = sums, !.ord = rows]
           e == PayShares(v, d, s, p)
<1>1. got = {o \in S : p[o] > 0} /\ \A o \in S : p[o] \in Nat
  OBVIOUS
<1>2. e = IF UnpaidOf(paid, s) = {} THEN Close(paid, s, "paid") ELSE paid
  BY DEF PayShares
<1> HIDE DEF got
<1>3. /\ sums \in [Row -> Nat]
      /\ \A o \in Row : sums[o] = IF o \in S THEN d.paid[o] + p[o] ELSE d.paid[o]
  <2>1. \A o \in Row : d.paid[o] \in Nat
    BY RowsAre
  <2> QED
    BY <1>1, <2>1
<1>4. /\ rows \in [Row -> OrderRow]
      /\ \A o \in Row : rows[o] = IF o \in S /\ p[o] > 0
                       THEN [d.ord[o] EXCEPT !.pay = IF p[o] = Rest(v, o) THEN "paid" ELSE "partial"]
                       ELSE d.ord[o]
  BY <1>1, RowsAre DEF OrderRow
<1>0. \A o \in Row : /\ rows[o].total = d.ord[o].total
                     /\ rows[o].sess = d.ord[o].sess
                     /\ rows[o].st = d.ord[o].st
                     /\ rows[o].pay = IF o \in S /\ p[o] > 0
                                       THEN (IF p[o] = Rest(v, o) THEN "paid" ELSE "partial")
                                       ELSE d.ord[o].pay
  <2> SUFFICES ASSUME NEW o \in Row
               PROVE  /\ rows[o].total = d.ord[o].total
                      /\ rows[o].sess = d.ord[o].sess
                      /\ rows[o].st = d.ord[o].st
                      /\ rows[o].pay = IF o \in S /\ p[o] > 0
                                       THEN (IF p[o] = Rest(v, o) THEN "paid" ELSE "partial")
                                       ELSE d.ord[o].pay
    OBVIOUS
  <2>0. d.ord[o] \in OrderRow
    BY RowsAre
  <2>1. CASE o \in S /\ p[o] > 0
    <3>1. rows[o] = [d.ord[o] EXCEPT !.pay = IF p[o] = Rest(v, o) THEN "paid" ELSE "partial"]
      BY <1>4, <2>1
    <3> HIDE DEF rows
    <3> QED
      BY <2>0, <2>1, <3>1 DEF OrderRow
  <2>2. CASE ~(o \in S /\ p[o] > 0)
    <3>1. rows[o] = d.ord[o]
      BY <1>4, <2>2
    <3> HIDE DEF rows
    <3> QED
      BY <2>2, <3>1
  <2> QED
    BY <2>1, <2>2
<1> HIDE DEF sums, rows
<1>5. paid \in DB /\ paid.ord = rows /\ paid.paid = sums /\ paid.sess = d.sess
  BY <1>3, <1>4 DEF DB
<1> HIDE DEF paid, e
<1>6. CASE UnpaidOf(paid, s) # {}
  <2>1. e = paid
    BY <1>2, <1>6
  <2> QED
    BY <1>0, <1>3, <1>5, <2>1 DEF PaidShares, e
<1>7. CASE UnpaidOf(paid, s) = {}
  <2> DEFINE c == Close(paid, s, "paid")
  <2>0. c \in DB /\ c.ord = paid.ord /\ c.paid = paid.paid /\ c.sess = [paid.sess EXCEPT ![s].st = "paid"]
    BY <1>5, CloseRows DEF Ended
  <2>1. e \in DB /\ e.ord = paid.ord /\ e.paid = paid.paid /\ e.sess = [d.sess EXCEPT ![s].st = "paid"]
    BY <1>2, <1>5, <1>7, <2>0
  <2>2. UnpaidOf(e, s) = {}
    BY <1>7, <2>1 DEF UnpaidOf, Live
  <2> QED
    BY <1>0, <1>3, <1>5, <2>1, <2>2 DEF Ended, PaidShares, e
<1> QED
  BY <1>6, <1>7

\* A payment of one order adds no row and no item.
LEMMA PayOneRows ==
  ASSUME NEW d \in DB, NEW o \in Row, NEW n \in Nat
  PROVE  LET e == PayOne(d, o, n)
         IN  /\ e \in DB
             /\ e.sess = d.sess
             /\ \A x \in Row : /\ e.ord[x].st = d.ord[x].st
                               /\ e.ord[x].sess = d.ord[x].sess
                               /\ e.ord[x].total = d.ord[x].total
<1> DEFINE pay == IF d.paid[o] + n >= d.ord[o].total THEN "paid" ELSE "partial"
           e == PayOne(d, o, n)
<1>1. pay \in {"paid", "partial"}
  OBVIOUS
<1>2. e = [d EXCEPT !.paid[o] = @ + n, !.ord[o].pay = pay]
  BY DEF PayOne
<1>3. Shape(e)
  BY RowsAre, PayOneDoes
<1> HIDE DEF pay
<1>4. /\ e.sess = d.sess
      /\ e.paid = [d.paid EXCEPT ![o] = @ + n]
      /\ e.ord = [d.ord EXCEPT ![o].pay = pay]
      /\ e = [x \in DOMAIN d |-> e[x]]
  BY <1>2 DEF DB
<1> HIDE DEF e
<1>5. e.paid \in [Row -> Nat]
  BY <1>4, RowsAre
<1>6. \A x \in Row : e.ord[x] = IF x = o THEN [d.ord[x] EXCEPT !.pay = pay] ELSE d.ord[x]
  BY <1>4, RowsAre DEF Shape
<1>7. \A x \in Row : /\ e.ord[x].st = d.ord[x].st
                     /\ e.ord[x].sess = d.ord[x].sess
                     /\ e.ord[x].total = d.ord[x].total
  BY <1>6, RowsAre DEF OrderRow
<1>8. e \in DB
  BY <1>3, <1>4, <1>5, RowsFrom DEF e
<1> QED
  BY <1>4, <1>7, <1>8 DEF e

\* The items split off become a row of their own.
LEMMA SplitOffRows ==
  ASSUME NEW d \in DB, NEW s \in Session, NEW o \in Row,
         NEW n \in Nat, n < d.ord[o].total, NEW x \in Extra, d.ord[x].st = "none", d.ord[o].st # "none"
  PROVE  SplitInto(d, o, n, x, SplitOff(d, s, o, n, x))
<1> DEFINE new == [NoOrder EXCEPT !.st = "completed", !.pay = "paid",
                                  !.sess = s, !.total = n]
           old == [d.ord[o] EXCEPT !.total = @ - n]
           split == [d EXCEPT !.ord[o].total = @ - n, !.ord[x] = new]
           e == SplitOff(d, s, o, n, x)
<1>1. /\ new \in OrderRow /\ new.st = "completed" /\ new.total = n
  BY DEF NoOrder, OrderRow
<1>2. /\ old \in OrderRow /\ old.sess = d.ord[o].sess /\ old.st = d.ord[o].st
      /\ old.total = d.ord[o].total - n
  <2>1. d.ord[o] \in OrderRow /\ d.ord[o].total - n \in Nat
    BY RowsAre DEF OrderRow
  <2> QED
    BY <2>1 DEF OrderRow
<1>3. x \in Row /\ x # o
  BY DEF Row
<1>4. SplitOff(d, s, o, n, x)
        = IF OpenOf(split, s) = {} THEN Close(split, s, "paid") ELSE split
  BY DEF SplitOff
<1> HIDE DEF new
<1>5. /\ split.paid = d.paid /\ split.sess = d.sess /\ split.cur = d.cur
      /\ split.ord = [[d.ord EXCEPT ![o] = old] EXCEPT ![x] = new]
      /\ split = [y \in DOMAIN d |-> split[y]] /\ DOMAIN split = DOMAIN d
  BY <1>3 DEF DB
<1> HIDE DEF old, split
<1>6. /\ split.ord \in [Row -> OrderRow]
      /\ \A y \in Row : split.ord[y] = IF y = x THEN new ELSE IF y = o THEN old ELSE d.ord[y]
  BY <1>1, <1>2, <1>3, <1>5, RowsAre DEF Shape
<1>7. split \in DB
  <2>1. Shape(split)
    BY <1>5, <1>6, RowsAre DEF Shape
  <2> QED
    BY <1>5, <2>1, RowsAre, RowsFrom
<1>8. Close(split, s, "paid") \in DB /\ Close(split, s, "paid").ord = split.ord
      /\ Close(split, s, "paid").paid = split.paid
  BY <1>7, CloseRows
<1>9. e \in DB /\ e.ord = split.ord /\ e.paid = d.paid
  BY <1>4, <1>5, <1>7, <1>8
<1> HIDE DEF e
<1> QED
  BY <1>1, <1>2, <1>3, <1>6, <1>9 DEF SplitInto, e

\* Items move between two rows; a new row starts empty.
LEMMA MoveItemsRows ==
  ASSUME NEW d \in DB, NEW s \in Session, NEW o \in Row,
         NEW n \in Nat, n < d.ord[o].total, d.ord[o].st # "none",
         NEW x \in Row, d.ord[x].st = "none" => x \in Extra
  PROVE  MovedInto(d, s, o, n, x, MoveItems(d, s, o, n, x))
<1> DEFINE new == [NoOrder EXCEPT !.st = "open", !.sess = s]
           into == IF d.ord[x].st = "none" THEN [d EXCEPT !.ord[x] = new] ELSE d
           out == [into EXCEPT !.ord[o].total = @ - n]
           e == MoveItems(d, s, o, n, x)
<1>1. new \in OrderRow /\ new.st = "open" /\ new.sess = s /\ new.pay = "unpaid" /\ new.total = 0
  BY DEF NoOrder, OrderRow
<1>2. e = [out EXCEPT !.ord[x].total = @ + n]
  BY DEF MoveItems
<1>3. /\ d.ord[o] \in OrderRow /\ d.ord[x] \in OrderRow
      /\ d.ord[o].total \in Nat /\ d.ord[x].total \in Nat /\ d.ord[o].total - n \in Nat
  BY RowsAre DEF OrderRow
<1> HIDE DEF new
<1>4. /\ into \in DB /\ into.cur = d.cur /\ into.sess = d.sess /\ into.paid = d.paid
      /\ \A y \in Row : into.ord[y] = IF y = x /\ d.ord[x].st = "none" THEN new ELSE d.ord[y]
  <2>1. CASE d.ord[x].st = "none"
    <3>1. [d EXCEPT !.ord[x] = new] \in DB
      BY <1>1 DEF DB
    <3> QED
      BY <1>1, <2>1, <3>1 DEF DB
  <2>2. CASE d.ord[x].st # "none"
    BY <2>2
  <2> QED
    BY <2>1, <2>2
<1> HIDE DEF into
<1>5. into.ord[o] = d.ord[o] /\ into.ord \in [Row -> OrderRow]
  BY <1>4 DEF DB
<1>6. \A y \in OrderRow : \A k \in Nat :
        LET z == [y EXCEPT !.total = k]
        IN  z \in OrderRow /\ z.st = y.st /\ z.sess = y.sess /\ z.pay = y.pay /\ z.total = k
  BY DEF OrderRow
<1> DEFINE rest == [into.ord[o] EXCEPT !.total = d.ord[o].total - n]
<1>7. /\ out.cur = d.cur /\ out.sess = d.sess /\ out.paid = d.paid
      /\ out.ord = [into.ord EXCEPT ![o] = rest]
      /\ out = [y \in DOMAIN into |-> out[y]] /\ DOMAIN out = DOMAIN into
  BY <1>4, <1>5 DEF DB
<1>8. /\ rest \in OrderRow /\ rest.st = d.ord[o].st /\ rest.sess = d.ord[o].sess
      /\ rest.pay = d.ord[o].pay /\ rest.total = d.ord[o].total - n
  BY <1>3, <1>5, <1>6
<1> HIDE DEF out, rest
<1>9. /\ out.ord \in [Row -> OrderRow]
      /\ \A y \in Row : out.ord[y] = IF y = o THEN rest ELSE into.ord[y]
  BY <1>5, <1>7, <1>8
<1>10. out \in DB
  <2>1. Shape(out)
    BY <1>4, <1>7, <1>9, RowsAre DEF Shape
  <2> QED
    BY <1>4, <1>7, <2>1, RowsAre, RowsFrom
<1>11. out.ord[x] \in OrderRow /\ out.ord[x].total \in Nat /\ out.ord[x].total + n \in Nat
  BY <1>9 DEF OrderRow
<1> DEFINE more == [out.ord[x] EXCEPT !.total = out.ord[x].total + n]
<1>12. /\ e.cur = d.cur /\ e.sess = d.sess /\ e.paid = d.paid
       /\ e.ord = [out.ord EXCEPT ![x] = more]
       /\ e = [y \in DOMAIN out |-> e[y]] /\ DOMAIN e = DOMAIN out
  BY <1>2, <1>7, <1>10 DEF DB
<1>13. /\ more \in OrderRow /\ more.st = out.ord[x].st /\ more.sess = out.ord[x].sess
       /\ more.pay = out.ord[x].pay /\ more.total = out.ord[x].total + n
  BY <1>6, <1>11
<1> HIDE DEF e, more
<1>14. /\ e.ord \in [Row -> OrderRow]
       /\ \A y \in Row : e.ord[y] = IF y = x THEN more ELSE out.ord[y]
  BY <1>9, <1>12, <1>13
<1>15. e \in DB
  <2>1. Shape(e)
    BY <1>10, <1>12, <1>14, RowsAre DEF Shape
  <2> QED
    BY <1>10, <1>12, <2>1, RowsAre, RowsFrom
<1>16. \A y \in Row :
         /\ e.ord[y].st = into.ord[y].st
         /\ e.ord[y].sess = into.ord[y].sess
         /\ e.ord[y].pay = into.ord[y].pay
  BY <1>5, <1>8, <1>9, <1>13, <1>14
<1>17. ASSUME x = o, NEW y \in Row PROVE e.ord[y].total = d.ord[y].total
  <2>1. CASE y = x
    <3>1. e.ord[y].total = (d.ord[o].total - n) + n
      BY <1>8, <1>9, <1>13, <1>14, <1>17, <2>1
    <3> QED
      BY <1>3, <1>17, <2>1, <3>1
  <2>2. CASE y # x
    BY <1>4, <1>9, <1>14, <1>17, <2>2
  <2> QED
    BY <2>1, <2>2
<1>18. ASSUME x # o, NEW y \in Row
       PROVE  e.ord[y].total = IF y = x THEN (IF d.ord[x].st = "none" THEN 0 ELSE d.ord[x].total) + n
                               ELSE IF y = o THEN d.ord[o].total - n
                               ELSE d.ord[y].total
  <2>1. CASE y = x
    <3>1. e.ord[y].total = into.ord[x].total + n
      BY <1>9, <1>13, <1>14, <1>18, <2>1
    <3> QED
      BY <1>1, <1>4, <2>1, <3>1
  <2>2. CASE y = o
    BY <1>8, <1>9, <1>14, <1>18, <2>2
  <2>3. CASE y # o /\ y # x
    BY <1>4, <1>9, <1>14, <2>3
  <2> QED
    BY <2>1, <2>2, <2>3
<1>19. \A y \in Row :
         /\ into.ord[y].st = IF y = x /\ d.ord[x].st = "none" THEN "open" ELSE d.ord[y].st
         /\ into.ord[y].sess = IF y = x /\ d.ord[x].st = "none" THEN s ELSE d.ord[y].sess
         /\ into.ord[y].pay = IF y = x /\ d.ord[x].st = "none" THEN "unpaid" ELSE d.ord[y].pay
  BY <1>1, <1>4
<1> QED
  BY <1>12, <1>15, <1>16, <1>17, <1>18, <1>19 DEF MovedInto, e

\* A session that moves to another table keeps its bill.
LEMMA MoveTableRows ==
  ASSUME NEW v \in DB, NEW d \in DB, NEW t \in Table, NEW u \in Table,
         v.cur[t] # NoSession
  PROVE  LET e == MoveTable(v, d, t, u)
         IN  /\ e \in DB /\ e.ord = d.ord /\ e.paid = d.paid
             /\ \A s \in Session : e.sess[s].st = d.sess[s].st
<1> DEFINE e == MoveTable(v, d, t, u)
<1>0. Shape(v) /\ Shape(d)
  BY RowsAre
<1>1. Shape(e)
  BY <1>0, MoveTableDoes
<1>2. /\ e.ord = d.ord /\ e.sess = [d.sess EXCEPT ![v.cur[t]].table = u]
      /\ e.paid = d.paid /\ e = [x \in DOMAIN d |-> e[x]]
  BY DEF DB, MoveTable
<1> HIDE DEF e
<1>3. \A s \in Session : e.sess[s].st = d.sess[s].st
  BY <1>2 DEF DB, SessionRow
<1>4. e \in DB
  BY <1>1, <1>2, RowsAre, RowsFrom
<1> QED
  BY <1>2, <1>3, <1>4 DEF e

\* Merging tables: every order of one session goes to the other.
LEMMA MergeRows ==
  ASSUME NEW v \in DB, NEW d \in DB, NEW t \in Table, NEW u \in Table,
         v.cur[t] # NoSession, v.cur[u] # NoSession
  PROVE  MergedInto(d, v.cur[t], v.cur[u], Merge(v, d, t, u))
<1> DEFINE e == Merge(v, d, t, u)
           rows == [o \in Row |-> IF d.ord[o].sess = v.cur[t]
                      THEN [d.ord[o] EXCEPT !.sess = v.cur[u]] ELSE d.ord[o]]
<1>1. Shape(e)
  BY RowsAre, MergeDoes
<1>2. e = [d EXCEPT !.ord = rows, !.sess[v.cur[t]].st = "paid", !.cur[t] = NoSession]
  BY DEF Merge
<1> HIDE DEF rows
<1>3. /\ e.ord = rows /\ e.paid = d.paid
      /\ e.sess = [d.sess EXCEPT ![v.cur[t]].st = "paid"]
      /\ e = [x \in DOMAIN d |-> e[x]]
  BY <1>2 DEF DB
<1> HIDE DEF e
<1>4. e \in DB
  BY <1>1, <1>3, RowsAre, RowsFrom
<1>5. \A o \in Row : /\ rows[o].total = d.ord[o].total
                     /\ rows[o].st = d.ord[o].st
                     /\ rows[o].pay = d.ord[o].pay
                     /\ rows[o].bulk = d.ord[o].bulk
                     /\ rows[o].sess = IF d.ord[o].sess = v.cur[t] THEN v.cur[u] ELSE d.ord[o].sess
  BY RowsAre DEF OrderRow, rows
<1> QED
  BY <1>3, <1>4, <1>5 DEF Ended, MergedInto, e

\* Cancelling a table cancels its bill and nothing else.
LEMMA CancelAllRows ==
  ASSUME NEW v \in DB, NEW d \in DB, NEW t \in Table
  PROVE  LET e == CancelAll(v, d, t)
             s == v.cur[t]
         IN  /\ s = NoSession => Restated(d, e, {}, "cancelled") /\ e.sess = d.sess
             /\ s # NoSession => Restated(d, e, BillOf(d, s), "cancelled") /\ Ended(d, e, s, "cancelled")
<1> DEFINE s == v.cur[t]
           S == BillOf(d, s)
           freed == [d EXCEPT !.cur[t] = NoSession]
           rows == [o \in Row |-> IF d.ord[o].sess = s
                      THEN [d.ord[o] EXCEPT !.st = "cancelled"] ELSE d.ord[o]]
           e == CancelAll(v, d, t)
<1>1. freed \in DB /\ freed.ord = d.ord /\ freed.sess = d.sess /\ freed.paid = d.paid
  BY DEF DB
<1>2. Shape(e)
  BY RowsAre, CancelAllDoes
<1> HIDE DEF freed
<1>3. CASE s = NoSession
  <2>1. e = freed
    BY <1>3 DEF CancelAll, freed
  <2> HIDE DEF e
  <2> QED
    BY <1>1, <1>3, <2>1 DEF Restated, e
<1>4. CASE s # NoSession
  <2>1. e = [freed EXCEPT !.sess[s].st = "cancelled", !.ord = rows]
    BY <1>4 DEF CancelAll, freed
  <2>2. /\ \A o \in Row \cap S : rows[o] = [d.ord[o] EXCEPT !.st = "cancelled"]
        /\ \A o \in Row \ S : rows[o] = d.ord[o]
    BY DEF BillOf
  <2> HIDE DEF rows
  <2>3. /\ e.ord = rows /\ e.paid = d.paid
        /\ e.sess = [d.sess EXCEPT ![s].st = "cancelled"]
        /\ e = [x \in DOMAIN freed |-> e[x]]
    BY <1>1, <2>1 DEF DB
  <2> HIDE DEF e
  <2>4. e \in DB
    BY <1>1, <1>2, <2>3, RowsAre, RowsFrom DEF e
  <2> HIDE DEF S
  <2>5. Restated(d, e, S, "cancelled")
    BY <2>2, <2>3, <2>4, RestatedBy
  <2> QED
    BY <1>4, <2>3, <2>5 DEF Ended, e, S
<1> QED
  BY <1>3, <1>4

-----------------------------------------------------------------------------
(* Requests that overlap, every call: what the rows add up to *)

\* Rows that are not there yet carry nothing.
Blank(d) ==
  \A o \in Row : d.ord[o].st = "none" => d.ord[o].total = 0 /\ d.ord[o].sess = NoSession

Placed(d) == {o \in Order : d.ord[o].st # "none"}

Balanced(d) == Totals(d, Row) = SumFunctionOnSet(Price, Placed(d))

\* No row is added, and every row keeps its total.
Rewritten(d, e) ==
  /\ e \in DB
  /\ \A o \in Row : /\ e.ord[o].total = d.ord[o].total
                    /\ e.ord[o].st = "none" <=> d.ord[o].st = "none"
                    /\ d.ord[o].st = "none" => e.ord[o].sess = d.ord[o].sess

\* What one commit leaves true of the bills.
Billed(d, e, but) ==
  /\ e \in DB
  /\ Blank(e)
  /\ Balanced(e)
  /\ RowsKept(d, e)
  /\ BulkKept(d, e, but)
  /\ \A o \in Order \ but : d.ord[o].st = "none" => e.ord[o].st = "none"

\* The rows can be added up.
LEMMA RowFinite == IsFiniteSet(Row)
BY RowAssumption, FS_Union DEF Row

\* The amounts added up are natural numbers.
LEMMA TotalsAre ==
  ASSUME NEW d \in DB
  PROVE  \A o \in Row : [x \in Row |-> d.ord[x].total][o] = d.ord[o].total
                        /\ [x \in Row |-> d.ord[x].total][o] \in Nat
BY RowsAre DEF OrderRow

\* A handler that only rewrites rows leaves the sum of the items.
LEMMA RewrittenBilled ==
  ASSUME NEW d \in DB, Blank(d), Balanced(d), NEW e, Rewritten(d, e), BulkKept(d, e, {}), NEW but
  PROVE  Billed(d, e, but)
<1>1. e \in DB
  BY DEF Rewritten
<1>2. Blank(e) /\ RowsKept(d, e)
  BY DEF Rewritten, Blank, RowsKept
<1>3. Totals(e, Row) = Totals(d, Row)
  <2>1. [o \in Row |-> e.ord[o].total] = [o \in Row |-> d.ord[o].total]
    BY DEF Rewritten
  <2> QED
    BY <2>1 DEF Totals
<1>4. Placed(e) = Placed(d)
  BY DEF Placed, Rewritten, Row
<1>5. Balanced(e)
  BY <1>3, <1>4 DEF Balanced
<1>6. BulkKept(d, e, but)
  BY DEF BulkKept
<1>7. \A o \in Order \ but : d.ord[o].st = "none" => e.ord[o].st = "none"
  BY DEF Rewritten, Row
<1> QED
  BY <1>1, <1>2, <1>5, <1>6, <1>7 DEF Billed

\* A handler may do both, one after the other.
LEMMA BilledAgain ==
  ASSUME NEW d, NEW b, NEW e, NEW but, Billed(d, b, but), Billed(b, e, but)
  PROVE  Billed(d, e, but)
BY DEF Billed, RowsKept, BulkKept

\* A new order adds its price to both sides.
LEMMA PlaceBilled ==
  ASSUME NEW v \in DB, NEW d \in DB, Blank(d), Balanced(d), NEW n \in Session,
         NEW r \in PlaceRequest, v.ord[r.o].st = "none" => d.ord[r.o].st = "none"
  PROVE  Billed(d, Place(v, d, r, n), {r.o})
<1> r.o \in Order /\ r.o \in Row
  BY DEF PlaceRequest, Row
<1> DEFINE e == Place(v, d, r, n)
           row == Ordered(r, Found(v, r, n))
<1>0. RowsKept(d, e) /\ BulkKept(d, e, {r.o})
  BY RowsAre, PlaceDoes DEF BulkKept
<1>1. CASE v.ord[r.o].st # "none"
  <2>1. e = d
    BY <1>1 DEF Place
  <2> QED
    BY <1>0, <2>1 DEF Billed
<1>2. CASE v.ord[r.o].st = "none"
  <2>1. e \in DB /\ Found(v, r, n) \in Session
    BY <1>2, PlaceRows
  <2>3. \A o \in Row : e.ord[o] = IF o = r.o THEN row ELSE d.ord[o]
    BY <1>2, PlaceRows
  <2>2. row.total = Price[r.o] /\ row.st = "open" /\ Price[r.o] \in Nat
    BY PriceAssumption DEF Ordered, NoOrder
  <2> HIDE DEF e, row
  <2>4. Blank(e) /\ \A o \in Order \ {r.o} : d.ord[o].st = "none" => e.ord[o].st = "none"
    BY <2>2, <2>3 DEF Blank, Row
  <2>5. PICK f : f = [o \in Row |-> d.ord[o].total]
    OBVIOUS
  <2>6. PICK g : g = [o \in Row |-> e.ord[o].total]
    OBVIOUS
  <2>7. /\ \A o \in Row : f[o] \in Nat /\ g[o] \in Nat
        /\ \A o \in Row \ {r.o} : g[o] = f[o]
        /\ g[r.o] = Price[r.o] /\ f[r.o] = 0
    <3>1. d.ord[r.o].total = 0
      BY <1>2 DEF Blank
    <3> QED
      BY <2>1, <2>2, <2>3, <2>5, <2>6, <3>1, TotalsAre
  <2>8. SumFunctionOnSet(g, Row) + f[r.o] = SumFunctionOnSet(f, Row) + g[r.o]
    BY <2>7, RowFinite, SumChange
  <2>9. SumFunctionOnSet(g, Row) \in Nat /\ SumFunctionOnSet(f, Row) \in Nat
    BY <2>7, RowFinite, SumNat
  <2>10. PICK S : S = Placed(e)
    OBVIOUS
  <2>11. r.o \in S /\ S \ {r.o} = Placed(d) /\ S \subseteq Order
    BY <1>2, <2>2, <2>3, <2>10 DEF Placed, Row
  <2>12. IsFiniteSet(S) /\ \A o \in S : Price[o] \in Nat
    BY <2>11, RowAssumption, PriceAssumption, FS_Subset
  <2>13. SumFunctionOnSet(Price, S) = Price[r.o] + SumFunctionOnSet(Price, S \ {r.o})
    BY <2>11, <2>12, SumTake
  <2>14. IsFiniteSet(S \ {r.o}) /\ S \ {r.o} \subseteq S
    BY <2>12, FS_Subset
  <2>15. PICK T : T = S \ {r.o}
    OBVIOUS
  <2>16. SumFunctionOnSet(Price, T) \in Nat
    BY <2>12, <2>14, <2>15, SumNat
  <2>17. SumFunctionOnSet(f, Row) = SumFunctionOnSet(Price, T)
    BY <2>5, <2>11, <2>15 DEF Balanced, Totals
  <2>18. SumFunctionOnSet(g, Row) = SumFunctionOnSet(Price, S)
    BY <2>2, <2>7, <2>8, <2>9, <2>13, <2>15, <2>16, <2>17
  <2>19. Balanced(e)
    BY <2>6, <2>10, <2>18 DEF Balanced, Totals
  <2> QED
    BY <1>0, <2>1, <2>4, <2>19 DEF Billed, e
<1> QED
  BY <1>1, <1>2

\* Items that go from one row to another.
LEMMA MovedBalanced ==
  ASSUME NEW d \in DB, Balanced(d), NEW e \in DB, NEW o \in Row, NEW x \in Row, x # o,
         NEW n \in Nat, e.ord[x].total = d.ord[x].total + n, d.ord[o].total = e.ord[o].total + n,
         \A y \in Row \ {x, o} : e.ord[y].total = d.ord[y].total,
         Placed(e) = Placed(d)
  PROVE  Balanced(e)
<1>1. PICK f : f = [y \in Row |-> d.ord[y].total]
  OBVIOUS
<1>2. PICK g : g = [y \in Row |-> e.ord[y].total]
  OBVIOUS
<1>3. /\ \A y \in Row : f[y] \in Nat /\ g[y] \in Nat
      /\ \A y \in Row \ {x, o} : g[y] = f[y]
      /\ g[x] = f[x] + n /\ f[o] = g[o] + n
  BY <1>1, <1>2, TotalsAre
<1>4. SumFunctionOnSet(g, Row) = SumFunctionOnSet(f, Row)
  BY <1>3, RowFinite, SumMove
<1> QED
  BY <1>1, <1>2, <1>4 DEF Balanced, Totals

\* Splitting a bill moves items to a row that was blank.
LEMMA SplitOffBilled ==
  ASSUME NEW d \in DB, Blank(d), Balanced(d), NEW s \in Session, NEW o \in Row,
         NEW n \in Nat, n < d.ord[o].total, NEW x \in Extra, d.ord[x].st = "none", NEW but
  PROVE  Billed(d, SplitOff(d, s, o, n, x), but)
<1> DEFINE e == SplitOff(d, s, o, n, x)
<1>0. x \in Row /\ x \notin Order /\ d.ord[o].total \in Nat
  BY NoneAssumption, RowsAre DEF Row, OrderRow
<1>1. d.ord[o].st # "none" /\ d.ord[x].total = 0 /\ x # o
  BY <1>0 DEF Blank
<1>2. Shape(d)
  BY RowsAre
<1>3. RowsKept(d, e) /\ BulkKept(d, e, {})
  BY <1>2, SplitOffDoes
<1>4. SplitInto(d, o, n, x, e)
  BY <1>1, SplitOffRows
<1> HIDE DEF e
<1>5. Blank(e)
  BY <1>1, <1>4 DEF Blank, SplitInto
<1>6. Placed(e) = Placed(d)
  BY <1>0, <1>4 DEF Placed, Row, SplitInto
<1>7. /\ e.ord[x].total = d.ord[x].total + n
      /\ d.ord[o].total = e.ord[o].total + n
      /\ \A y \in Row \ {x, o} : e.ord[y].total = d.ord[y].total
  BY <1>0, <1>1, <1>4 DEF SplitInto
<1>8. Balanced(e)
  BY <1>0, <1>1, <1>4, <1>6, <1>7, MovedBalanced DEF SplitInto
<1>9. \A y \in Order : d.ord[y].st = "none" => e.ord[y].st = "none"
  BY <1>0, <1>4 DEF Row, SplitInto
<1> QED
  BY <1>3, <1>4, <1>5, <1>8, <1>9 DEF Billed, BulkKept, SplitInto, e

\* So does a transfer of items, to a new row or an open one.
LEMMA MoveItemsBilled ==
  ASSUME NEW d \in DB, Blank(d), Balanced(d), NEW s \in Session, NEW o \in Row,
         NEW n \in Nat, n < d.ord[o].total,
         NEW x \in Row, d.ord[x].st = "none" => x \in Extra, NEW but
  PROVE  Billed(d, MoveItems(d, s, o, n, x), but)
<1> DEFINE e == MoveItems(d, s, o, n, x)
<1>0. x \in Extra => x \notin Order
  BY NoneAssumption
<1>1. /\ d.ord[o].st # "none" /\ d.ord[o].total \in Nat /\ d.ord[x].total \in Nat
      /\ d.ord[x].st = "none" => d.ord[x].total = 0
  BY RowsAre DEF Blank, OrderRow
<1>2. Shape(d)
  BY RowsAre
<1>3. RowsKept(d, e) /\ BulkKept(d, e, {})
  BY <1>1, <1>2, MoveItemsDoes
<1>4. MovedInto(d, s, o, n, x, e)
  BY <1>1, MoveItemsRows
<1> HIDE DEF e
<1>5. Blank(e)
  <2> SUFFICES ASSUME NEW y \in Row, e.ord[y].st = "none"
               PROVE  e.ord[y].total = 0 /\ e.ord[y].sess = NoSession
    BY DEF Blank
  <2>1. d.ord[y].st = "none" /\ y # x
    BY <1>4 DEF MovedInto
  <2>2. y # o
    BY <1>1, <2>1
  <2> QED
    BY <1>4, <2>1, <2>2 DEF Blank, MovedInto
<1>6. \A y \in Order : e.ord[y].st = d.ord[y].st
  BY <1>0, <1>4 DEF Row, MovedInto
<1>7. Placed(e) = Placed(d)
  BY <1>6 DEF Placed
<1>8. Balanced(e)
  <2>1. CASE x = o
    <3>1. [y \in Row |-> e.ord[y].total] = [y \in Row |-> d.ord[y].total]
      BY <1>4, <2>1 DEF MovedInto
    <3> QED
      BY <1>7, <3>1 DEF Balanced, Totals
  <2>2. CASE x # o
    <3>1. /\ e.ord[x].total = d.ord[x].total + n
          /\ d.ord[o].total = e.ord[o].total + n
          /\ \A y \in Row \ {x, o} : e.ord[y].total = d.ord[y].total
      BY <1>1, <1>4, <2>2 DEF MovedInto
    <3> QED
      BY <1>4, <1>7, <2>2, <3>1, MovedBalanced DEF MovedInto
  <2> QED
    BY <2>1, <2>2
<1> QED
  BY <1>3, <1>4, <1>5, <1>6, <1>8 DEF Billed, BulkKept, MovedInto, e

\* The calls that change the status of an order's row.
Status == {"serve", "cancel", "kitchen", "kitchenCancel"}

\* A request in progress, whatever the others did to the rows since.
Waiting(r, v, d) ==
  /\ RowsKept(v, d)
  /\ r.call \in Placing /\ v.ord[r.o].st = "none" => d.ord[r.o].st = "none"
  /\ r.call = "checkout" /\ v.ord[r.o].st # "none" => d.ord[r.o].bulk
  /\ r.call \in Status => v.ord[r.o].st # "none"

\* The inductive invariant behind TypeOK and BillConserved.
BillInv ==
  /\ TypeOK
  /\ Blank(db)
  /\ Balanced(db)
  /\ \A w \in Worker : req[w] # NoRequest => Waiting(req[w], view[w], db)
  /\ \A w, x \in Worker : w # x /\ Places(w) /\ Places(x) => req[w].o # req[x].o

\* A checkout's payment adds no item.
LEMMA CheckoutBilled ==
  ASSUME NEW v \in DB, NEW d \in DB, Blank(d), Balanced(d), NEW n \in Session,
         NEW r \in PlaceRequest, v.ord[r.o].st = "none" => d.ord[r.o].st = "none",
         v.ord[r.o].st # "none" => d.ord[r.o].bulk
  PROVE  Billed(d, PayAtOnce(v, Place(v, d, r, n), r), {r.o})
<1> r.o \in Order /\ r.o \in Row /\ r.t \in Table
  BY DEF PlaceRequest, Row
<1> DEFINE b == Place(v, d, r, n)
           e == PayAtOnce(v, b, r)
<1>1. Billed(d, b, {r.o})
  BY PlaceBilled
<1>2. Shape(v) /\ Shape(d)
  BY RowsAre
<1>3. /\ v.ord[r.o].st # "none" => b = d
      /\ v.ord[r.o].st = "none" => b.ord[r.o].sess \in Session
  BY <1>2, PlaceDoes
<1>4. ~b.ord[r.o].bulk => b.ord[r.o].sess \in Session
  BY <1>3
<1>5. b \in DB /\ Blank(b) /\ Balanced(b)
  BY <1>1 DEF Billed
<1> HIDE DEF b
<1>6. Shape(b)
  BY <1>5, RowsAre
<1>7. BulkKept(b, e, {})
  BY <1>4, <1>6, PayAtOnceDoes
<1>8. PaidAtOnce(v, b, r, e)
  BY <1>4, <1>5, PayAtOnceRows
<1> HIDE DEF e
<1>9. Rewritten(b, e)
  BY <1>8 DEF Rewritten, PaidAtOnce, OpenOf
<1>10. Billed(b, e, {r.o})
  BY <1>5, <1>7, <1>9, RewrittenBilled
<1> QED
  BY <1>1, <1>10, BilledAgain DEF b, e

\* The handlers that only pay or close.
LEMMA PaymentsRewrite ==
  ASSUME NEW v \in DB, NEW d \in DB, NEW s \in Session
  PROVE  /\ Rewritten(d, PayAll(v, d, s))
         /\ \A n \in Nat : \A S : \A p \in [S -> 0..n] : Rewritten(d, PayShares(v, d, s, p))
<1>1. ASSUME NEW e, PaidAll(v, d, s, e) PROVE Rewritten(d, e)
  BY <1>1 DEF PaidAll, Rewritten, Live
<1>2. ASSUME NEW e, NEW S, NEW p, PaidShares(v, d, s, S, p, e) PROVE Rewritten(d, e)
  BY <1>2 DEF PaidShares, Rewritten
<1> QED
  BY <1>1, <1>2, PayAllRows, PaySharesRows

\* A payment of one order only rewrites rows.
LEMMA PayOneRewrites ==
  ASSUME NEW d \in DB, NEW o \in Row, NEW n \in Nat
  PROVE  Rewritten(d, PayOne(d, o, n))
BY PayOneRows DEF Rewritten

\* So does a change of status.
LEMMA RestatedRewrites ==
  ASSUME NEW d \in DB, NEW e, NEW S, NEW st \in {"open", "completed", "cancelled"},
         Restated(d, e, S, st), \A o \in S \cap Row : d.ord[o].st # "none"
  PROVE  Rewritten(d, e) /\ BulkKept(d, e, {})
BY DEF Restated, Rewritten, BulkKept, Row

\* The calls that change a status, then.
LEMMA StatusRewrites ==
  ASSUME NEW v \in DB, NEW d \in DB, NEW o \in Row, d.ord[o].st # "none"
  PROVE  /\ \A st \in {"open", "completed"} :
              Rewritten(d, SetRow(d, o, st)) /\ BulkKept(d, SetRow(d, o, st), {})
         /\ Rewritten(d, CancelOne(v, d, o)) /\ BulkKept(d, CancelOne(v, d, o), {})
<1>1. ASSUME NEW st \in {"open", "completed"}
      PROVE  Rewritten(d, SetRow(d, o, st)) /\ BulkKept(d, SetRow(d, o, st), {})
  <2>1. Restated(d, SetRow(d, o, st), {o}, st)
    BY SetRowRows
  <2> QED
    BY <2>1, RestatedRewrites
<1>2. Rewritten(d, CancelOne(v, d, o)) /\ BulkKept(d, CancelOne(v, d, o), {})
  <2>1. Restated(d, CancelOne(v, d, o), {o}, "cancelled")
    BY CancelOneRows
  <2> QED
    BY <2>1, RestatedRewrites
<1> QED
  BY <1>1, <1>2

\* And the calls about tables.
LEMMA TablesRewrite ==
  ASSUME NEW v \in DB, NEW d \in DB, Blank(d), NEW t \in Table
  PROVE  /\ \A n \in Session : Rewritten(d, OpenSession(d, t, n)) /\ BulkKept(d, OpenSession(d, t, n), {})
         /\ \A u \in Table : v.cur[t] # NoSession =>
              Rewritten(d, MoveTable(v, d, t, u)) /\ BulkKept(d, MoveTable(v, d, t, u), {})
         /\ \A u \in Table : v.cur[t] # NoSession /\ v.cur[u] # NoSession =>
              Rewritten(d, Merge(v, d, t, u)) /\ BulkKept(d, Merge(v, d, t, u), {})
         /\ Rewritten(d, CancelAll(v, d, t)) /\ BulkKept(d, CancelAll(v, d, t), {})
<1>0. ASSUME NEW e \in DB, e.ord = d.ord
      PROVE  Rewritten(d, e) /\ BulkKept(d, e, {})
  BY <1>0 DEF Rewritten, BulkKept
<1>1. ASSUME NEW n \in Session
      PROVE  Rewritten(d, OpenSession(d, t, n)) /\ BulkKept(d, OpenSession(d, t, n), {})
  BY <1>0, OpenSessionRows
<1>2. ASSUME NEW u \in Table, v.cur[t] # NoSession
      PROVE  Rewritten(d, MoveTable(v, d, t, u)) /\ BulkKept(d, MoveTable(v, d, t, u), {})
  <2>1. MoveTable(v, d, t, u) \in DB /\ MoveTable(v, d, t, u).ord = d.ord
    BY <1>2, MoveTableRows
  <2> QED
    BY <1>0, <2>1
<1>3. ASSUME NEW u \in Table, v.cur[t] # NoSession, v.cur[u] # NoSession
      PROVE  Rewritten(d, Merge(v, d, t, u)) /\ BulkKept(d, Merge(v, d, t, u), {})
  <2> DEFINE e == Merge(v, d, t, u)
  <2>1. MergedInto(d, v.cur[t], v.cur[u], e)
    BY <1>3, MergeRows
  <2> HIDE DEF e
  <2> QED
    BY <1>3, <2>1 DEF MergedInto, Rewritten, Blank, BulkKept, Row, e
<1>4. Rewritten(d, CancelAll(v, d, t)) /\ BulkKept(d, CancelAll(v, d, t), {})
  <2>1. CASE v.cur[t] = NoSession
    <3>1. Restated(d, CancelAll(v, d, t), {}, "cancelled")
      BY <2>1, CancelAllRows
    <3> QED
      BY <3>1, RestatedRewrites
  <2>2. CASE v.cur[t] # NoSession
    <3>1. PICK S : S = BillOf(d, v.cur[t])
      OBVIOUS
    <3>2. Restated(d, CancelAll(v, d, t), S, "cancelled")
      BY <2>2, <3>1, CancelAllRows
    <3>3. \A o \in S \cap Row : d.ord[o].st # "none"
      BY <2>2, <3>1 DEF Blank, BillOf
    <3> QED
      BY <3>2, <3>3, RestatedRewrites
  <2> QED
    BY <2>1, <2>2
<1> QED
  BY <1>1, <1>2, <1>3, <1>4

\* The amount of a payment, and the number of items moved.
LEMMA AmountIs ==
  ASSUME NEW r \in Request, r.call \in {"sessionPayment", "payment", "transferItem"}
  PROVE  r.n \in Nat \ {0}
<1>1. Amount \subseteq Nat \ {0}
  BY BoundAssumption DEF Amount
<1>2. \/ r \in [call : {"sessionPayment"}, s : Session, n : Amount]
      \/ r \in [call : {"payment"}, o : Row, n : Amount]
      \/ r \in [call : {"transferItem"}, o : Row, n : Amount, u : Table]
  BY DEF Request
<1> QED
  BY <1>1, <1>2

\* Every handler, whatever the others did since it read.
LEMMA BillHandler ==
  ASSUME BillInv, NEW w \in Worker, Handler(w) \/ Abort(w)
  PROVE  \E e : Commit(w, e) /\ Billed(db, e, Rewrites(w))
<1> DEFINE r == req[w]
           v == view[w]
<1>1. /\ db \in DB /\ v \in DB /\ Shape(db) /\ Blank(db) /\ Balanced(db)
      /\ r # NoRequest => Waiting(r, v, db) /\ r \in Request
  BY RowsAre DEF BillInv, TypeOK
<1>2. ASSUME NEW call, Handles(w, call)
      PROVE  r # NoRequest /\ r.call = call /\ Waiting(r, v, db) /\ r \in Request
  BY <1>1, <1>2 DEF Handles
<1>3. ASSUME r.call \in Placing, r # NoRequest
      PROVE  r \in PlaceRequest /\ Rewrites(w) = {r.o}
  BY <1>1, <1>3, RequestFields DEF Rewrites, Places, Handles, Placing
<1>4. Billed(db, db, Rewrites(w))
  BY <1>1 DEF Billed, RowsKept, BulkKept
<1>5. ASSUME NEW e, Rewritten(db, e), BulkKept(db, e, {})
      PROVE  Billed(db, e, Rewrites(w))
  BY <1>1, <1>5, RewrittenBilled
<1> HIDE DEF r, v
<1>6. CASE CreateOrder(w)
  <2>1. /\ r # NoRequest /\ r.call \in Placing /\ Waiting(r, v, db)
        /\ r \in PlaceRequest /\ Rewrites(w) = {r.o}
    BY <1>2, <1>3, <1>6 DEF CreateOrder, Placing
  <2>2. PICK n \in Session : Commit(w, Place(v, db, r, n))
    BY <1>6 DEF CreateOrder, r, v
  <2>3. v.ord[r.o].st = "none" => db.ord[r.o].st = "none"
    BY <2>1 DEF Waiting
  <2>4. Billed(db, Place(v, db, r, n), {r.o})
    BY <1>1, <2>1, <2>3, PlaceBilled
  <2> QED
    BY <2>1, <2>2, <2>4
<1>7. CASE Checkout(w)
  <2>1. /\ r # NoRequest /\ r.call = "checkout" /\ Waiting(r, v, db)
        /\ r \in PlaceRequest /\ Rewrites(w) = {r.o}
    BY <1>2, <1>3, <1>7 DEF Checkout, Placing
  <2>2. PICK n \in Session : Commit(w, PayAtOnce(v, Place(v, db, r, n), r))
    BY <1>7 DEF Checkout, r, v
  <2>3. /\ v.ord[r.o].st = "none" => db.ord[r.o].st = "none"
        /\ v.ord[r.o].st # "none" => db.ord[r.o].bulk
    BY <2>1 DEF Waiting, Placing
  <2>4. Billed(db, PayAtOnce(v, Place(v, db, r, n), r), {r.o})
    BY <1>1, <2>1, <2>3, CheckoutBilled
  <2> QED
    BY <2>1, <2>2, <2>4
<1>8. CASE CheckoutSession(w)
  <2>1. r.s \in Session
    BY <1>2, <1>8, RequestFields DEF CheckoutSession
  <2>2. Commit(w, PayAll(v, db, r.s))
    BY <1>8 DEF CheckoutSession, r, v
  <2>3. Rewritten(db, PayAll(v, db, r.s)) /\ BulkKept(db, PayAll(v, db, r.s), {})
    BY <1>1, <2>1, PaymentsRewrite, PayAllDoes
  <2> QED
    BY <1>5, <2>2, <2>3
<1>9. CASE SessionPayment(w)
  <2>1. r.s \in Session /\ r.n \in Nat
    BY <1>2, <1>9, RequestFields, AmountIs DEF SessionPayment
  <2>2. PICK p \in Shares(v, r.s, r.n) : Commit(w, PayShares(v, db, r.s, p))
    BY <1>9 DEF SessionPayment, r, v
  <2>3. PICK S : S = UnpaidOf(v, r.s)
    OBVIOUS
  <2>4. p \in [S -> 0..r.n]
    BY <2>3 DEF Shares
  <2>5. Rewritten(db, PayShares(v, db, r.s, p))
    BY <1>1, <2>1, <2>4, PaymentsRewrite
  <2>6. BulkKept(db, PayShares(v, db, r.s, p), {})
    BY <1>1, <2>1, PaySharesDoes
  <2> QED
    BY <1>5, <2>2, <2>5, <2>6
<1>10. CASE Payment(w)
  <2>1. r.o \in Row /\ r.n \in Nat
    BY <1>2, <1>10, RequestFields, AmountIs DEF Payment
  <2>2. Commit(w, PayOne(db, r.o, r.n))
    BY <1>10 DEF Payment, r, v
  <2>4. Rewritten(db, PayOne(db, r.o, r.n))
    BY <1>1, <2>1, PayOneRewrites
  <2>5. BulkKept(db, PayOne(db, r.o, r.n), {})
    BY <1>1, <2>1, PayOneDoes
  <2> QED
    BY <1>5, <2>2, <2>4, <2>5
<1>11. CASE Split(w)
  <2>1. r.s \in Session /\ r.o \in Row /\ r.n \in Nat
    BY <1>2, <1>11, RequestFields DEF Split
  <2>2. PICK x \in Extra : db.ord[x].st = "none" /\ Commit(w, SplitOff(db, r.s, r.o, r.n, x))
    BY <1>11 DEF Split, NewRow, r, v
  <2>3. r.n < db.ord[r.o].total
    BY <1>11 DEF Split, r, v
  <2>4. Billed(db, SplitOff(db, r.s, r.o, r.n, x), Rewrites(w))
    BY <1>1, <2>1, <2>2, <2>3, SplitOffBilled
  <2> QED
    BY <2>2, <2>4
<1>12. CASE TransferItem(w)
  <2> DEFINE s == v.cur[r.u]
  <2>1. r.o \in Row /\ r.u \in Table /\ r.n \in Nat /\ Waiting(r, v, db)
    BY <1>2, <1>12, RequestFields DEF TransferItem
  <2>2. s \in Session
    BY <1>1, <1>12, <2>1 DEF TransferItem, DB, r, v
  <2>3. r.n < db.ord[r.o].total
    BY <1>12 DEF TransferItem, r, v
  <2>4. PICK x \in Row :
          /\ IF OpenOf(v, s) = {} THEN NewRow(x) ELSE x \in OpenOf(v, s)
          /\ Commit(w, MoveItems(db, s, r.o, r.n, x))
    BY <1>12 DEF TransferItem, r, v
  <2>5. db.ord[x].st = "none" => x \in Extra
    BY <2>1, <2>4 DEF NewRow, OpenOf, Live, Waiting, RowsKept
  <2> HIDE DEF s
  <2>6. Billed(db, MoveItems(db, s, r.o, r.n, x), Rewrites(w))
    BY <1>1, <2>1, <2>2, <2>3, <2>5, MoveItemsBilled
  <2> QED
    BY <2>4, <2>6
<1>13. CASE OpenTable(w)
  <2>1. r.t \in Table
    BY <1>2, <1>13, RequestFields DEF OpenTable
  <2>2. CASE HasSession(db, r.t)
    BY <1>4, <1>13, <2>2 DEF OpenTable, r
  <2>3. CASE ~HasSession(db, r.t)
    <3>1. PICK n \in Session : Commit(w, OpenSession(db, r.t, n))
      BY <1>13, <2>3 DEF OpenTable, r
    <3>2. Rewritten(db, OpenSession(db, r.t, n)) /\ BulkKept(db, OpenSession(db, r.t, n), {})
      BY <1>1, <2>1, TablesRewrite
    <3> QED
      BY <1>5, <3>1, <3>2
  <2> QED
    BY <2>2, <2>3
<1>14. CASE TransferTable(w)
  <2>1. r.t \in Table /\ r.u \in Table
    BY <1>2, <1>14, RequestFields DEF TransferTable
  <2>2. v.cur[r.t] # NoSession /\ Commit(w, MoveTable(v, db, r.t, r.u))
    BY <1>14 DEF TransferTable, r, v
  <2>3. Rewritten(db, MoveTable(v, db, r.t, r.u)) /\ BulkKept(db, MoveTable(v, db, r.t, r.u), {})
    BY <1>1, <2>1, <2>2, TablesRewrite
  <2> QED
    BY <1>5, <2>2, <2>3
<1>15. CASE MergeTables(w)
  <2>1. r.t \in Table /\ r.u \in Table
    BY <1>2, <1>15, RequestFields DEF MergeTables
  <2>2. v.cur[r.t] # NoSession /\ v.cur[r.u] # NoSession /\ Commit(w, Merge(v, db, r.t, r.u))
    BY <1>15 DEF MergeTables, r, v
  <2>3. Rewritten(db, Merge(v, db, r.t, r.u)) /\ BulkKept(db, Merge(v, db, r.t, r.u), {})
    BY <1>1, <2>1, <2>2, TablesRewrite
  <2> QED
    BY <1>5, <2>2, <2>3
<1>16. CASE CancelTable(w)
  <2>1. r.t \in Table
    BY <1>2, <1>16, RequestFields DEF CancelTable
  <2>2. Commit(w, CancelAll(v, db, r.t))
    BY <1>16 DEF CancelTable, r, v
  <2>3. Rewritten(db, CancelAll(v, db, r.t)) /\ BulkKept(db, CancelAll(v, db, r.t), {})
    BY <1>1, <2>1, TablesRewrite
  <2> QED
    BY <1>5, <2>2, <2>3
<1>17. ASSUME NEW call \in Status, Handles(w, call)
       PROVE  r.o \in Row /\ db.ord[r.o].st # "none"
  <2>1. r \in Request /\ r.call \in Status /\ Waiting(r, v, db)
    BY <1>2, <1>17
  <2>2. r.o \in Row
    BY <2>1, RequestFields DEF Status
  <2> QED
    BY <2>1, <2>2 DEF Waiting, RowsKept
<1>18. CASE ServeOrder(w) \/ KitchenTicket(w)
  <2>1. r.o \in Row /\ db.ord[r.o].st # "none"
    BY <1>17, <1>18 DEF ServeOrder, KitchenTicket, Status
  <2>2. PICK st \in {"open", "completed"} : Commit(w, SetRow(db, r.o, st))
    BY <1>18 DEF ServeOrder, KitchenTicket, r
  <2>3. Rewritten(db, SetRow(db, r.o, st)) /\ BulkKept(db, SetRow(db, r.o, st), {})
    BY <1>1, <2>1, StatusRewrites
  <2> QED
    BY <1>5, <2>2, <2>3
<1>19. CASE CancelOrder(w) \/ KitchenCancel(w)
  <2>1. r.o \in Row /\ db.ord[r.o].st # "none"
    BY <1>17, <1>19 DEF CancelOrder, KitchenCancel, Status
  <2>2. Commit(w, CancelOne(v, db, r.o))
    BY <1>19 DEF CancelOrder, KitchenCancel, r, v
  <2>3. Rewritten(db, CancelOne(v, db, r.o)) /\ BulkKept(db, CancelOne(v, db, r.o), {})
    BY <1>1, <2>1, StatusRewrites
  <2> QED
    BY <1>5, <2>2, <2>3
<1>20. CASE Abort(w)
  BY <1>4, <1>20 DEF Abort
<1> QED
  BY <1>6, <1>7, <1>8, <1>9, <1>10, <1>11, <1>12, <1>13, <1>14, <1>15, <1>16,
     <1>18, <1>19, <1>20 DEF Handler

\* A commit leaves the other requests what they need.
LEMMA BillCommit ==
  ASSUME BillInv, NEW w \in Worker, NEW e, Commit(w, e), Billed(db, e, Rewrites(w))
  PROVE  BillInv'
<1>1. /\ db' = e /\ e \in DB /\ Blank(e) /\ Balanced(e) /\ RowsKept(db, e)
      /\ BulkKept(db, e, Rewrites(w))
      /\ \A o \in Order \ Rewrites(w) : db.ord[o].st = "none" => e.ord[o].st = "none"
  BY DEF Commit, Billed
<1>2. Empty \in DB
  BY DEF Empty, DB, SessionRow, OrderRow, NoOrder
<1>3. /\ req' = [req EXCEPT ![w] = NoRequest]
      /\ view' = [view EXCEPT ![w] = Empty]
      /\ req \in [Worker -> Request \cup {NoRequest}]
      /\ view \in [Worker -> DB]
  BY DEF Commit, BillInv, TypeOK
<1>4. /\ req' \in [Worker -> Request \cup {NoRequest}]
      /\ view' \in [Worker -> DB]
      /\ req'[w] = NoRequest
      /\ \A x \in Worker : x # w => req'[x] = req[x] /\ view'[x] = view[x]
  BY <1>2, <1>3
<1>5. ASSUME NEW x \in Worker, req'[x] # NoRequest
      PROVE  Waiting(req'[x], view'[x], e)
  <2>1. x # w /\ req'[x] = req[x] /\ view'[x] = view[x] /\ req[x] \in Request
    BY <1>3, <1>4, <1>5
  <2>2. Waiting(req[x], view[x], db)
    BY <1>5, <2>1 DEF BillInv
  <2>3. RowsKept(view[x], e)
    BY <1>1, <2>2 DEF Waiting, RowsKept
  <2>4. req[x].call \in Placing => req[x].o \in Order \ Rewrites(w)
    <3> SUFFICES ASSUME req[x].call \in Placing PROVE req[x].o \in Order \ Rewrites(w)
      OBVIOUS
    <3>1. req[x].o \in Order
      BY <2>1, RequestFields DEF PlaceRequest
    <3>2. Places(x)
      BY <1>5, <2>1 DEF Places, Handles, Placing
    <3>3. req[x].o \notin Rewrites(w)
      BY <2>1, <3>2 DEF BillInv, Rewrites
    <3> QED
      BY <3>1, <3>3
  <2>5. req[x].call \in Placing /\ view[x].ord[req[x].o].st = "none" => e.ord[req[x].o].st = "none"
    BY <1>1, <2>2, <2>4 DEF Waiting
  <2>6. req[x].call = "checkout" /\ view[x].ord[req[x].o].st # "none" => e.ord[req[x].o].bulk
    BY <1>1, <2>2, <2>4 DEF Waiting, BulkKept, Placing
  <2>7. Waiting(req[x], view[x], e)
    BY <2>2, <2>3, <2>5, <2>6 DEF Waiting
  <2> QED
    BY <2>1, <2>7
<1>6. ASSUME NEW x \in Worker, NEW y \in Worker, x # y, Places(x)', Places(y)'
      PROVE  req'[x].o # req'[y].o
  <2>1. x # w /\ y # w
    BY <1>4, <1>6 DEF Places, Handles
  <2> QED
    BY <1>4, <1>6, <2>1 DEF BillInv, Places, Handles
<1>7. TypeOK'
  BY <1>1, <1>4 DEF TypeOK
<1> QED
  BY <1>1, <1>5, <1>6, <1>7 DEF BillInv

\* A new request fits the rows it has just read.
LEMMA BillBegin ==
  ASSUME BillInv, NEW w \in Worker, Begin(w)
  PROVE  BillInv'
<1>1. PICK r \in Request : Known(r) /\ req' = [req EXCEPT ![w] = r]
  BY DEF Begin
<1>2. /\ db' = db /\ view' = [view EXCEPT ![w] = db]
      /\ req[w] = NoRequest
      /\ req \in [Worker -> Request \cup {NoRequest}]
      /\ view \in [Worker -> DB]
      /\ db \in DB /\ Blank(db) /\ Balanced(db)
  BY DEF Begin, BillInv, TypeOK
<1>3. /\ req' \in [Worker -> Request \cup {NoRequest}]
      /\ view' \in [Worker -> DB]
      /\ req'[w] = r /\ view'[w] = db
      /\ \A x \in Worker : x # w => req'[x] = req[x] /\ view'[x] = view[x]
  BY <1>1, <1>2
<1>4. Waiting(r, db, db)
  <2>1. r.call = "checkout" /\ db.ord[r.o].st # "none" => db.ord[r.o].bulk
    BY <1>1, KnownFacts DEF Placing
  <2>2. r.call \in Status => db.ord[r.o].st # "none"
    BY <1>1 DEF Known, Status
  <2> QED
    BY <2>1, <2>2 DEF Waiting, RowsKept
<1>5. ASSUME NEW x \in Worker, req'[x] # NoRequest
      PROVE  Waiting(req'[x], view'[x], db)
  <2>1. CASE x = w
    BY <1>3, <1>4, <2>1
  <2>2. CASE x # w
    BY <1>3, <1>5, <2>2 DEF BillInv
  <2> QED
    BY <2>1, <2>2
<1>6. ASSUME NEW x \in Worker, NEW y \in Worker, x # y, Places(x)', Places(y)'
      PROVE  req'[x].o # req'[y].o
  <2>1. ASSUME r.call \in Placing, NEW z \in Worker, z # w, Places(z)'
        PROVE  req'[z].o # r.o
    BY <1>1, <1>3, <2>1, KnownFacts DEF Submitted, Places, Handles
  <2>2. CASE x # w /\ y # w
    BY <1>3, <1>6, <2>2 DEF BillInv, Places, Handles
  <2>3. CASE x = w
    BY <1>3, <1>6, <2>1, <2>3 DEF Places, Handles, Placing
  <2>4. CASE y = w
    BY <1>3, <1>6, <2>1, <2>4 DEF Places, Handles, Placing
  <2> QED
    BY <2>2, <2>3, <2>4
<1>7. TypeOK'
  BY <1>2, <1>3 DEF TypeOK
<1> QED
  BY <1>2, <1>5, <1>6, <1>7 DEF BillInv

\* BillInv holds in every behaviour, whatever overlaps.
LEMMA BillAlways == Spec => []BillInv
<1>1. Init => BillInv
  <2> SUFFICES ASSUME Init PROVE BillInv
    OBVIOUS
  <2>1. Empty \in DB /\ Blank(Empty)
    BY DEF Empty, DB, SessionRow, OrderRow, NoOrder, Blank
  <2>2. Balanced(Empty)
    <3>1. PICK f : f = [o \in Row |-> Empty.ord[o].total]
      OBVIOUS
    <3>2. \A o \in Row : f[o] = 0
      BY <3>1 DEF Empty, NoOrder
    <3>3. SumFunctionOnSet(f, Row) = 0
      BY <3>2, RowFinite, SumZero
    <3>4. Placed(Empty) = {}
      BY DEF Placed, Empty, NoOrder, Row
    <3> QED
      BY <3>1, <3>3, <3>4, SumEmpty DEF Balanced, Totals
  <2> QED
    BY <2>1, <2>2 DEF Init, TypeOK, BillInv, Places, Handles
<1>2. BillInv /\ [Next]_vars => BillInv'
  <2> SUFFICES ASSUME BillInv, [Next]_vars PROVE BillInv'
    OBVIOUS
  <2>1. CASE UNCHANGED vars
    BY <2>1 DEF BillInv, TypeOK, vars, Places, Handles
  <2>2. CASE Next
    <3> PICK w \in Worker : Begin(w) \/ Handler(w) \/ Abort(w)
      BY <2>2 DEF Next
    <3>1. CASE Begin(w)
      BY <3>1, BillBegin
    <3>2. CASE Handler(w) \/ Abort(w)
      BY <3>2, BillHandler, BillCommit
    <3> QED
      BY <3>1, <3>2
  <2> QED
    BY <2>1, <2>2
<1> QED
  BY <1>1, <1>2, PTL DEF Spec

\* The rows and the requests keep their types, sums of totals and of payments
\* included.
THEOREM TypeCorrect == Spec => []TypeOK
<1>1. BillInv => TypeOK
  BY DEF BillInv
<1> QED
  BY <1>1, BillAlways, PTL

\* Requests overlap as they like, with every call: the items of the rows are
\* those that were ordered, however bills are split, items and tables moved, or
\* requests undone.
THEOREM OverlapBill == Spec => []BillConserved
<1>1. BillInv => BillConserved
  BY DEF BillInv, Balanced, Placed, BillConserved
<1> QED
  BY <1>1, BillAlways, PTL

-----------------------------------------------------------------------------
(* One request at a time, bills paid in one way: what is charged *)

Payments(d, S) == SumFunctionOnSet(d.paid, S)
ChargedOf(d, s) == Payments(d, BillOf(d, s))

\* No order of the bill is charged more than it costs.
Within(d, s) == \A o \in BillOf(d, s) : d.paid[o] <= d.ord[o].total

\* An order that is there costs something and is of a session that was opened;
\* one that counts as paid is paid for.
RowOK(d, o) ==
  /\ d.ord[o].st = "none" =>
       d.paid[o] = 0 /\ d.ord[o].pay = "unpaid" /\ d.ord[o].sess = NoSession
  /\ d.ord[o].st # "none" =>
       /\ d.ord[o].total >= 1
       /\ d.ord[o].sess \in Session
       /\ d.sess[d.ord[o].sess].st # "none"
  /\ d.ord[o].pay = "paid" => d.paid[o] >= d.ord[o].total

\* A bill that can still be paid is charged order by order; a checkout charges
\* one order for all of them, and then the bill is closed.  A session that ended
\* as paid owes nothing, but for those in R.
SessOK(d, R, s) ==
  /\ ChargedOf(d, s) <= Totals(d, BillOf(d, s))
  /\ d.sess[s].st = "active" => Within(d, s)
  /\ d.sess[s].st = "paid" /\ s \notin R => ChargedOf(d, s) >= Totals(d, Live(d, s))

Money(d, R) ==
  /\ d \in DB
  /\ \A o \in Row : RowOK(d, o)
  /\ \A s \in Session : SessOK(d, R, s)

\* The bill stays as it is, but for orders that are cancelled.
SameBill(d, e, s) ==
  /\ BillOf(e, s) = BillOf(d, s)
  /\ Live(e, s) \subseteq Live(d, s)
  /\ \A o \in BillOf(d, s) : e.paid[o] = d.paid[o] /\ e.ord[o].total = d.ord[o].total
  /\ e.sess[s].st \in {d.sess[s].st, "cancelled"}

\* Sums over a bill are natural numbers.
LEMMA SumsTyped ==
  ASSUME NEW d \in DB, NEW S \in SUBSET Row
  PROVE  /\ IsFiniteSet(S)
         /\ Totals(d, S) \in Nat
         /\ Payments(d, S) \in Nat
<1>1. IsFiniteSet(S)
  BY RowFinite, FS_Subset
<1>2. PICK f : f = [o \in Row |-> d.ord[o].total]
  OBVIOUS
<1>3. \A o \in S : f[o] \in Nat
  BY <1>2, TotalsAre
<1>4. PICK g : g = d.paid
  OBVIOUS
<1>5. \A o \in S : g[o] \in Nat
  BY <1>4, RowsAre
<1>6. SumFunctionOnSet(f, S) \in Nat
  BY <1>1, <1>3, SumNat
<1>7. SumFunctionOnSet(g, S) \in Nat
  BY <1>1, <1>5, SumNat
<1> QED
  BY <1>1, <1>2, <1>4, <1>6, <1>7 DEF Totals, Payments

\* They only depend on the rows of the bill.
LEMMA SumsSame ==
  ASSUME NEW d \in DB, NEW e \in DB, NEW S \in SUBSET Row
  PROVE  /\ (\A o \in S : e.ord[o].total = d.ord[o].total) => Totals(e, S) = Totals(d, S)
         /\ (\A o \in S : e.paid[o] = d.paid[o]) => Payments(e, S) = Payments(d, S)
<1>1. IsFiniteSet(S)
  BY SumsTyped
<1>2. ASSUME \A o \in S : e.ord[o].total = d.ord[o].total
      PROVE  Totals(e, S) = Totals(d, S)
  <2>1. PICK f : f = [o \in Row |-> d.ord[o].total]
    OBVIOUS
  <2>2. PICK g : g = [o \in Row |-> e.ord[o].total]
    OBVIOUS
  <2>3. \A o \in S : f[o] \in Nat /\ f[o] = g[o]
    BY <1>2, <2>1, <2>2, TotalsAre
  <2>4. SumFunctionOnSet(f, S) = SumFunctionOnSet(g, S)
    BY <1>1, <2>3, SumEqual
  <2> QED
    BY <2>1, <2>2, <2>4 DEF Totals
<1>3. ASSUME \A o \in S : e.paid[o] = d.paid[o]
      PROVE  Payments(e, S) = Payments(d, S)
  <2>1. PICK f : f = d.paid
    OBVIOUS
  <2>2. PICK g : g = e.paid
    OBVIOUS
  <2>3. \A o \in S : f[o] \in Nat /\ f[o] = g[o]
    BY <1>3, <2>1, <2>2, RowsAre
  <2>4. SumFunctionOnSet(f, S) = SumFunctionOnSet(g, S)
    BY <1>1, <2>3, SumEqual
  <2> QED
    BY <2>1, <2>2, <2>4 DEF Payments
<1> QED
  BY <1>2, <1>3

\* They can be taken in two parts.
LEMMA SumsSplit ==
  ASSUME NEW d \in DB, NEW S \in SUBSET Row, NEW T \in SUBSET S
  PROVE  /\ Totals(d, S) = Totals(d, T) + Totals(d, S \ T)
         /\ Payments(d, S) = Payments(d, T) + Payments(d, S \ T)
         /\ Totals(d, T) <= Totals(d, S)
         /\ Payments(d, T) <= Payments(d, S)
<1>1. IsFiniteSet(S)
  BY SumsTyped
<1>2. PICK f : f = [o \in Row |-> d.ord[o].total]
  OBVIOUS
<1>3. \A o \in S : f[o] \in Nat
  BY <1>2, TotalsAre
<1>4. PICK g : g = d.paid
  OBVIOUS
<1>5. \A o \in S : g[o] \in Nat
  BY <1>4, RowsAre
<1>6. SumFunctionOnSet(f, S) = SumFunctionOnSet(f, T) + SumFunctionOnSet(f, S \ T)
  BY <1>1, <1>3, SumSplit
<1>7. SumFunctionOnSet(g, S) = SumFunctionOnSet(g, T) + SumFunctionOnSet(g, S \ T)
  BY <1>1, <1>5, SumSplit
<1>8. PICK U : U = S \ T
  OBVIOUS
<1>9. U \in SUBSET Row /\ T \in SUBSET Row
  BY <1>8
<1>10. /\ Totals(d, T) \in Nat /\ Totals(d, U) \in Nat
       /\ Payments(d, T) \in Nat /\ Payments(d, U) \in Nat
  BY <1>9, SumsTyped
<1>11. /\ Totals(d, S) = Totals(d, T) + Totals(d, U)
       /\ Payments(d, S) = Payments(d, T) + Payments(d, U)
  BY <1>2, <1>4, <1>6, <1>7, <1>8 DEF Totals, Payments
<1> QED
  BY <1>8, <1>10, <1>11

\* One row of a bill apart from the others.
LEMMA SumsTake ==
  ASSUME NEW d \in DB, NEW S \in SUBSET Row, NEW o \in S
  PROVE  /\ Totals(d, S) = d.ord[o].total + Totals(d, S \ {o})
         /\ Payments(d, S) = d.paid[o] + Payments(d, S \ {o})
<1>1. IsFiniteSet(S)
  BY SumsTyped
<1>2. PICK f : f = [x \in Row |-> d.ord[x].total]
  OBVIOUS
<1>3. PICK g : g = d.paid
  OBVIOUS
<1>4. \A x \in S : f[x] \in Nat /\ g[x] \in Nat /\ f[x] = d.ord[x].total
  BY <1>2, <1>3, TotalsAre, RowsAre
<1>5. SumFunctionOnSet(f, S) = f[o] + SumFunctionOnSet(f, S \ {o})
  BY <1>1, <1>4, SumTake
<1>6. SumFunctionOnSet(g, S) = g[o] + SumFunctionOnSet(g, S \ {o})
  BY <1>1, <1>4, SumTake
<1>7. f[o] = d.ord[o].total
  BY <1>4
<1> QED
  BY <1>2, <1>3, <1>5, <1>6, <1>7 DEF Totals, Payments

\* Row by row they compare as the rows do.
LEMMA SumsCompare ==
  ASSUME NEW d \in DB, NEW S \in SUBSET Row
  PROVE  /\ (\A o \in S : d.paid[o] <= d.ord[o].total) => Payments(d, S) <= Totals(d, S)
         /\ (\A o \in S : d.paid[o] >= d.ord[o].total) => Payments(d, S) >= Totals(d, S)
         /\ (\A o \in S : d.paid[o] = 0) => Payments(d, S) = 0
<1>1. IsFiniteSet(S)
  BY SumsTyped
<1>2. PICK f : f = [o \in Row |-> d.ord[o].total]
  OBVIOUS
<1>3. PICK g : g = d.paid
  OBVIOUS
<1>4. \A o \in S : f[o] = d.ord[o].total /\ f[o] \in Nat /\ g[o] = d.paid[o] /\ g[o] \in Nat
  BY <1>2, <1>3, TotalsAre, RowsAre
<1>5. ASSUME \A o \in S : d.paid[o] <= d.ord[o].total
      PROVE  SumFunctionOnSet(g, S) <= SumFunctionOnSet(f, S)
  BY <1>1, <1>4, <1>5, SumMonotonic
<1>6. ASSUME \A o \in S : d.paid[o] >= d.ord[o].total
      PROVE  SumFunctionOnSet(g, S) >= SumFunctionOnSet(f, S)
  <2>1. \A o \in S : f[o] \in Nat /\ g[o] \in Nat /\ f[o] <= g[o]
    BY <1>4, <1>6
  <2>2. SumFunctionOnSet(f, S) <= SumFunctionOnSet(g, S)
    BY <1>1, <2>1, SumMonotonic
  <2>3. SumFunctionOnSet(f, S) \in Nat
    BY <1>1, <1>4, SumNat
  <2>4. SumFunctionOnSet(g, S) \in Nat
    BY <1>1, <1>4, SumNat
  <2> QED
    BY <2>2, <2>3, <2>4
<1>7. ASSUME \A o \in S : d.paid[o] = 0
      PROVE  SumFunctionOnSet(g, S) = 0
  BY <1>1, <1>3, <1>7, SumZero
<1> QED
  BY <1>2, <1>3, <1>5, <1>6, <1>7 DEF Totals, Payments

\* The rows of a session, and those that were not cancelled.
LEMMA BillIs ==
  \A d, s : /\ BillOf(d, s) \in SUBSET Row
            /\ Live(d, s) \in SUBSET BillOf(d, s)
            /\ UnpaidOf(d, s) \subseteq Live(d, s)
            /\ OpenOf(d, s) \subseteq Live(d, s)
BY DEF BillOf, Live, UnpaidOf, OpenOf

\* A bill that stays, or loses orders, stays right.
LEMMA SameBillOK ==
  ASSUME NEW R, NEW d \in DB, NEW e \in DB, NEW s \in Session, SessOK(d, R, s), SameBill(d, e, s)
  PROVE  SessOK(e, R, s)
<1>1. PICK B : B = BillOf(d, s)
  OBVIOUS
<1>2. PICK L : L = Live(e, s)
  OBVIOUS
<1>3. PICK K : K = Live(d, s)
  OBVIOUS
<1>4. /\ B \in SUBSET Row /\ BillOf(e, s) = B
      /\ K \in SUBSET B /\ L \in SUBSET K /\ L \in SUBSET Row /\ K \in SUBSET Row
      /\ \A o \in B : e.paid[o] = d.paid[o] /\ e.ord[o].total = d.ord[o].total
  BY <1>1, <1>2, <1>3, BillIs DEF SameBill
<1>5. Payments(e, B) = Payments(d, B) /\ Totals(e, B) = Totals(d, B)
  BY <1>4, SumsSame
<1>6. Totals(e, L) = Totals(d, L)
  BY <1>4, SumsSame
<1>7. Totals(d, L) <= Totals(d, K)
  BY <1>4, SumsSplit
<1>8. /\ Totals(d, L) \in Nat /\ Totals(d, K) \in Nat
      /\ Payments(d, B) \in Nat
  BY <1>4, SumsTyped
<1>9. ChargedOf(e, s) <= Totals(e, BillOf(e, s))
  BY <1>1, <1>4, <1>5 DEF SessOK, ChargedOf
<1>10. e.sess[s].st = "active" => Within(e, s)
  BY <1>1, <1>4 DEF SessOK, SameBill, Within
<1>11. ASSUME e.sess[s].st = "paid", s \notin R
       PROVE  ChargedOf(e, s) >= Totals(e, Live(e, s))
  <2>1. Payments(d, B) >= Totals(d, K)
    BY <1>1, <1>3, <1>11 DEF SessOK, SameBill, ChargedOf
  <2>2. Payments(e, B) >= Totals(e, L)
    BY <1>5, <1>6, <1>7, <1>8, <2>1
  <2> QED
    BY <1>2, <1>4, <2>2 DEF ChargedOf
<1> QED
  BY <1>9, <1>10, <1>11 DEF SessOK

\* A bill charged order by order.
LEMMA WithinOK ==
  ASSUME NEW R, NEW d \in DB, NEW s \in Session, Within(d, s),
         d.sess[s].st = "paid" => \A o \in Live(d, s) : d.paid[o] >= d.ord[o].total
  PROVE  SessOK(d, R, s)
<1>1. PICK B : B = BillOf(d, s)
  OBVIOUS
<1>2. PICK L : L = Live(d, s)
  OBVIOUS
<1>3. B \in SUBSET Row /\ L \in SUBSET B /\ L \in SUBSET Row
  BY <1>1, <1>2, BillIs
<1>4. Payments(d, B) <= Totals(d, B)
  BY <1>1, <1>3, SumsCompare DEF Within
<1>5. ASSUME d.sess[s].st = "paid" PROVE Payments(d, B) >= Totals(d, L)
  <2>1. Payments(d, L) >= Totals(d, L)
    BY <1>2, <1>3, <1>5, SumsCompare
  <2>2. Payments(d, L) <= Payments(d, B)
    BY <1>3, SumsSplit
  <2>3. Payments(d, L) \in Nat /\ Payments(d, B) \in Nat /\ Totals(d, L) \in Nat
    BY <1>3, SumsTyped
  <2> QED
    BY <2>1, <2>2, <2>3
<1> QED
  BY <1>1, <1>2, <1>4, <1>5 DEF SessOK, ChargedOf

\* A session that was never opened has no orders.
LEMMA FreshBill ==
  ASSUME NEW R, NEW d, Money(d, R), NEW s \in Session, d.sess[s].st = "none"
  PROVE  BillOf(d, s) = {}
BY NoneAssumption DEF Money, RowOK, BillOf

\* A session that ends, and the others.
LEMMA EndedAre ==
  ASSUME NEW d \in DB, NEW e, NEW s \in Session, NEW st, Ended(d, e, s, st)
  PROVE  /\ e.sess[s].st = st
         /\ \A x \in Session : x # s => e.sess[x].st = d.sess[x].st
BY DEF DB, SessionRow, Ended

\* The session a table has can be paid.
LEMMA HeldActive ==
  ASSUME NEW d \in DB, Linked(d), NEW t \in Table, d.cur[t] # NoSession
  PROVE  d.cur[t] \in Session /\ d.sess[d.cur[t]].st = "active"
<1>1. d.sess[d.cur[t]] = [st |-> "active", table |-> t]
  BY DEF Linked, PointsToOpen
<1> QED
  BY <1>1 DEF DB

\* No session goes back to never having been opened.
SessionsKept(d, e) == \A s \in Session : d.sess[s].st # "none" => e.sess[s].st # "none"

\* Ending a session does not either.
LEMMA EndedKeeps ==
  ASSUME NEW d \in DB, NEW e, NEW s \in Session, NEW st \in {"paid", "cancelled"},
         Ended(d, e, s, st)
  PROVE  SessionsKept(d, e)
BY EndedAre DEF SessionsKept

\* A row whose payments and items stay.
SameRow(d, e, o) ==
  /\ e.paid[o] = d.paid[o]
  /\ e.ord[o].total = d.ord[o].total
  /\ e.ord[o].pay = d.ord[o].pay
  /\ e.ord[o].sess = d.ord[o].sess
  /\ e.ord[o].st = "none" <=> d.ord[o].st = "none"

\* Such a row stays right.
LEMMA SameRowOK ==
  ASSUME NEW d, NEW e, NEW o \in Row, RowOK(d, o), SameRow(d, e, o), SessionsKept(d, e)
  PROVE  RowOK(e, o)
BY DEF RowOK, SameRow, SessionsKept

\* Orders that were placed: cancelled, or served and cooked; a session may end.
LEMMA RestatedMoney ==
  ASSUME NEW R, NEW d, Money(d, R), NEW S, NEW st \in {"open", "completed", "cancelled"}, NEW e,
         Restated(d, e, S, st),
         \A o \in Row \cap S : /\ d.ord[o].st # "none"
                               /\ st = "cancelled" \/ d.ord[o].st \in {"open", "completed"},
         e.sess = d.sess \/ \E s \in Session : Ended(d, e, s, "cancelled")
  PROVE  Money(e, R)
<1>1. d \in DB /\ e \in DB
  BY DEF Money, Restated
<1>2. \A s \in Session : e.sess[s].st \in {d.sess[s].st, "cancelled"}
  <2>1. CASE e.sess = d.sess
    BY <2>1
  <2>2. CASE \E s \in Session : Ended(d, e, s, "cancelled")
    <3> PICK s \in Session : Ended(d, e, s, "cancelled")
      BY <2>2
    <3> QED
      BY <1>1, EndedAre
  <2> QED
    BY <2>1, <2>2
<1>3. SessionsKept(d, e)
  BY <1>2 DEF SessionsKept
<1>4. \A o \in Row : SameRow(d, e, o)
  BY DEF Restated, SameRow
<1>5. \A o \in Row : RowOK(e, o)
  BY <1>3, <1>4, SameRowOK DEF Money
<1>6. ASSUME NEW s \in Session PROVE SessOK(e, R, s)
  <2>1. BillOf(e, s) = BillOf(d, s)
    BY <1>4 DEF BillOf, SameRow
  <2>2. Live(e, s) \subseteq Live(d, s)
    BY DEF Live, Restated
  <2>3. SameBill(d, e, s)
    BY <1>2, <1>4, <2>1, <2>2, BillIs DEF SameBill, SameRow
  <2> QED
    BY <1>1, <2>3, SameBillOK DEF Money
<1> QED
  BY <1>1, <1>5, <1>6 DEF Money

\* An order that was cancelled is in work or served again: what its session
\* owes is no longer covered, every other bill stays.
LEMMA RevivedMoney ==
  ASSUME NEW R, NEW d, Money(d, R), NEW o \in Row, d.ord[o].st = "cancelled",
         NEW st \in {"open", "completed"}, NEW e, Restated(d, e, {o}, st), e.sess = d.sess
  PROVE  Money(e, R \cup {d.ord[o].sess})
<1> DEFINE Q == R \cup {d.ord[o].sess}
<1>1. d \in DB /\ e \in DB
  BY DEF Money, Restated
<1>2. SessionsKept(d, e)
  BY DEF SessionsKept
<1>3. \A x \in Row : SameRow(d, e, x)
  BY DEF Restated, SameRow
<1>4. \A x \in Row : RowOK(e, x)
  BY <1>2, <1>3, SameRowOK DEF Money
<1>5. ASSUME NEW s \in Session PROVE SessOK(e, Q, s)
  <2>1. SessOK(d, R, s) /\ BillOf(e, s) = BillOf(d, s)
    BY <1>3 DEF Money, BillOf, SameRow
  <2>2. CASE s # d.ord[o].sess
    <3>1. Live(e, s) \subseteq Live(d, s)
      BY <2>2 DEF Live, Restated
    <3>2. SameBill(d, e, s)
      BY <1>3, <2>1, <3>1, BillIs DEF SameBill, SameRow
    <3>3. SessOK(e, R, s)
      BY <1>1, <2>1, <3>2, SameBillOK
    <3> QED
      BY <3>3 DEF SessOK
  <2>3. CASE s = d.ord[o].sess
    <3>1. PICK B : B = BillOf(d, s)
      OBVIOUS
    <3>2. /\ B \in SUBSET Row
          /\ \A x \in B : e.paid[x] = d.paid[x] /\ e.ord[x].total = d.ord[x].total
      BY <1>3, <3>1, BillIs DEF SameRow
    <3>3. Payments(e, B) = Payments(d, B) /\ Totals(e, B) = Totals(d, B)
      BY <1>1, <3>2, SumsSame
    <3>4. ChargedOf(e, s) <= Totals(e, BillOf(e, s))
      BY <2>1, <3>1, <3>3 DEF SessOK, ChargedOf
    <3>5. e.sess[s].st = "active" => Within(e, s)
      BY <2>1, <3>1, <3>2 DEF SessOK, Within
    <3> QED
      BY <2>3, <3>4, <3>5 DEF SessOK
  <2> QED
    BY <2>2, <2>3
<1> QED
  BY <1>1, <1>4, <1>5 DEF Money

\* The rows stay; a session may be at another table, or be opened.
LEMMA TableMoney ==
  ASSUME NEW R, NEW d, Money(d, R), NEW e \in DB, e.ord = d.ord, e.paid = d.paid,
         \A s \in Session : \/ e.sess[s].st = d.sess[s].st
                            \/ d.sess[s].st = "none" /\ e.sess[s].st = "active"
  PROVE  Money(e, R)
<1>1. d \in DB
  BY DEF Money
<1>2. SessionsKept(d, e)
  BY DEF SessionsKept
<1>3. \A o \in Row : RowOK(e, o)
  BY <1>2, SameRowOK DEF Money, SameRow
<1>4. ASSUME NEW s \in Session PROVE SessOK(e, R, s)
  <2>1. BillOf(e, s) = BillOf(d, s) /\ Live(e, s) = Live(d, s)
    BY DEF BillOf, Live
  <2>2. CASE e.sess[s].st = d.sess[s].st
    <3>1. SameBill(d, e, s)
      BY <2>1, <2>2 DEF SameBill
    <3> QED
      BY <1>1, <3>1, SameBillOK DEF Money
  <2>3. CASE d.sess[s].st = "none" /\ e.sess[s].st = "active"
    <3>1. BillOf(e, s) = {}
      BY <2>1, <2>3, FreshBill
    <3>2. Within(e, s)
      BY <3>1 DEF Within
    <3> QED
      BY <2>3, <3>2, WithinOK
  <2> QED
    BY <2>2, <2>3
<1> QED
  BY <1>3, <1>4 DEF Money

\* Opening a session, then.
LEMMA OpenMoney ==
  ASSUME NEW R, NEW d, Money(d, R), NEW t \in Table, NEW n \in Session, d.sess[n].st = "none"
  PROVE  Money(OpenSession(d, t, n), R)
<1> DEFINE e == OpenSession(d, t, n)
<1>1. d \in DB
  BY DEF Money
<1>2. e \in DB /\ e.ord = d.ord /\ e.paid = d.paid
  BY <1>1, OpenSessionRows
<1>3. e.sess = [d.sess EXCEPT ![n] = [st |-> "active", table |-> t]]
  BY <1>1 DEF DB, OpenSession
<1> HIDE DEF e
<1>4. \A s \in Session : e.sess[s] = IF s = n THEN [st |-> "active", table |-> t] ELSE d.sess[s]
  BY <1>1, <1>3 DEF DB
<1>5. \A s \in Session : \/ e.sess[s].st = d.sess[s].st
                         \/ d.sess[s].st = "none" /\ e.sess[s].st = "active"
  BY <1>4
<1>6. Money(e, R)
  BY <1>2, <1>5, TableMoney
<1> QED
  BY <1>6 DEF e

\* Nothing on the bill has been paid.
Unbegun(d, s) == \A o \in Live(d, s) : d.paid[o] = 0

\* Then no order of it counts as paid.
LEMMA UnbegunUnpaid ==
  ASSUME NEW R, NEW d, Money(d, R), NEW s \in Session, Unbegun(d, s)
  PROVE  UnpaidOf(d, s) = Live(d, s)
<1> SUFFICES ASSUME NEW o \in Live(d, s) PROVE d.ord[o].pay # "paid"
  BY DEF UnpaidOf
<1>1. o \in Row /\ d.ord[o].st # "none"
  BY DEF Live
<1>2. d.ord[o].total >= 1 /\ d.ord[o].total \in Nat /\ d.paid[o] = 0
  BY <1>1, RowsAre DEF Money, RowOK, Unbegun, OrderRow
<1> QED
  BY <1>1, <1>2 DEF Money, RowOK

\* Every live order of the session is charged in full.
LEMMA PayAllMoney ==
  ASSUME NEW R, NEW d, Money(d, R), NEW s \in Session, d.sess[s].st = "active", Unbegun(d, s), NEW e,
         PaidAll(d, d, s, e)
  PROVE  Money(e, R)
<1>1. d \in DB /\ e \in DB /\ UnpaidOf(d, s) = Live(d, s)
  BY UnbegunUnpaid DEF Money, PaidAll
<1>2. SessionsKept(d, e)
  BY <1>1, EndedKeeps DEF PaidAll
<1>3. ASSUME NEW o \in Row \ Live(d, s)
      PROVE  SameRow(d, e, o) /\ e.ord[o].st = d.ord[o].st
  BY <1>1, <1>3 DEF PaidAll, SameRow
<1>4. ASSUME NEW o \in Live(d, s)
      PROVE  /\ o \in Row
             /\ e.paid[o] = d.ord[o].total /\ e.ord[o].total = d.ord[o].total
             /\ d.ord[o].total \in Nat
             /\ e.ord[o].sess = d.ord[o].sess /\ e.ord[o].pay = "paid"
             /\ e.ord[o].st = "open" /\ d.ord[o].st # "none"
  <2>1. o \in Row /\ d.paid[o] = 0 /\ d.ord[o].total \in Nat /\ d.ord[o].st # "none"
    BY <1>1, RowsAre DEF Unbegun, Live, OrderRow
  <2>2. e.paid[o] = d.paid[o] + d.ord[o].total
    BY <1>1, <1>4, <2>1 DEF PaidAll
  <2> QED
    BY <1>1, <1>4, <2>1, <2>2 DEF PaidAll
<1>5. ASSUME NEW o \in Row PROVE RowOK(e, o)
  <2>1. CASE o \notin Live(d, s)
    BY <1>2, <1>3, <2>1, SameRowOK DEF Money
  <2>2. CASE o \in Live(d, s)
    BY <1>2, <1>4, <2>2 DEF Money, RowOK, SessionsKept
  <2> QED
    BY <2>1, <2>2
<1>6. \A o \in Row : e.ord[o].sess = d.ord[o].sess
  BY DEF PaidAll
<1>7. \A x : BillOf(e, x) = BillOf(d, x)
  BY <1>6 DEF BillOf
<1>8. ASSUME NEW x \in Session PROVE SessOK(e, R, x)
  <2>1. CASE x = s
    <3>1. Within(e, s)
      <4> SUFFICES ASSUME NEW o \in BillOf(d, s) PROVE e.paid[o] <= e.ord[o].total
        BY <1>7 DEF Within
      <4>1. o \in Row
        BY DEF BillOf
      <4>2. CASE o \in Live(d, s)
        BY <1>4, <4>2
      <4>3. CASE o \notin Live(d, s)
        BY <1>3, <4>1, <4>3 DEF Money, SessOK, Within, SameRow
      <4> QED
        BY <4>2, <4>3
    <3>2. \A o \in Live(e, s) : e.paid[o] >= e.ord[o].total
      <4> SUFFICES ASSUME NEW o \in Live(e, s) PROVE e.paid[o] >= e.ord[o].total
        OBVIOUS
      <4>1. o \in Live(d, s)
        BY <1>3, <1>6 DEF Live
      <4> QED
        BY <1>4, <4>1
    <3> QED
      BY <1>1, <2>1, <3>1, <3>2, WithinOK
  <2>2. CASE x # s
    <3>1. BillOf(d, x) \cap Live(d, s) = {} /\ BillOf(d, x) \subseteq Row
      BY <2>2 DEF BillOf, Live
    <3>2. Live(e, x) \subseteq Live(d, x)
      BY <1>3, <1>6, <3>1 DEF Live, BillOf
    <3>3. e.sess[x].st = d.sess[x].st
      BY <1>1, <2>2, EndedAre DEF PaidAll
    <3>4. \A o \in BillOf(d, x) : e.paid[o] = d.paid[o] /\ e.ord[o].total = d.ord[o].total
      BY <1>3, <3>1 DEF SameRow
    <3>5. SameBill(d, e, x)
      BY <1>7, <3>2, <3>3, <3>4 DEF SameBill
    <3> QED
      BY <1>1, <3>5, SameBillOK DEF Money
  <2> QED
    BY <2>1, <2>2
<1> QED
  BY <1>1, <1>5, <1>8 DEF Money

\* Every order gets a share of what is left of it, and the session ends when
\* all of them are paid.
LEMMA PaySharesMoney ==
  ASSUME NEW R, NEW d, Money(d, R), NEW s \in Session, d.sess[s].st = "active", NEW n \in Nat,
         NEW p, p \in Shares(d, s, n), NEW e, PaidShares(d, d, s, UnpaidOf(d, s), p, e)
  PROVE  Money(e, R)
<1> DEFINE due == UnpaidOf(d, s)
<1>1. d \in DB /\ e \in DB /\ due \subseteq Live(d, s) /\ due \subseteq BillOf(d, s)
      /\ due \subseteq Row
  BY BillIs DEF Money, PaidShares
<1>2. \A o \in due : p[o] \in Nat /\ p[o] <= Rest(d, o)
  BY DEF Shares
<1>3. /\ SessionsKept(d, e)
      /\ \A x \in Session : x # s => e.sess[x].st = d.sess[x].st
      /\ e.sess[s].st = "active" \/ (UnpaidOf(e, s) = {} /\ e.sess[s].st = "paid")
  <2>1. CASE e.sess = d.sess
    BY <2>1 DEF SessionsKept
  <2>2. CASE UnpaidOf(e, s) = {} /\ Ended(d, e, s, "paid")
    BY <1>1, <2>2, EndedAre, EndedKeeps
  <2> QED
    BY <2>1, <2>2 DEF PaidShares
<1>4. ASSUME NEW o \in due
      PROVE  /\ d.paid[o] \in Nat /\ d.ord[o].total \in Nat /\ d.paid[o] <= d.ord[o].total
             /\ e.paid[o] = d.paid[o] + p[o]
             /\ e.ord[o].total = d.ord[o].total
             /\ e.paid[o] <= e.ord[o].total
             /\ e.ord[o].pay = "paid" => e.paid[o] = e.ord[o].total
  <2>1. d.paid[o] \in Nat /\ d.ord[o].total \in Nat
    BY <1>1, RowsAre DEF OrderRow
  <2>2. d.paid[o] <= d.ord[o].total
    BY <1>1 DEF Money, SessOK, Within
  <2>3. p[o] \in Nat /\ p[o] <= d.ord[o].total - d.paid[o]
    BY <1>2, <2>1, <2>2 DEF Rest
  <2>4. e.paid[o] = d.paid[o] + p[o] /\ e.ord[o].total = d.ord[o].total
    BY <1>1 DEF PaidShares
  <2>5. ASSUME e.ord[o].pay = "paid" PROVE e.paid[o] = e.ord[o].total
    <3>1. p[o] > 0 /\ p[o] = Rest(d, o)
      <4>1. d.ord[o].pay # "paid" /\ o \in Row
        BY <1>1 DEF UnpaidOf
      <4>2. e.ord[o].pay = IF o \in due /\ p[o] > 0
                           THEN (IF p[o] = Rest(d, o) THEN "paid" ELSE "partial")
                           ELSE d.ord[o].pay
        BY <4>1 DEF PaidShares
      <4> HIDE DEF due
      <4> QED
        BY <2>5, <4>1, <4>2
    <3> QED
      BY <2>1, <2>2, <2>3, <2>4, <3>1 DEF Rest
  <2> QED
    BY <2>1, <2>2, <2>3, <2>4, <2>5
<1>5. ASSUME NEW o \in Row \ due PROVE SameRow(d, e, o)
  BY <1>5 DEF PaidShares, SameRow
<1>6. \A o \in Row : e.ord[o].sess = d.ord[o].sess /\ e.ord[o].st = d.ord[o].st
  BY DEF PaidShares
<1> HIDE DEF due
<1>7. ASSUME NEW o \in Row PROVE RowOK(e, o)
  <2>1. CASE o \notin due
    BY <1>3, <1>5, <2>1, SameRowOK DEF Money
  <2>2. CASE o \in due
    <3>1. d.ord[o].st # "none"
      BY <1>1, <2>2 DEF Live
    <3>2. e.ord[o].pay = "paid" => e.paid[o] >= e.ord[o].total
      BY <1>4, <2>2
    <3> QED
      BY <1>3, <1>4, <1>6, <2>2, <3>1, <3>2 DEF Money, RowOK, SessionsKept
  <2> QED
    BY <2>1, <2>2
<1>8. \A x : BillOf(e, x) = BillOf(d, x) /\ Live(e, x) = Live(d, x)
  BY <1>6 DEF BillOf, Live
<1>9. ASSUME NEW x \in Session PROVE SessOK(e, R, x)
  <2>1. CASE x = s
    <3>1. Within(e, s)
      <4> SUFFICES ASSUME NEW o \in BillOf(d, s) PROVE e.paid[o] <= e.ord[o].total
        BY <1>8 DEF Within
      <4>1. o \in Row
        BY DEF BillOf
      <4>2. CASE o \in due
        BY <1>4, <4>2
      <4>3. CASE o \notin due
        BY <1>5, <4>1, <4>3 DEF Money, SessOK, Within, SameRow
      <4> QED
        BY <4>2, <4>3
    <3>2. ASSUME e.sess[s].st = "paid", NEW o \in Live(e, s) PROVE e.paid[o] >= e.ord[o].total
      <4>1. o \in Row /\ e.ord[o].pay = "paid"
        BY <1>3, <3>2 DEF UnpaidOf, Live
      <4> QED
        BY <1>7, <4>1 DEF RowOK
    <3> QED
      BY <1>1, <2>1, <3>1, <3>2, WithinOK
  <2>2. CASE x # s
    <3>1. BillOf(d, x) \cap due = {} /\ BillOf(d, x) \subseteq Row
      BY <1>1, <2>2 DEF BillOf
    <3>2. \A o \in BillOf(d, x) : e.paid[o] = d.paid[o] /\ e.ord[o].total = d.ord[o].total
      BY <1>5, <3>1 DEF SameRow
    <3>3. SameBill(d, e, x)
      BY <1>3, <1>8, <2>2, <3>2 DEF SameBill
    <3> QED
      BY <1>1, <3>3, SameBillOK DEF Money
  <2> QED
    BY <2>1, <2>2
<1> QED
  BY <1>1, <1>7, <1>9 DEF Money

\* n items of an unpaid order go to another one; nothing of either bill is paid.
LEMMA MoveItemsMoney ==
  ASSUME NEW R, NEW d, Money(d, R), NEW s \in Session, d.sess[s].st = "active", Unbegun(d, s),
         NEW q \in Session, d.sess[q].st = "active", Unbegun(d, q),
         NEW o \in UnpaidOf(d, q), NEW n \in Nat \ {0}, n < d.ord[o].total,
         NEW x \in Row, d.ord[x].st = "none" \/ x \in OpenOf(d, s), NEW e,
         MovedInto(d, s, o, n, x, e)
  PROVE  Money(e, R)
<1>1. d \in DB /\ e \in DB
  BY DEF Money, MovedInto
<1>2. \A y \in Row : d.ord[y].total \in Nat /\ e.ord[y].total \in Nat
  BY <1>1, RowsAre DEF OrderRow
<1>3. /\ o \in Row /\ o \in Live(d, q) /\ d.ord[o].sess = q /\ d.paid[o] = 0
      /\ d.ord[o].st # "none" /\ d.ord[o].pay # "paid"
  BY DEF UnpaidOf, Live, Unbegun
<1>4. d.paid[x] = 0 /\ d.ord[x].pay # "paid"
  <2>1. CASE d.ord[x].st = "none"
    BY <2>1 DEF Money, RowOK
  <2>2. CASE x \in OpenOf(d, s)
    <3>1. x \in UnpaidOf(d, s)
      BY <2>2, UnbegunUnpaid, BillIs
    <3> QED
      BY <2>2, <3>1, BillIs DEF UnpaidOf, Unbegun
  <2> QED
    BY <2>1, <2>2
<1>5. d.ord[x].st # "none" => d.ord[x].sess = s
  BY DEF OpenOf, Live
<1>6. e.paid = d.paid /\ e.sess = d.sess /\ SessionsKept(d, e)
  BY DEF MovedInto, SessionsKept
<1> DEFINE new == d.ord[x].st = "none"
<1>7. \A y \in Row :
        /\ e.ord[y].st = IF y = x /\ new THEN "open" ELSE d.ord[y].st
        /\ e.ord[y].sess = IF y = x /\ new THEN s ELSE d.ord[y].sess
        /\ e.ord[y].pay = IF y = x /\ new THEN "unpaid" ELSE d.ord[y].pay
  BY DEF MovedInto
<1>8. \A y \in Row \ {x, o} : e.ord[y].total = d.ord[y].total
  BY DEF MovedInto
<1>9. e.ord[x].total >= 1 /\ e.ord[o].total >= 1
  <2>1. d.ord[o].total >= 1
    BY <1>3 DEF Money, RowOK
  <2>2. CASE x = o
    BY <2>1, <2>2 DEF MovedInto
  <2>3. CASE x # o
    <3>1. e.ord[o].total = d.ord[o].total - n
      BY <1>3, <2>3 DEF MovedInto
    <3>2. e.ord[x].total = (IF new THEN 0 ELSE d.ord[x].total) + n
      BY <2>3 DEF MovedInto
    <3>3. PICK k \in Nat : e.ord[x].total = k + n
      BY <1>2, <3>2
    <3>4. e.ord[o].total >= 1
      BY <1>2, <1>3, <3>1
    <3>5. e.ord[x].total >= 1
      BY <3>3
    <3> QED
      BY <3>4, <3>5
  <2> QED
    BY <2>2, <2>3
<1>10. ASSUME NEW y \in Row PROVE RowOK(e, y)
  <2>1. CASE y \notin {x, o}
    <3>1. SameRow(d, e, y)
      BY <1>6, <1>7, <1>8, <2>1 DEF SameRow
    <3> QED
      BY <1>6, <3>1, SameRowOK DEF Money
  <2>2. CASE y \in {x, o}
    <3>1. /\ e.ord[y].st # "none" /\ e.ord[y].total >= 1
          /\ e.ord[y].sess \in {s, q} /\ e.ord[y].pay # "paid"
      BY <1>3, <1>4, <1>5, <1>7, <1>9, <2>2
    <3> QED
      BY <1>6, <3>1 DEF RowOK
  <2> QED
    BY <2>1, <2>2
<1>11. ASSUME NEW z \in Session PROVE SessOK(e, R, z)
  <2>1. CASE z \in {s, q}
    <3>1. Within(e, z)
      <4> SUFFICES ASSUME NEW y \in BillOf(e, z) PROVE e.paid[y] <= e.ord[y].total
        BY DEF Within
      <4>1. y \in Row /\ e.ord[y].sess = z
        BY DEF BillOf
      <4>2. CASE y \in {x, o}
        BY <1>2, <1>3, <1>4, <1>6, <4>1, <4>2
      <4>3. CASE y \notin {x, o}
        <5>1. y \in BillOf(d, z)
          BY <1>7, <4>1, <4>3 DEF BillOf
        <5>2. d.paid[y] <= d.ord[y].total
          BY <2>1, <5>1 DEF Money, SessOK, Within
        <5> QED
          BY <1>6, <1>8, <4>1, <4>3, <5>2
      <4> QED
        BY <4>2, <4>3
    <3>2. e.sess[z].st = "active"
      BY <1>6, <2>1
    <3> QED
      BY <1>1, <3>1, <3>2, WithinOK
  <2>2. CASE z \notin {s, q}
    <3>1. BillOf(e, z) = BillOf(d, z)
      <4>1. new => d.ord[x].sess # z
        BY NoneAssumption DEF Money, RowOK
      <4> HIDE DEF new
      <4> QED
        BY <1>7, <2>2, <4>1 DEF BillOf
    <3>2. \A y \in BillOf(d, z) : y \in Row /\ y \notin {x, o}
      <4>1. new => d.ord[x].sess # z
        BY NoneAssumption DEF Money, RowOK
      <4> QED
        BY <1>3, <1>5, <2>2, <4>1 DEF BillOf
    <3>3. Live(e, z) \subseteq Live(d, z)
      BY <1>7, <3>1, <3>2, BillIs DEF Live
    <3>4. SameBill(d, e, z)
      BY <1>6, <1>8, <3>1, <3>2, <3>3 DEF SameBill
    <3> QED
      BY <1>1, <3>4, SameBillOK DEF Money
  <2> QED
    BY <2>1, <2>2
<1> QED
  BY <1>1, <1>10, <1>11 DEF Money

\* The orders of session s go to session z; its own bill is empty.
LEMMA MergeMoney ==
  ASSUME NEW R, NEW d, Money(d, R), NEW s \in Session, d.sess[s].st = "active",
         NEW z \in Session, z # s, d.sess[z].st = "active", NEW e,
         MergedInto(d, s, z, e)
  PROVE  Money(e, R)
<1>1. d \in DB /\ e \in DB
  BY DEF Money, MergedInto
<1>2. /\ e.sess[s].st = "paid"
      /\ \A x \in Session : x # s => e.sess[x].st = d.sess[x].st
      /\ SessionsKept(d, e)
  BY <1>1, EndedAre, EndedKeeps DEF MergedInto
<1>3. \A o \in Row : /\ e.ord[o].total = d.ord[o].total
                     /\ e.ord[o].st = d.ord[o].st
                     /\ e.ord[o].pay = d.ord[o].pay
                     /\ e.ord[o].sess = IF d.ord[o].sess = s THEN z ELSE d.ord[o].sess
                     /\ e.paid[o] = d.paid[o]
  BY DEF MergedInto
<1>4. ASSUME NEW o \in Row PROVE RowOK(e, o)
  <2>1. CASE d.ord[o].sess # s
    <3>1. SameRow(d, e, o)
      BY <1>3, <2>1 DEF SameRow
    <3> QED
      BY <1>2, <3>1, SameRowOK DEF Money
  <2>2. CASE d.ord[o].sess = s
    <3>1. d.ord[o].st # "none"
      BY <2>2, NoneAssumption DEF Money, RowOK
    <3> QED
      BY <1>2, <1>3, <2>2, <3>1 DEF Money, RowOK
  <2> QED
    BY <2>1, <2>2
<1>5. ASSUME NEW x \in Session PROVE SessOK(e, R, x)
  <2>1. CASE x = s
    <3>1. BillOf(e, s) = {} /\ Live(e, s) = {}
      BY <1>3 DEF BillOf, Live
    <3> QED
      BY <1>1, <2>1, <3>1, WithinOK DEF Within
  <2>2. CASE x = z
    <3>1. \A o \in BillOf(e, z) : e.paid[o] <= e.ord[o].total
      <4> SUFFICES ASSUME NEW o \in BillOf(e, z) PROVE e.paid[o] <= e.ord[o].total
        OBVIOUS
      <4>1. o \in Row /\ (o \in BillOf(d, s) \/ o \in BillOf(d, z))
        BY <1>3 DEF BillOf
      <4>2. d.paid[o] <= d.ord[o].total
        BY <4>1 DEF Money, SessOK, Within
      <4> QED
        BY <1>3, <4>1, <4>2
    <3>2. e.sess[z].st = "active" /\ Within(e, z)
      BY <1>2, <3>1 DEF Within
    <3> QED
      BY <1>1, <2>2, <3>2, WithinOK
  <2>3. CASE x \notin {s, z}
    <3>1. BillOf(e, x) = BillOf(d, x) /\ Live(e, x) = Live(d, x)
      BY <1>3, <2>3 DEF BillOf, Live
    <3>2. SameBill(d, e, x)
      BY <1>2, <1>3, <2>3, <3>1, BillIs DEF SameBill
    <3> QED
      BY <1>1, <3>2, SameBillOK DEF Money
  <2> QED
    BY <2>1, <2>2, <2>3
<1> QED
  BY <1>1, <1>4, <1>5 DEF Money

\* A new order joins the bill of an active session, or starts one.
LEMMA PlaceMoney ==
  ASSUME NEW R, NEW d, Money(d, R), Linked(d), NEW n \in Session, NEW r \in PlaceRequest, Asked(r, d),
         d.ord[r.o].st = "none", Opens(d, r) => d.sess[n].st = "none"
  PROVE  LET e == Place(d, d, r, n)
             s == Found(d, r, n)
         IN  /\ Money(e, R)
             /\ e.paid = d.paid
             /\ s \in Session
             /\ e.sess[s].st = "active"
             /\ BillOf(e, s) = BillOf(d, s) \cup {r.o}
             /\ r.o \notin BillOf(d, s)
             /\ \A o \in Row : e.ord[o] = IF o = r.o THEN Ordered(r, s) ELSE d.ord[o]
             /\ BillOf(d, s) = {} \/ (s = d.cur[r.t] /\ d.sess[s].st = "active")
<1> /\ r.o \in Order /\ r.t \in Table /\ r.s \in Session \cup {NoSession}
    /\ r.call \in Placing /\ r.o \in Row
  BY DEF PlaceRequest, Row
<1> DEFINE e == Place(d, d, r, n)
           s == Found(d, r, n)
           row == Ordered(r, s)
<1>1. d \in DB /\ Shape(d)
  BY RowsAre DEF Money
<1>2. /\ e \in DB /\ e.paid = d.paid /\ s \in Session
      /\ \A o \in Row : e.ord[o] = IF o = r.o THEN row ELSE d.ord[o]
  BY <1>1, PlaceRows
<1>3. IF Opens(d, r) THEN Opened(d, e, r.t, n) ELSE Same(d, e)
  BY <1>1, PlaceDoes
<1>4. row.st = "open" /\ row.sess = s /\ row.total = Price[r.o] /\ row.pay = "unpaid"
  BY DEF Ordered, NoOrder
<1>5. Price[r.o] \in Nat /\ Price[r.o] >= 1
  <2>1. Price[r.o] \in Nat \ {0}
    BY PriceAssumption
  <2> QED
    BY <2>1
<1>6. /\ Opens(d, r) => s = n
      /\ ~Opens(d, r) => s = d.cur[r.t]
  BY DEF Found, Asked
<1>7. d.ord[r.o].sess = NoSession /\ d.paid[r.o] = 0
  BY DEF Money, RowOK
<1>8. ~Opens(d, r) => d.sess[s].st = "active"
  <2> SUFFICES ASSUME ~Opens(d, r) PROVE d.sess[s].st = "active"
    OBVIOUS
  <2>1. s = d.cur[r.t] /\ s # NoSession
    BY <1>2, <1>6, NoneAssumption
  <2> HIDE DEF s
  <2> QED
    BY <1>1, <2>1, HeldActive
<1>9. /\ e.sess[s].st = "active"
      /\ \A x \in Session : x # s => e.sess[x] = d.sess[x]
  <2>1. CASE Opens(d, r)
    <3>1. e.sess = [d.sess EXCEPT ![n] = [st |-> "active", table |-> r.t]] /\ s = n
      BY <1>3, <1>6, <2>1 DEF Opened
    <3> HIDE DEF e, s
    <3> QED
      BY <1>1, <3>1 DEF Shape
  <2>2. CASE ~Opens(d, r)
    BY <1>3, <1>8, <2>2 DEF Same
  <2> QED
    BY <2>1, <2>2
<1>10. Opens(d, r) => BillOf(d, s) = {}
  <2> SUFFICES ASSUME Opens(d, r) PROVE BillOf(d, s) = {}
    OBVIOUS
  <2>1. d.sess[n].st = "none" /\ s = n
    BY <1>6
  <2>2. BillOf(d, n) = {}
    BY <2>1, FreshBill
  <2> QED
    BY <2>1, <2>2
<1> HIDE DEF e, s, row
<1>11. SessionsKept(d, e)
  BY <1>9 DEF SessionsKept
<1>12. ASSUME NEW o \in Row PROVE RowOK(e, o)
  <2>1. CASE o # r.o
    <3>1. SameRow(d, e, o)
      BY <1>2, <2>1 DEF SameRow
    <3> QED
      BY <1>11, <3>1, SameRowOK DEF Money
  <2>2. CASE o = r.o
    BY <1>2, <1>4, <1>5, <1>9, <2>2 DEF RowOK
  <2> QED
    BY <2>1, <2>2
<1>13. BillOf(e, s) = BillOf(d, s) \cup {r.o} /\ r.o \notin BillOf(d, s)
  BY <1>2, <1>4, <1>7, NoneAssumption DEF BillOf
<1>14. ASSUME NEW x \in Session PROVE SessOK(e, R, x)
  <2>1. CASE x = s
    <3>1. Within(e, s)
      <4> SUFFICES ASSUME NEW o \in BillOf(e, s) PROVE e.paid[o] <= e.ord[o].total
        BY DEF Within
      <4>0. o \in Row
        BY DEF BillOf
      <4>1. CASE o = r.o
        BY <1>2, <1>4, <1>5, <1>7, <4>1
      <4>2. CASE o # r.o
        <5>1. o \in BillOf(d, s) /\ d.sess[s].st = "active"
          BY <1>8, <1>10, <1>13, <4>2
        <5>2. d.paid[o] <= d.ord[o].total
          BY <1>2, <5>1 DEF Money, SessOK, Within
        <5> QED
          BY <1>2, <4>0, <4>2, <5>2
      <4> QED
        BY <4>1, <4>2
    <3> QED
      BY <1>2, <1>9, <2>1, <3>1, WithinOK
  <2>2. CASE x # s
    <3>1. BillOf(e, x) = BillOf(d, x) /\ r.o \notin BillOf(d, x)
      BY <1>2, <1>4, <1>7, <2>2, NoneAssumption DEF BillOf
    <3>2. Live(e, x) \subseteq Live(d, x)
      BY <1>2, <1>4, <2>2 DEF Live
    <3>3. SameBill(d, e, x)
      BY <1>2, <1>9, <2>2, <3>1, <3>2, BillIs DEF SameBill
    <3> QED
      BY <1>1, <1>2, <3>3, SameBillOK DEF Money
  <2> QED
    BY <2>1, <2>2
<1>15. Money(e, R)
  BY <1>2, <1>12, <1>14 DEF Money
<1> QED
  BY <1>2, <1>6, <1>8, <1>9, <1>10, <1>13, <1>15 DEF e, s, row

\* A checkout that was answered before only serves the orders.
LEMMA AgainMoney ==
  ASSUME NEW R, NEW d, Money(d, R), NEW r, d.ord[r.o].bulk, NEW e, PaidAtOnce(d, d, r, e)
  PROVE  Money(e, R)
<1> DEFINE s == d.ord[r.o].sess
<1>1. d \in DB /\ e \in DB /\ e.paid = d.paid /\ e.sess = d.sess
  BY DEF Money, PaidAtOnce
<1>2. \A o \in Row : /\ e.ord[o].total = d.ord[o].total
                     /\ e.ord[o].sess = d.ord[o].sess
                     /\ e.ord[o].pay = d.ord[o].pay
                     /\ e.ord[o].st = IF o \in OpenOf(d, s) \ {r.o} THEN "completed" ELSE d.ord[o].st
  BY DEF PaidAtOnce
<1> HIDE DEF s
<1>3. SessionsKept(d, e) /\ \A o \in Row : SameRow(d, e, o)
  BY <1>1, <1>2, BillIs DEF SessionsKept, SameRow, OpenOf, Live
<1>4. \A o \in Row : RowOK(e, o)
  BY <1>3, SameRowOK DEF Money
<1>5. ASSUME NEW x \in Session PROVE SessOK(e, R, x)
  <2>1. BillOf(e, x) = BillOf(d, x) /\ Live(e, x) \subseteq Live(d, x)
    BY <1>2 DEF BillOf, Live, OpenOf
  <2>2. SameBill(d, e, x)
    BY <1>1, <1>2, <2>1, BillIs DEF SameBill
  <2> QED
    BY <1>1, <2>2, SameBillOK DEF Money
<1> QED
  BY <1>1, <1>4, <1>5 DEF Money

\* A checkout charges its new order r.o for every order of a bill of which
\* nothing is paid: enough for the orders that are not cancelled, and no more
\* than all of them cost.
LEMMA CheckoutMoney ==
  ASSUME NEW R, NEW d, Money(d, R), NEW b, Money(b, R), NEW s \in Session, NEW r, r.o \in Row,
         b.ord[r.o].sess = s, b.ord[r.o].st = "open", ~b.ord[r.o].bulk,
         b.paid = d.paid, d.paid[r.o] = 0, b.ord[r.o].pay # "paid",
         BillOf(b, s) = BillOf(d, s) \cup {r.o}, r.o \notin BillOf(d, s),
         \A o \in BillOf(d, s) : b.ord[o] = d.ord[o],
         Within(d, s), Unbegun(d, s), Live(d, s) \subseteq OpenOf(d, s),
         NEW e, PaidAtOnce(d, b, r, e)
  PROVE  Money(e, R)
<1>1. d \in DB /\ b \in DB /\ e \in DB
  BY DEF Money, PaidAtOnce
<1>2. PICK x \in Row : x = r.o
  OBVIOUS
<1>3. PICK B : B = BillOf(d, s)
  OBVIOUS
<1>4. PICK L : L = Live(d, s)
  OBVIOUS
<1>5. PICK C : C = B \ L
  OBVIOUS
<1>6. /\ B \in SUBSET Row /\ L \in SUBSET B /\ L \in SUBSET Row /\ C \in SUBSET Row
      /\ L = OpenOf(d, s) /\ x \notin B /\ L = OpenOf(d, s) \ {x}
  BY <1>2, <1>3, <1>4, <1>5, BillIs
<1>7. \A o \in Row : /\ e.ord[o].total = b.ord[o].total
                     /\ e.ord[o].sess = b.ord[o].sess
                     /\ e.ord[o].pay = b.ord[o].pay
                     /\ e.ord[o].st = IF o \in OpenOf(b, s) \ {x} THEN "completed" ELSE b.ord[o].st
  BY <1>2 DEF PaidAtOnce
<1>8. /\ e.paid = [b.paid EXCEPT ![x] = @ + b.ord[x].total + Totals(d, L)]
      /\ Ended(b, e, s, "paid")
  <2>1. OpenOf(d, b.ord[r.o].sess) \ {r.o} = L
    BY <1>2, <1>6
  <2> QED
    BY <1>2, <2>1 DEF PaidAtOnce
<1>9. /\ e.sess[s].st = "paid" /\ SessionsKept(b, e)
      /\ \A y \in Session : y # s => e.sess[y].st = b.sess[y].st
  BY <1>1, <1>8, EndedAre, EndedKeeps
<1>10. BillOf(b, s) = B \cup {x} /\ \A y : BillOf(e, y) = BillOf(b, y)
  BY <1>2, <1>3, <1>7 DEF BillOf
<1>11. \A y : Live(e, y) = Live(b, y)
  BY <1>7 DEF Live, OpenOf
<1>12. Live(b, s) = L \cup {x}
  <2>1. x \in Live(b, s) /\ Live(b, s) \subseteq B \cup {x}
    BY <1>2, <1>10, BillIs DEF Live
  <2>2. \A o \in B : o \in Live(b, s) <=> o \in L
    BY <1>3, <1>4 DEF Live, BillOf
  <2> QED
    BY <1>6, <2>1, <2>2
<1>13. \A o \in Row : o # x => e.paid[o] = d.paid[o]
  BY <1>1, <1>8 DEF DB
<1>14. /\ \A o \in B : e.paid[o] = d.paid[o] /\ e.ord[o].total = d.ord[o].total
       /\ \A o \in L : e.paid[o] = d.paid[o] /\ e.ord[o].total = d.ord[o].total
  BY <1>3, <1>6, <1>7, <1>13
<1>15. /\ Totals(d, L) \in Nat /\ Totals(d, C) \in Nat /\ Payments(d, C) \in Nat
  BY <1>1, <1>6, SumsTyped
<1>16. e.paid[x] = e.ord[x].total + Totals(d, L) /\ e.ord[x].total \in Nat
  <2>1. e.ord[x].total = b.ord[x].total /\ b.ord[x].total \in Nat /\ b.paid[x] = 0
    BY <1>1, <1>2, <1>7, RowsAre DEF OrderRow
  <2>2. e.paid[x] = b.paid[x] + b.ord[x].total + Totals(d, L)
    BY <1>1, <1>8 DEF DB
  <2> QED
    BY <1>15, <2>1, <2>2
<1>17. Payments(e, B) = Payments(d, C)
  <2>1. Payments(e, B) = Payments(d, B)
    BY <1>1, <1>6, <1>14, SumsSame
  <2>2. Payments(d, B) = Payments(d, L) + Payments(d, C)
    BY <1>1, <1>5, <1>6, SumsSplit
  <2>3. Payments(d, L) = 0
    BY <1>1, <1>4, <1>6, SumsCompare DEF Unbegun
  <2> QED
    BY <1>15, <2>1, <2>2, <2>3
<1>18. Totals(e, B) = Totals(d, L) + Totals(d, C) /\ Totals(e, L) = Totals(d, L)
  <2>1. Totals(e, B) = Totals(d, B)
    BY <1>1, <1>6, <1>14, SumsSame
  <2>2. Totals(d, B) = Totals(d, L) + Totals(d, C)
    BY <1>1, <1>5, <1>6, SumsSplit
  <2>3. Totals(e, L) = Totals(d, L)
    BY <1>1, <1>6, <1>14, SumsSame
  <2> QED
    BY <2>1, <2>2, <2>3
<1>19. Payments(d, C) <= Totals(d, C)
  <2>1. \A o \in C : d.paid[o] <= d.ord[o].total
    BY <1>3, <1>5 DEF Within
  <2> QED
    BY <1>1, <1>6, <2>1, SumsCompare
<1>20. PICK B1 : B1 = B \cup {x}
  OBVIOUS
<1>21. PICK L1 : L1 = L \cup {x}
  OBVIOUS
<1>22. B1 \in SUBSET Row /\ x \in B1 /\ B1 \ {x} = B /\ L1 \in SUBSET Row /\ x \in L1 /\ L1 \ {x} = L
  BY <1>6, <1>20, <1>21
<1>23. /\ Payments(e, B1) = e.paid[x] + Payments(e, B)
       /\ Totals(e, B1) = e.ord[x].total + Totals(e, B)
  BY <1>1, <1>22, SumsTake
<1>24. Totals(e, L1) = e.ord[x].total + Totals(e, L)
  BY <1>1, <1>22, SumsTake
<1>25. Payments(e, B1) <= Totals(e, B1) /\ Payments(e, B1) >= Totals(e, L1)
  BY <1>15, <1>16, <1>17, <1>18, <1>19, <1>23, <1>24
<1>26. SessOK(e, R, s)
  <2>1. BillOf(e, s) = B1 /\ Live(e, s) = L1
    BY <1>10, <1>11, <1>12, <1>20, <1>21
  <2> QED
    BY <1>9, <1>25, <2>1 DEF SessOK, ChargedOf
<1>27. ASSUME NEW y \in Session, y # s PROVE SessOK(e, R, y)
  <2>1. x \notin BillOf(b, y) /\ BillOf(b, y) \subseteq Row
    BY <1>2, <1>27 DEF BillOf
  <2>2. SameBill(b, e, y)
    BY <1>7, <1>9, <1>10, <1>11, <1>13, <1>27, <2>1 DEF SameBill
  <2> QED
    BY <1>1, <2>2, SameBillOK DEF Money
<1>28. ASSUME NEW o \in Row PROVE RowOK(e, o)
  <2>1. CASE o # x
    <3>1. SameRow(b, e, o)
      BY <1>7, <1>13, <2>1, BillIs DEF SameRow, OpenOf, Live
    <3> QED
      BY <1>9, <3>1, SameRowOK DEF Money
  <2>2. CASE o = x
    <3>1. /\ e.ord[o].st = "open" /\ e.ord[o].pay # "paid" /\ e.ord[o].sess = s
          /\ e.ord[o].total = b.ord[o].total /\ b.ord[o].total >= 1
      BY <1>2, <1>7, <2>2 DEF Money, RowOK
    <3> QED
      BY <1>9, <3>1 DEF RowOK
  <2> QED
    BY <2>1, <2>2
<1> QED
  BY <1>1, <1>26, <1>27, <1>28 DEF Money

\* A request in progress that pays the bill the way it was begun.
Wary(r, d) ==
  /\ r.call \notin {"payment", "split"}
  /\ r.call = "checkout" =>
       \A s \in Session : d.cur[r.t] = s => Unbegun(d, s) /\ UnpaidOf(d, s) \subseteq OpenOf(d, s)
  /\ r.call = "checkoutSession" => Unbegun(d, r.s)
  /\ r.call \in {"checkoutSession", "sessionPayment"} => \E t \in Table : d.cur[t] = r.s
  /\ r.call = "transferItem" =>
       /\ \E s \in Session : /\ \E t \in Table : d.cur[t] = s
                             /\ r.o \in UnpaidOf(d, s)
                             /\ Unbegun(d, s)
       /\ d.cur[r.u] \in Session => Unbegun(d, d.cur[r.u])
  /\ r.call \in Status => d.ord[r.o].st # "none"

\* The inductive invariant behind PaidIsCovered and ChargedOnce, whatever is owed.
MoneyInv ==
  /\ SerialInv
  /\ Money(db, Session)
  /\ \A w \in Worker : req[w] # NoRequest => Wary(req[w], db)

\* The sessions tables have are there to be paid.
LEMMA ShownActive ==
  ASSUME NEW R, NEW d, Money(d, R), Linked(d), NEW s \in Session, \E t \in Table : d.cur[t] = s
  PROVE  d.sess[s].st = "active"
BY HeldActive, NoneAssumption DEF Money

\* A checkout, of a new order or of one that was answered.
LEMMA CheckoutDone ==
  ASSUME NEW R, NEW d, Money(d, R), Linked(d), NEW n \in Session, NEW r \in PlaceRequest, Asked(r, d),
         Wary(r, d), r.call = "checkout", Opens(d, r) => d.sess[n].st = "none"
  PROVE  Money(PayAtOnce(d, Place(d, d, r, n), r), R)
<1> r.o \in Order /\ r.o \in Row /\ r.t \in Table
  BY DEF PlaceRequest, Row
<1> DEFINE b == Place(d, d, r, n)
           e == PayAtOnce(d, b, r)
           s == Found(d, r, n)
<1>1. d \in DB
  BY DEF Money
<1>2. CASE d.ord[r.o].st # "none"
  <2>1. b = d
    BY <1>2 DEF Place
  <2>2. d.ord[r.o].bulk
    BY <1>2 DEF Asked, Placing
  <2> HIDE DEF b
  <2>3. PaidAtOnce(d, d, r, e)
    BY <1>1, <2>1, <2>2, PayAtOnceRows
  <2> HIDE DEF e
  <2>4. Money(e, R)
    BY <2>2, <2>3, AgainMoney
  <2> QED
    BY <2>4 DEF e, b
<1>3. CASE d.ord[r.o].st = "none"
  <2>1. /\ Money(b, R)
        /\ b.paid = d.paid
        /\ s \in Session
        /\ b.sess[s].st = "active"
        /\ BillOf(b, s) = BillOf(d, s) \cup {r.o}
        /\ r.o \notin BillOf(d, s)
        /\ \A o \in Row : b.ord[o] = IF o = r.o THEN Ordered(r, s) ELSE d.ord[o]
        /\ BillOf(d, s) = {} \/ (s = d.cur[r.t] /\ d.sess[s].st = "active")
    BY <1>3, PlaceMoney
  <2> HIDE DEF b, s
  <2>2. /\ b.ord[r.o].sess = s /\ b.ord[r.o].st = "open" /\ b.ord[r.o].pay # "paid"
        /\ ~b.ord[r.o].bulk
    BY <2>1 DEF Ordered, NoOrder
  <2>3. d.paid[r.o] = 0
    BY <1>3 DEF Money, RowOK
  <2>4. \A o \in BillOf(d, s) : b.ord[o] = d.ord[o]
    BY <2>1, BillIs
  <2>5. Within(d, s) /\ Unbegun(d, s) /\ Live(d, s) \subseteq OpenOf(d, s)
    <3>1. CASE BillOf(d, s) = {}
      BY <3>1, BillIs DEF Within, Unbegun
    <3>2. CASE s = d.cur[r.t] /\ d.sess[s].st = "active"
      <4>1. Unbegun(d, s) /\ UnpaidOf(d, s) \subseteq OpenOf(d, s)
        BY <2>1, <3>2 DEF Wary
      <4>2. UnpaidOf(d, s) = Live(d, s)
        BY <2>1, <4>1, UnbegunUnpaid
      <4> QED
        BY <2>1, <3>2, <4>1, <4>2 DEF Money, SessOK
    <3> QED
      BY <2>1, <3>1, <3>2
  <2>6. PaidAtOnce(d, b, r, e)
    <3>1. b \in DB
      BY <2>1 DEF Money
    <3> QED
      BY <1>1, <2>1, <2>2, <3>1, PayAtOnceRows
  <2> HIDE DEF e
  <2>7. Money(e, R)
    BY <2>1, <2>2, <2>3, <2>4, <2>5, <2>6, CheckoutMoney
  <2> QED
    BY <2>7 DEF e, b
<1> QED
  BY <1>2, <1>3

\* An order of session q that was cancelled is no longer, and of all sessions
\* only q may owe what it did not owe before.
Revives(d, e, R) ==
  \E q \in Session : /\ \E o \in BillOf(d, q) : d.ord[o].st = "cancelled" /\ e.ord[o].st # "cancelled"
                     /\ e.sess = d.sess
                     /\ Money(e, R \cup {q})

\* A handler that runs alone charges what bills cost.
LEMMA MoneyHandler ==
  ASSUME NEW R, MoneyInv, Money(db, R), NEW w \in Worker, Handler(w) \/ Abort(w)
  PROVE  \E e : Commit(w, e) /\ (Money(e, R) \/ Revives(db, e, R))
<1> DEFINE r == req[w]
           v == view[w]
<1>1. Money(db, R) /\ Linked(db) /\ db \in DB /\ Shape(db)
  BY RowsAre DEF MoneyInv, SerialInv, Money
<1>2. ASSUME NEW call, Handles(w, call)
      PROVE  /\ r # NoRequest /\ r.call = call /\ v = db
             /\ Asked(r, db) /\ Wary(r, db) /\ r \in Request
  BY <1>2 DEF MoneyInv, SerialInv, Handles, Asked
<1> HIDE DEF r, v
<1>3. CASE CreateOrder(w)
  <2>1. v = db /\ Asked(r, db) /\ r \in PlaceRequest
    BY <1>2, <1>3, RequestFields DEF CreateOrder, Placing
  <2>2. PICK n \in Session : /\ Opens(v, r) => NewSession(n)
                             /\ Commit(w, Place(v, db, r, n))
    BY <1>3 DEF CreateOrder, r, v
  <2>3. CASE db.ord[r.o].st # "none"
    <3>1. Place(db, db, r, n) = db
      BY <2>3 DEF Place
    <3> QED
      BY <1>1, <2>1, <2>2, <3>1
  <2>4. CASE db.ord[r.o].st = "none"
    <3>1. Money(Place(db, db, r, n), R)
      BY <1>1, <2>1, <2>2, <2>4, PlaceMoney DEF NewSession
    <3> QED
      BY <2>1, <2>2, <3>1
  <2> QED
    BY <2>3, <2>4
<1>4. CASE Checkout(w)
  <2>1. v = db /\ Asked(r, db) /\ Wary(r, db) /\ r \in PlaceRequest /\ r.call = "checkout"
    BY <1>2, <1>4, RequestFields DEF Checkout, Placing
  <2>2. PICK n \in Session : /\ Opens(v, r) => NewSession(n)
                             /\ Commit(w, PayAtOnce(v, Place(v, db, r, n), r))
    BY <1>4 DEF Checkout, r, v
  <2>3. Money(PayAtOnce(db, Place(db, db, r, n), r), R)
    BY <1>1, <2>1, <2>2, CheckoutDone DEF NewSession
  <2> QED
    BY <2>1, <2>2, <2>3
<1>5. CASE CheckoutSession(w)
  <2>1. /\ r.s \in Session /\ v = db /\ Unbegun(db, r.s)
        /\ \E t \in Table : db.cur[t] = r.s
    BY <1>2, <1>5, RequestFields DEF CheckoutSession, Wary
  <2>2. Commit(w, PayAll(v, db, r.s))
    BY <1>5 DEF CheckoutSession, r, v
  <2>3. db.sess[r.s].st = "active"
    BY <1>1, <2>1, ShownActive
  <2>4. PaidAll(db, db, r.s, PayAll(db, db, r.s))
    BY <1>1, <2>1, PayAllRows
  <2>5. Money(PayAll(db, db, r.s), R)
    BY <1>1, <2>1, <2>3, <2>4, PayAllMoney
  <2> QED
    BY <2>1, <2>2, <2>5
<1>6. CASE SessionPayment(w)
  <2>1. /\ r.s \in Session /\ r.n \in Nat /\ v = db
        /\ \E t \in Table : db.cur[t] = r.s
    BY <1>2, <1>6, RequestFields, AmountIs DEF SessionPayment, Wary
  <2>2. PICK p \in Shares(v, r.s, r.n) : Commit(w, PayShares(v, db, r.s, p))
    BY <1>6 DEF SessionPayment, r, v
  <2>3. db.sess[r.s].st = "active"
    BY <1>1, <2>1, ShownActive
  <2>4. PICK S : S = UnpaidOf(db, r.s)
    OBVIOUS
  <2>5. p \in [S -> 0..r.n]
    BY <2>1, <2>2, <2>4 DEF Shares
  <2>6. PaidShares(db, db, r.s, S, p, PayShares(db, db, r.s, p))
    BY <1>1, <2>1, <2>5, PaySharesRows
  <2>7. Money(PayShares(db, db, r.s, p), R)
    BY <1>1, <2>1, <2>2, <2>3, <2>4, <2>6, PaySharesMoney
  <2> QED
    BY <2>1, <2>2, <2>7
<1>7. CASE Payment(w)
  BY <1>2, <1>7 DEF Payment, Wary
<1>8. CASE Split(w)
  BY <1>2, <1>8 DEF Split, Wary
<1>9. CASE TransferItem(w)
  <2> DEFINE s == v.cur[r.u]
  <2>1. r.o \in Row /\ r.u \in Table /\ r.n \in Nat \ {0} /\ v = db /\ Wary(r, db)
    BY <1>2, <1>9, RequestFields, AmountIs DEF TransferItem
  <2>2. s \in Session /\ s # NoSession
    BY <1>1, <1>9, <2>1 DEF TransferItem, Shape, r, v
  <2>3. r.n < db.ord[r.o].total
    BY <1>9 DEF TransferItem, r, v
  <2>4. PICK x \in Row :
          /\ IF OpenOf(v, s) = {} THEN NewRow(x) ELSE x \in OpenOf(v, s)
          /\ Commit(w, MoveItems(db, s, r.o, r.n, x))
    BY <1>9 DEF TransferItem, r, v
  <2>5. PICK q \in Session : /\ \E t \in Table : db.cur[t] = q
                             /\ r.o \in UnpaidOf(db, q)
                             /\ Unbegun(db, q)
    BY <1>2, <1>9 DEF TransferItem, Wary
  <2>6. db.sess[q].st = "active"
    BY <1>1, <2>5, ShownActive
  <2>7. Unbegun(db, s) /\ \E t \in Table : db.cur[t] = s
    BY <1>2, <1>9, <2>1, <2>2 DEF TransferItem, Wary
  <2> HIDE DEF s
  <2>8. db.sess[s].st = "active"
    BY <1>1, <2>2, <2>7, ShownActive
  <2>9. /\ db.ord[x].st = "none" \/ x \in OpenOf(db, s)
        /\ db.ord[x].st = "none" => x \in Extra
    BY <2>1, <2>4 DEF NewRow, OpenOf, Live
  <2>10. db.ord[r.o].st # "none"
    BY <2>5 DEF UnpaidOf, Live
  <2> DEFINE e == MoveItems(db, s, r.o, r.n, x)
  <2>11. MovedInto(db, s, r.o, r.n, x, e)
    BY <1>1, <2>1, <2>2, <2>3, <2>9, <2>10, MoveItemsRows
  <2> HIDE DEF e
  <2>12. Money(e, R)
    BY <1>1, <2>1, <2>2, <2>3, <2>5, <2>6, <2>7, <2>8, <2>9, <2>11, MoveItemsMoney
  <2> QED
    BY <2>4, <2>12 DEF e
<1>10. CASE OpenTable(w)
  <2>1. r.t \in Table
    BY <1>2, <1>10, RequestFields DEF OpenTable
  <2>2. CASE HasSession(db, r.t)
    BY <1>1, <1>10, <2>2 DEF OpenTable, r
  <2>3. CASE ~HasSession(db, r.t)
    <3>1. PICK n \in Session : NewSession(n) /\ Commit(w, OpenSession(db, r.t, n))
      BY <1>10, <2>3 DEF OpenTable, r
    <3>2. Money(OpenSession(db, r.t, n), R)
      BY <1>1, <2>1, <3>1, OpenMoney DEF NewSession
    <3> QED
      BY <3>1, <3>2
  <2> QED
    BY <2>2, <2>3
<1>11. CASE TransferTable(w)
  <2>1. r.t \in Table /\ r.u \in Table /\ v = db
    BY <1>2, <1>11, RequestFields DEF TransferTable
  <2>2. v.cur[r.t] # NoSession /\ Commit(w, MoveTable(v, db, r.t, r.u))
    BY <1>11 DEF TransferTable, r, v
  <2> DEFINE e == MoveTable(db, db, r.t, r.u)
  <2>3. /\ e \in DB /\ e.ord = db.ord /\ e.paid = db.paid
        /\ \A s \in Session : e.sess[s].st = db.sess[s].st
    BY <1>1, <2>1, <2>2, MoveTableRows
  <2> HIDE DEF e
  <2>4. Money(e, R)
    BY <1>1, <2>3, TableMoney
  <2> QED
    BY <2>1, <2>2, <2>4 DEF e
<1>12. CASE MergeTables(w)
  <2>1. r.t \in Table /\ r.u \in Table /\ r.t # r.u /\ v = db
    BY <1>2, <1>12, RequestFields DEF MergeTables, Asked
  <2>2. /\ v.cur[r.t] # NoSession /\ v.cur[r.u] # NoSession
        /\ Commit(w, Merge(v, db, r.t, r.u))
    BY <1>12 DEF MergeTables, r, v
  <2>3. PICK s : s = db.cur[r.t]
    OBVIOUS
  <2>4. PICK z : z = db.cur[r.u]
    OBVIOUS
  <2>5. /\ s \in Session /\ db.sess[s].st = "active"
        /\ z \in Session /\ db.sess[z].st = "active"
    BY <1>1, <2>1, <2>2, <2>3, <2>4, HeldActive
  <2>6. z # s
    <3>1. Holding(db, db.cur[r.t]) = {r.t}
      BY <1>1, <2>1, <2>2, HeldBy
    <3> QED
      BY <2>1, <2>3, <2>4, <3>1 DEF Holding
  <2> DEFINE e == Merge(db, db, r.t, r.u)
  <2>7. MergedInto(db, s, z, e)
    BY <1>1, <2>1, <2>2, <2>3, <2>4, MergeRows
  <2> HIDE DEF e
  <2>8. Money(e, R)
    BY <1>1, <2>5, <2>6, <2>7, MergeMoney
  <2> QED
    BY <2>1, <2>2, <2>8 DEF e
<1>13. CASE CancelTable(w)
  <2>1. r.t \in Table /\ v = db
    BY <1>2, <1>13, RequestFields DEF CancelTable
  <2>2. Commit(w, CancelAll(v, db, r.t))
    BY <1>13 DEF CancelTable, r, v
  <2> DEFINE e == CancelAll(db, db, r.t)
  <2>3. PICK s \in Session \cup {NoSession} : s = db.cur[r.t]
    BY <1>1, <2>1 DEF Shape
  <2>4. /\ s = NoSession => Restated(db, e, {}, "cancelled") /\ e.sess = db.sess
        /\ s # NoSession => Restated(db, e, BillOf(db, s), "cancelled") /\ Ended(db, e, s, "cancelled")
    BY <1>1, <2>1, <2>3, CancelAllRows
  <2> HIDE DEF e
  <2>5. PICK S : S = IF s = NoSession THEN {} ELSE BillOf(db, s)
    OBVIOUS
  <2>6. Restated(db, e, S, "cancelled")
    BY <2>4, <2>5
  <2>7. \A o \in Row \cap S : db.ord[o].st # "none"
    BY <1>1, <2>5, NoneAssumption DEF Money, RowOK, BillOf
  <2>8. Money(e, R)
    BY <1>1, <2>4, <2>6, <2>7, RestatedMoney
  <2> QED
    BY <2>1, <2>2, <2>8 DEF e
<1>14. ASSUME NEW call \in Status, Handles(w, call)
       PROVE  r.o \in Row /\ db.ord[r.o].st # "none"
  BY <1>2, <1>14, RequestFields DEF Wary, Status
<1>15. CASE ServeOrder(w) \/ KitchenTicket(w)
  <2>1. r.o \in Row /\ db.ord[r.o].st # "none"
    BY <1>14, <1>15 DEF ServeOrder, KitchenTicket, Status
  <2>2. PICK st \in {"open", "completed"} : Commit(w, SetRow(db, r.o, st))
    BY <1>15 DEF ServeOrder, KitchenTicket, r
  <2> DEFINE e == SetRow(db, r.o, st)
  <2>3. PICK S : S = {r.o}
    OBVIOUS
  <2>4. Restated(db, e, S, st) /\ e.sess = db.sess
    BY <1>1, <2>1, <2>3, SetRowRows
  <2>5. CASE db.ord[r.o].st = "cancelled"
    <3>1. e.ord[r.o].st = st
      BY <1>1, <2>1 DEF DB, OrderRow, SetRow
    <3>2. r.o \in BillOf(db, db.ord[r.o].sess) /\ db.ord[r.o].sess \in Session
      BY <1>1, <2>1 DEF BillOf, Money, RowOK
    <3> HIDE DEF e
    <3>3. Money(e, R \cup {db.ord[r.o].sess})
      BY <1>1, <2>1, <2>3, <2>4, <2>5, RevivedMoney
    <3>4. Revives(db, e, R)
      BY <2>4, <2>5, <3>1, <3>2, <3>3 DEF Revives
    <3> QED
      BY <2>2, <3>4 DEF e
  <2>6. CASE db.ord[r.o].st # "cancelled"
    <3>1. db.ord[r.o].st \in {"open", "completed"}
      BY <1>1, <2>1, <2>6, RowsAre DEF OrderRow
    <3> HIDE DEF e
    <3>2. Money(e, R)
      BY <1>1, <2>1, <2>3, <2>4, <3>1, RestatedMoney
    <3> QED
      BY <2>2, <3>2 DEF e
  <2> QED
    BY <2>5, <2>6
<1>16. CASE CancelOrder(w) \/ KitchenCancel(w)
  <2>1. r.o \in Row /\ db.ord[r.o].st # "none" /\ v = db
    BY <1>2, <1>14, <1>16 DEF CancelOrder, KitchenCancel, Status
  <2>2. Commit(w, CancelOne(v, db, r.o))
    BY <1>16 DEF CancelOrder, KitchenCancel, r, v
  <2> DEFINE e == CancelOne(db, db, r.o)
  <2>3. PICK S : S = {r.o}
    OBVIOUS
  <2>4. /\ Restated(db, e, S, "cancelled")
        /\ e.sess = db.sess \/ \E s \in Session : Ended(db, e, s, "cancelled")
    BY <1>1, <2>1, <2>3, CancelOneRows
  <2> HIDE DEF e
  <2>5. Money(e, R)
    BY <1>1, <2>1, <2>3, <2>4, RestatedMoney
  <2> QED
    BY <2>1, <2>2, <2>5 DEF e
<1>17. CASE Abort(w)
  BY <1>1, <1>17 DEF Abort
<1> QED
  BY <1>3, <1>4, <1>5, <1>6, <1>7, <1>8, <1>9, <1>10, <1>11, <1>12, <1>13, <1>15,
     <1>16, <1>17 DEF Handler

\* What staff may ask for is what the handlers need.
LEMMA WaryFrom ==
  ASSUME MoneyInv, ~Stale, NEW r, Known(r), OneWay(r), r.call \notin {"payment", "split"}
  PROVE  Wary(r, db)
<1>1. ASSUME NEW s, ~Begun(s) PROVE Unbegun(db, s)
  <2> SUFFICES ASSUME NEW o \in Live(db, s) PROVE db.paid[o] = 0
    BY DEF Unbegun
  <2>1. o \in Row /\ ~(db.paid[o] > 0)
    BY <1>1 DEF Begun, Live
  <2>2. db.paid[o] \in Nat
    BY <2>1, RowsAre DEF MoneyInv, Money
  <2> QED
    BY <2>1, <2>2
<1>2. \A t, s : Shows(t, s) <=> db.cur[t] = s
  BY DEF Shows
<1>3. ASSUME r.call = "checkout", NEW s \in Session, db.cur[r.t] = s
      PROVE  Unbegun(db, s) /\ UnpaidOf(db, s) \subseteq OpenOf(db, s)
  <2>1. ~Begun(s) /\ UnpaidOf(db, s) \subseteq OpenOf(db, s)
    BY <1>2, <1>3 DEF OneWay
  <2> QED
    BY <1>1, <2>1
<1>4. r.call = "checkoutSession" => Unbegun(db, r.s)
  BY <1>1 DEF OneWay
<1>5. r.call \in {"checkoutSession", "sessionPayment"} => \E t \in Table : db.cur[t] = r.s
  BY <1>2, KnownFacts DEF ShowsSession
<1>6. ASSUME r.call = "transferItem"
      PROVE  /\ \E s \in Session : /\ \E t \in Table : db.cur[t] = s
                                   /\ r.o \in UnpaidOf(db, s)
                                   /\ Unbegun(db, s)
             /\ db.cur[r.u] \in Session => Unbegun(db, db.cur[r.u])
  <2>1. PICK s \in Session : ShowsSession(s) /\ r.o \in UnpaidOf(db, s)
    BY <1>6 DEF Known
  <2>2. \A x \in {db.ord[r.o].sess, db.cur[r.u]} \ {NoSession} : ~Begun(x)
    BY <1>6 DEF OneWay
  <2>3. db.ord[r.o].sess = s
    BY <2>1 DEF UnpaidOf, Live
  <2>4. Unbegun(db, s)
    BY <1>1, <2>1, <2>2, <2>3, NoneAssumption
  <2>5. db.cur[r.u] \in Session => Unbegun(db, db.cur[r.u])
    BY <1>1, <2>2, NoneAssumption
  <2> QED
    BY <1>2, <2>1, <2>4, <2>5 DEF ShowsSession
<1>7. r.call \in Status => db.ord[r.o].st # "none"
  BY DEF Known, Status
<1> QED
  BY <1>3, <1>4, <1>5, <1>6, <1>7 DEF Wary

\* Nothing is ordered and nothing is charged at first.
LEMMA EmptyMoney ==
  ASSUME NEW R
  PROVE  Money(Empty, R)
<1>1. Empty \in DB
  BY DEF Empty, DB, SessionRow, OrderRow, NoOrder
<1>2. \A o \in Row : RowOK(Empty, o)
  BY DEF Empty, NoOrder, RowOK
<1>3. ASSUME NEW s \in Session PROVE SessOK(Empty, R, s)
  <2>1. BillOf(Empty, s) = {}
    BY NoneAssumption DEF Empty, NoOrder, BillOf
  <2>2. Within(Empty, s)
    BY <2>1 DEF Within
  <2>3. Empty.sess[s].st = "none"
    BY DEF Empty
  <2> QED
    BY <1>1, <2>2, <2>3, WithinOK
<1> QED
  BY <1>1, <1>2, <1>3 DEF Money

\* The sessions that owe are those that may not be covered.
Owed(d) == {s \in Session : Owing(d, s)}

\* What is charged for a session's orders, and what those in force cost.
LEMMA BillSums ==
  ASSUME NEW d \in DB, NEW s
  PROVE  /\ ChargedOf(d, s) \in Nat
         /\ Totals(d, Live(d, s)) \in Nat
         /\ Owing(d, s) <=> d.sess[s].st = "paid" /\ ChargedOf(d, s) < Totals(d, Live(d, s))
<1>1. PICK B : B = BillOf(d, s)
  OBVIOUS
<1>2. PICK L : L = Live(d, s)
  OBVIOUS
<1>3. B \in SUBSET Row /\ L \in SUBSET Row
  BY <1>1, <1>2, BillIs
<1>4. Payments(d, B) \in Nat /\ Totals(d, L) \in Nat
  BY <1>3, SumsTyped
<1>5. Owing(d, s) <=> d.sess[s].st = "paid" /\ ChargedOf(d, s) < Totals(d, Live(d, s))
  BY DEF Owing, ChargedOf, BillOf, Payments
<1> QED
  BY <1>1, <1>2, <1>4, <1>5 DEF ChargedOf

\* Nobody but those that owe is excused.
LEMMA OwedMoney ==
  ASSUME NEW d, Money(d, Session)
  PROVE  Money(d, Owed(d))
<1>1. d \in DB
  BY DEF Money
<1> SUFFICES ASSUME NEW s \in Session PROVE SessOK(d, Owed(d), s)
  BY DEF Money
<1>2. SessOK(d, Session, s)
  BY DEF Money
<1>3. ASSUME d.sess[s].st = "paid", s \notin Owed(d)
      PROVE  ChargedOf(d, s) >= Totals(d, Live(d, s))
  BY <1>1, <1>3, BillSums DEF Owed
<1> QED
  BY <1>2, <1>3 DEF SessOK

\* And those that are not excused do not owe.
LEMMA MoneyOwed ==
  ASSUME NEW R, NEW d, Money(d, R), NEW s \in Session, Owing(d, s)
  PROVE  s \in R
<1>1. d \in DB /\ SessOK(d, R, s)
  BY DEF Money
<1> QED
  BY <1>1, BillSums DEF SessOK

\* A request that ends leaves no new debt but by reviving an order.
LEMMA MoneyStep ==
  ASSUME MoneyInv, NEW w \in Worker, Handler(w) \/ Abort(w)
  PROVE  Money(db', Session) /\ NoNewDebt /\ (req \in [Worker -> Request \cup {NoRequest}] => req'[w] = NoRequest)
<1>1. Money(db, Owed(db))
  BY OwedMoney DEF MoneyInv
<1>2. PICK e : Commit(w, e) /\ (Money(e, Owed(db)) \/ Revives(db, e, Owed(db)))
  BY <1>1, MoneyHandler
<1>3. db' = e /\ (req \in [Worker -> Request \cup {NoRequest}] => req'[w] = NoRequest)
  BY <1>2 DEF Commit
<1>4. CASE Money(e, Owed(db))
  <2>1. Money(e, Session)
    BY <1>4 DEF Money, SessOK
  <2>2. \A s \in Session : Owing(e, s) => Owing(db, s)
    BY <1>4, MoneyOwed DEF Owed
  <2> QED
    BY <1>3, <2>1, <2>2 DEF NoNewDebt
<1>5. CASE Revives(db, e, Owed(db))
  <2>1. PICK q \in Session :
          /\ \E o \in BillOf(db, q) : db.ord[o].st = "cancelled" /\ e.ord[o].st # "cancelled"
          /\ e.sess = db.sess
          /\ Money(e, Owed(db) \cup {q})
    BY <1>5 DEF Revives
  <2>2. Money(e, Session)
    BY <2>1 DEF Money, SessOK
  <2>3. \A s \in Session : Owing(e, s) => Owing(db, s) \/ (s = q /\ db.sess[q].st = "paid")
    BY <2>1, MoneyOwed DEF Owed, Owing
  <2>4. Revived(q)
    BY <1>3, <2>1 DEF Revived, Bill, BillOf
  <2> QED
    BY <1>3, <2>2, <2>3, <2>4 DEF NoNewDebt
<1> QED
  BY <1>2, <1>3, <1>4, <1>5

\* One request at a time, tills that use the sessions their tables have, and a
\* bill finished the way its payment was begun, without payments for one order
\* and without splits, which charge as they like: the orders of a session are
\* never charged more than they cost, an order that counts as paid is paid for,
\* and no paid session comes to owe anything, but by reviving an order of it
\* that was cancelled, whatever is ordered, moved, merged, served or cancelled.
THEOREM SerialBill ==
  ASSUME NEW w0, Worker = {w0}, ~Stale, Careful, Calls \cap {"payment", "split"} = {}
  PROVE  Spec => PaidInFull /\ [](PaidIsCovered /\ ChargedOnce)
<1>1. Init => MoneyInv
  BY EmptyMoney, SerialInit DEF Init, MoneyInv
<1>2. MoneyInv /\ [Next]_vars => MoneyInv' /\ [NoNewDebt]_vars
  <2> SUFFICES ASSUME MoneyInv, [Next]_vars PROVE MoneyInv' /\ [NoNewDebt]_vars
    OBVIOUS
  <2>0. SerialInv'
    BY SerialStep DEF MoneyInv
  <2>1. CASE UNCHANGED vars
    BY <2>0, <2>1 DEF MoneyInv, vars
  <2>2. CASE Next
    <3> PICK w \in Worker : Begin(w) \/ Handler(w) \/ Abort(w)
      BY <2>2 DEF Next
    <3>0. \A x \in Worker : x = w
      OBVIOUS
    <3>00. req \in [Worker -> Request \cup {NoRequest}]
      BY DEF MoneyInv, SerialInv
    <3>1. CASE Begin(w)
      <4>1. PICK r \in Request : /\ r.call \in Calls /\ Known(r) /\ OneWay(r)
                                 /\ req' = [req EXCEPT ![w] = r]
        BY <3>1 DEF Begin
      <4>2. db' = db
        BY <3>1 DEF Begin
      <4>3. Wary(r, db)
        BY <4>1, WaryFrom
      <4>4. req'[w] = r
        BY <3>00, <4>1
      <4>5. MoneyInv'
        BY <2>0, <3>0, <4>2, <4>3, <4>4 DEF MoneyInv
      <4>6. NoNewDebt
        BY <4>2 DEF NoNewDebt
      <4> QED
        BY <4>5, <4>6
    <3>2. CASE Handler(w) \/ Abort(w)
      <4>1. Money(db', Session) /\ NoNewDebt /\ req'[w] = NoRequest
        BY <3>00, <3>2, MoneyStep
      <4> QED
        BY <2>0, <3>0, <4>1 DEF MoneyInv
    <3> QED
      BY <3>1, <3>2
  <2> QED
    BY <2>1, <2>2
<1>3. MoneyInv => PaidIsCovered /\ ChargedOnce
  <2> SUFFICES ASSUME MoneyInv PROVE PaidIsCovered /\ ChargedOnce
    OBVIOUS
  <2>1. \A s : Charged(s) = ChargedOf(db, s) /\ Bill(s) = BillOf(db, s)
    BY DEF Charged, Bill, ChargedOf, BillOf, Payments
  <2>2. ChargedOnce
    BY <2>1 DEF ChargedOnce, MoneyInv, Money, SessOK
  <2>3. PaidIsCovered
    BY DEF PaidIsCovered, MoneyInv, Money, RowOK
  <2> QED
    BY <2>2, <2>3
<1> QED
  BY <1>1, <1>2, <1>3, PTL DEF Spec, PaidInFull
=============================================================================
