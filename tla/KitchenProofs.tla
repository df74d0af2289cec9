----------------------------- MODULE KitchenProofs -----------------------------
(***************************************************************************)
(* Proofs about Kitchen, for any orders, sessions, stations and workers:   *)
(*   TypeCorrect   types, whatever slips                                   *)
(*   Unlost        every line is on one ticket, and                        *)
(*   OneAtATime    a station prepares one ticket of a session at a time,   *)
(*                 if requests about one session do not overlap and the    *)
(*                 cook ticks off what the ticket holds (InTurn)           *)
(***************************************************************************)
EXTENDS Kitchen, FiniteSetTheorems, TLAPS

-----------------------------------------------------------------------------
(* The first and the last of a set of tickets *)

Below(i) == {n \in Ticket : n < i}
Above(i) == {n \in Ticket : n > i}

LEMMA TicketInt == \A n \in Ticket : n \in Int /\ n > 0 /\ n # 0 /\ n <= MaxTickets
BY BoundAssumption DEF Ticket

\* A family of sets of tickets has one that strictly includes no other.
LEMMA SmallestSet ==
  ASSUME NEW F, F # {}, \A A \in F : A \subseteq Ticket
  PROVE  \E A \in F : \A B \in F : ~(B \subseteq A /\ B # A)
<1>1. IsFiniteSet(Ticket)
  BY FS_Interval, BoundAssumption DEF Ticket
<1>2. \A A \in F : IsFiniteSet(A) /\ A \in SUBSET Ticket
  BY <1>1, FS_Subset
<1>3. F \subseteq FiniteSubsetsOf(Ticket)
  BY <1>2 DEF FiniteSubsetsOf
<1>4. \E A \in F : \A B \in F : <<B, A>> \notin StrictSubsetOrdering(Ticket)
  BY <1>3, FS_StrictSubsetOrderingWellFounded, WFMin
<1> QED
  BY <1>2, <1>4 DEF StrictSubsetOrdering

LEMMA HasLast ==
  ASSUME NEW S, S \subseteq Ticket, S # {}
  PROVE  \E n \in S : \A m \in S : m <= n
<1> DEFINE F == {Above(i) : i \in S}
<1>1. F # {} /\ \A A \in F : A \subseteq Ticket
  BY DEF Above
<1>2. \E A \in F : \A B \in F : ~(B \subseteq A /\ B # A)
  <2> HIDE DEF F
  <2> QED
    BY <1>1, SmallestSet
<1>3. PICK n \in S : \A m \in S : ~(Above(m) \subseteq Above(n) /\ Above(m) # Above(n))
  BY <1>2
<1>4. ASSUME NEW m \in S PROVE m <= n
  <2>1. m \in Ticket /\ n \in Ticket /\ m \in Int /\ n \in Int
    BY TicketInt
  <2>2. SUFFICES ASSUME n < m PROVE FALSE
    BY <2>1
  <2>3. m \in Above(n) /\ m \notin Above(m)
    BY <2>1, <2>2 DEF Above
  <2>4. ASSUME NEW i \in Above(m) PROVE i \in Above(n)
    <3>1. i \in Ticket /\ i \in Int
      BY TicketInt DEF Above
    <3> QED
      BY <2>1, <2>2, <3>1 DEF Above
  <2> QED
    BY <1>3, <2>3, <2>4
<1> QED
  BY <1>4

LEMMA HasFirst ==
  ASSUME NEW S, S \subseteq Ticket, S # {}
  PROVE  \E n \in S : \A m \in S : n <= m
<1> DEFINE F == {Below(i) : i \in S}
<1>1. F # {} /\ \A A \in F : A \subseteq Ticket
  BY DEF Below
<1>2. \E A \in F : \A B \in F : ~(B \subseteq A /\ B # A)
  <2> HIDE DEF F
  <2> QED
    BY <1>1, SmallestSet
<1>3. PICK n \in S : \A m \in S : ~(Below(m) \subseteq Below(n) /\ Below(m) # Below(n))
  BY <1>2
<1>4. ASSUME NEW m \in S PROVE n <= m
  <2>1. m \in Ticket /\ n \in Ticket /\ m \in Int /\ n \in Int
    BY TicketInt
  <2>2. SUFFICES ASSUME m < n PROVE FALSE
    BY <2>1
  <2>3. m \in Below(n) /\ m \notin Below(m)
    BY <2>1, <2>2 DEF Below
  <2>4. ASSUME NEW i \in Below(m) PROVE i \in Below(n)
    <3>1. i \in Ticket /\ i \in Int
      BY TicketInt DEF Below
    <3> QED
      BY <2>1, <2>2, <3>1 DEF Below
  <2> QED
    BY <1>3, <2>3, <2>4
<1> QED
  BY <1>4

\* What is found is nothing, or a ticket of the set as it is.
LEMMA FoundOne ==
  ASSUME NEW S, S \subseteq Ticket
  PROVE  /\ IF S = {} THEN Newest(S) = Nothing ELSE \E n \in S : Newest(S) = AsRead(n)
         /\ IF S = {} THEN Oldest(S) = Nothing ELSE \E n \in S : Oldest(S) = AsRead(n)
<1>1. S # {} => Newest(S) = AsRead(CHOOSE n \in S : \A m \in S : m <= n)
  BY DEF Newest
<1>2. S # {} => Oldest(S) = AsRead(CHOOSE n \in S : \A m \in S : n <= m)
  BY DEF Oldest
<1>3. S # {} => (CHOOSE n \in S : \A m \in S : m <= n) \in S
  BY HasLast
<1>4. S # {} => (CHOOSE n \in S : \A m \in S : n <= m) \in S
  BY HasFirst
<1>5. S # {} => \E n \in S : Newest(S) = AsRead(n)
  BY <1>1, <1>3
<1>6. S # {} => \E n \in S : Oldest(S) = AsRead(n)
  BY <1>2, <1>4
<1>7. S = {} => Newest(S) = Nothing /\ Oldest(S) = Nothing
  BY DEF Newest, Oldest
<1> QED
  BY <1>5, <1>6, <1>7

-----------------------------------------------------------------------------
(* Types *)

\* What a press asks for.
Next3 == {"preparing", "ready", "completed"}
Wished == {"waiting"} \cup Next3
Entry == [ticket : Ticket, to : Wished]

\* A request names an order, or a ticket and what it is to become; so does the
\* queue.
GoodReq(r) ==
  /\ r \in Request
  /\ r.pc > 0 => IF r.op = "status" THEN r.ticket \in Ticket /\ r.to \in Wished ELSE r.order \in Order

Requests == req \in [Worker -> Request] /\ \A k \in Worker : GoodReq(req[k])

RowsTyped ==
  /\ ord \in [Order -> {"none", "confirmed", "preparing", "ready", "cancelled"}]
  /\ tk \in [Ticket -> TicketRow] /\ last \in Ticket \cup {0}
  /\ cooked \in [Order -> SUBSET Station]

ScreenTyped ==
  /\ shown \in [Ticket -> Shown] /\ due \in BOOLEAN /\ online \in BOOLEAN
  /\ queue \in Seq(Entry) /\ replay \in Seq(Entry)

Typed == RowsTyped /\ ScreenTyped /\ Requests /\ odd \in Nat

LEMMA SeqEntry ==
  ASSUME NEW s \in Seq(Entry)
  PROVE  s \in Seq(Change)
<1>1. Entry \subseteq Change
  BY DEF Entry, Change, Wished, Next3, Status
<1>2. Len(s) \in Nat /\ s \in [1 .. Len(s) -> Entry]
  OBVIOUS
<1>3. s \in [1 .. Len(s) -> Change]
  BY <1>1, <1>2
<1> QED
  BY <1>2, <1>3

LEMMA EntryFields ==
  /\ \A n \in Ticket, to \in Wished : [ticket |-> n, to |-> to] \in Entry
  /\ \A e \in Entry : e.ticket \in Ticket /\ e.to \in Wished
BY DEF Entry

LEMMA EntryAppend ==
  ASSUME NEW s \in Seq(Entry), NEW e \in Entry
  PROVE  Append(s, e) \in Seq(Entry)
OBVIOUS

LEMMA EntryTail ==
  ASSUME NEW s \in Seq(Entry), s # <<>>
  PROVE  Tail(s) \in Seq(Entry) /\ Head(s) \in Entry
OBVIOUS

LEMMA IdleFields ==
  Idle \in Request /\ Idle.pc = 0 /\ Idle.op = "status"
<1>1. Nothing \in Found
  BY DEF Nothing, Found
<1>2. [s \in Station |-> Nothing] \in [Station -> Found]
  BY <1>1
<1> QED
  BY <1>2 DEF Idle, Request, Status

LEMMA ReqFields ==
  ASSUME NEW r \in Request
  PROVE  /\ r.op \in {"create", "approve", "status"} /\ r.order \in Order \cup {NoOrder}
         /\ r.ticket \in Ticket \cup {0} /\ r.to \in Status /\ r.saw \in [Station -> Found]
         /\ r.by \in {"press", "queue", "nobody"} /\ r.pc \in 0 .. 3
BY DEF Request

LEMMA ReqWith ==
  ASSUME NEW r \in Request
  PROVE  /\ \A x \in {"create", "approve", "status"} : [r EXCEPT !.op = x] \in Request
         /\ \A x \in Order \cup {NoOrder} : [r EXCEPT !.order = x] \in Request
         /\ \A x \in Ticket \cup {0} : [r EXCEPT !.ticket = x] \in Request
         /\ \A x \in Status : [r EXCEPT !.to = x] \in Request
         /\ \A x \in [Station -> Found] : [r EXCEPT !.saw = x] \in Request
         /\ \A x \in {"press", "queue", "nobody"} : [r EXCEPT !.by = x] \in Request
         /\ \A x \in 0 .. 3 : [r EXCEPT !.pc = x] \in Request
BY DEF Request

\* The request of an order.
LEMMA SentRequest ==
  ASSUME NEW op \in {"create", "approve"}, NEW o \in Order
  PROVE  LET r == [Idle EXCEPT !.op = op, !.order = o, !.pc = 1]
         IN  r \in Request /\ r.op = op /\ r.order = o /\ r.pc = 1
<1> DEFINE a == [Idle EXCEPT !.op = op]
           b == [a EXCEPT !.order = o]
           r == [b EXCEPT !.pc = 1]
<1>1. a \in Request
  BY IdleFields, ReqWith
<1>2. b \in Request
  <2> HIDE DEF a
  <2> QED
    BY <1>1, ReqWith
<1>3. r \in Request
  <2>1. 1 \in 0 .. 3
    OBVIOUS
  <2> HIDE DEF b
  <2> QED
    BY <1>2, <2>1, ReqWith
<1>4. r.op = op /\ r.order = o /\ r.pc = 1
  BY DEF Idle
<1> QED
  BY <1>3, <1>4

\* The request of a press, or of the queue.
LEMMA PatchRequest ==
  ASSUME NEW n \in Ticket, NEW to \in Wished, NEW by \in {"press", "queue", "nobody"}
  PROVE  LET r == Patch(n, to, by)
         IN  r \in Request /\ r.op = "status" /\ r.ticket = n /\ r.to = to /\ r.pc = 1
<1> DEFINE a == [Idle EXCEPT !.op = "status"]
           b == [a EXCEPT !.ticket = n]
           c == [b EXCEPT !.to = to]
           d == [c EXCEPT !.by = by]
           r == [d EXCEPT !.pc = 1]
<1>1. a \in Request
  BY IdleFields, ReqWith
<1>2. b \in Request
  <2> HIDE DEF a
  <2> QED
    BY <1>1, ReqWith
<1>3. c \in Request
  <2>1. to \in Status
    BY DEF Wished, Next3, Status
  <2> HIDE DEF b
  <2> QED
    BY <1>2, <2>1, ReqWith
<1>4. d \in Request
  <2> HIDE DEF c
  <2> QED
    BY <1>3, ReqWith
<1>5. r \in Request
  <2>1. 1 \in 0 .. 3
    OBVIOUS
  <2> HIDE DEF d
  <2> QED
    BY <1>4, <2>1, ReqWith
<1>6. Patch(n, to, by) = r
  BY DEF Patch
<1>7. r.op = "status" /\ r.ticket = n /\ r.to = to /\ r.pc = 1
  BY DEF Idle
<1> HIDE DEF r
<1> QED
  BY <1>5, <1>6, <1>7

\* A request that has read keeps what it was, and what it has seen.
LEMMA ReadRequest ==
  ASSUME NEW r \in Request, NEW f \in [Station -> Found]
  PROVE  LET q == [r EXCEPT !.pc = 2, !.saw = f]
         IN  /\ q \in Request /\ q.pc = 2 /\ q.saw = f
             /\ q.op = r.op /\ q.order = r.order /\ q.ticket = r.ticket /\ q.to = r.to
<1> DEFINE a == [r EXCEPT !.pc = 2]
           q == [a EXCEPT !.saw = f]
<1>1. a \in Request
  <2>1. 2 \in 0 .. 3
    OBVIOUS
  <2> QED
    BY <2>1, ReqWith
<1>2. q \in Request
  <2> HIDE DEF a
  <2> QED
    BY <1>1, ReqWith
<1>3. /\ q.pc = 2 /\ q.saw = f
      /\ q.op = r.op /\ q.order = r.order /\ q.ticket = r.ticket /\ q.to = r.to
  BY DEF Request
<1> QED
  BY <1>2, <1>3

\* What a search finds is of the type of what is kept.
LEMMA FoundTyped ==
  ASSUME TypeOK, NEW S, S \subseteq Ticket
  PROVE  Newest(S) \in Found /\ Oldest(S) \in Found
<1>1. \A n \in Ticket : AsRead(n) \in Found
  BY DEF TypeOK, AsRead, Found, TicketRow
<1>2. Nothing \in Found
  BY DEF Nothing, Found
<1> QED
  BY <1>1, <1>2, FoundOne

LEMMA TypedOK == Typed => TypeOK
BY SeqEntry DEF Typed, RowsTyped, ScreenTyped, Requests, TypeOK

\* One worker's request changes.
LEMMA PutReq ==
  ASSUME Requests, NEW k \in Worker, NEW r, GoodReq(r), req' = [req EXCEPT ![k] = r]
  PROVE  Requests' /\ req'[k] = r /\ \A j \in Worker \ {k} : req'[j] = req[j]
<1>1. r \in Request
  BY DEF GoodReq
<1>2. req' \in [Worker -> Request] /\ req'[k] = r /\ \A j \in Worker \ {k} : req'[j] = req[j]
  BY <1>1 DEF Requests
<1>3. \A j \in Worker : GoodReq(req'[j])
  BY <1>2 DEF Requests
<1> QED
  BY <1>2, <1>3 DEF Requests

LEMMA GoodIdle == GoodReq(Idle)
BY IdleFields DEF GoodReq

LEMMA TypedInit == Init => Typed
<1> SUFFICES ASSUME Init PROVE Typed
  OBVIOUS
<1>1. 1 \in Station
  BY BoundAssumption DEF Station
<1>2. NoTicket \in TicketRow /\ Blank \in Shown
  BY <1>1 DEF NoTicket, TicketRow, Status, Blank, Shown
<1>3. RowsTyped
  BY <1>2 DEF Init, RowsTyped
<1>4. ScreenTyped
  <2>1. shown \in [Ticket -> Shown] /\ due \in BOOLEAN /\ online \in BOOLEAN
    BY <1>2 DEF Init
  <2>2. <<>> \in Seq(Entry)
    OBVIOUS
  <2>3. queue \in Seq(Entry) /\ replay \in Seq(Entry)
    BY <2>2 DEF Init
  <2> QED
    BY <2>1, <2>3 DEF ScreenTyped
<1>5. Requests
  BY GoodIdle, IdleFields DEF Init, Requests
<1> QED
  BY <1>3, <1>4, <1>5 DEF Typed, Init

-----------------------------------------------------------------------------
(* Types: the requests that are sent *)

LEMMA SendTyped ==
  ASSUME Typed, NEW k \in Worker, NEW op \in {"create", "approve"}, NEW o \in Order, Send(k, op, o)
  PROVE  Typed'
<1> DEFINE r == [Idle EXCEPT !.op = op, !.order = o, !.pc = 1]
<1>1. r \in Request /\ r.op = op /\ r.order = o /\ r.pc = 1
  BY SentRequest
<1>2. GoodReq(r)
  BY <1>1 DEF GoodReq
<1>3. req' = [req EXCEPT ![k] = r] /\ UNCHANGED <<rows, screen, odd>>
  BY DEF Send
<1> HIDE DEF r
<1>4. Requests'
  BY <1>2, <1>3, PutReq DEF Typed
<1> QED
  BY <1>3, <1>4 DEF Typed, RowsTyped, ScreenTyped, rows, screen

LEMMA KeepTyped ==
  ASSUME Typed, NEW n \in Ticket, NEW to \in Wished, Keep(n, to)
  PROVE  queue' \in Seq(Entry) /\ shown' \in [Ticket -> Shown]
<1> DEFINE e == [ticket |-> n, to |-> to]
<1>1. queue' = Append(queue, e)
  BY DEF Keep
<1>2. e \in Entry
  BY EntryFields
<1>3. shown' = shown \/ shown' = [shown EXCEPT ![n].status = to]
  BY DEF Keep
<1> HIDE DEF e
<1>4. queue' \in Seq(Entry)
  BY <1>1, <1>2, EntryAppend DEF Typed, ScreenTyped
<1>5. shown' \in [Ticket -> Shown]
  BY <1>3 DEF Typed, ScreenTyped, Shown, Wished, Next3, Status
<1> QED
  BY <1>4, <1>5

LEMMA PressTyped ==
  ASSUME Typed, NEW k \in Worker, NEW n \in Ticket, NEW to \in Wished, Press(k, n, to)
  PROVE  RowsTyped' /\ ScreenTyped' /\ Requests'
<1> DEFINE r == Patch(n, to, "press")
<1>1. r \in Request /\ r.op = "status" /\ r.ticket = n /\ r.to = to /\ r.pc = 1
  BY PatchRequest
<1>2. GoodReq(r)
  BY <1>1 DEF GoodReq
<1>3. UNCHANGED <<rows, due, online, replay>>
  BY DEF Press
<1>4. CASE online
  <2>1. req' = [req EXCEPT ![k] = r] /\ UNCHANGED <<shown, queue>>
    BY <1>4 DEF Press
  <2> HIDE DEF r
  <2>2. Requests'
    BY <1>2, <2>1, PutReq DEF Typed
  <2> QED
    BY <1>3, <2>1, <2>2 DEF Typed, RowsTyped, ScreenTyped, rows
<1>5. CASE ~online
  <2>1. Keep(n, to) /\ UNCHANGED req
    BY <1>5 DEF Press
  <2>2. queue' \in Seq(Entry) /\ shown' \in [Ticket -> Shown]
    BY <2>1, KeepTyped
  <2> QED
    BY <1>3, <2>1, <2>2 DEF Typed, RowsTyped, ScreenTyped, Requests, rows
<1> QED
  BY <1>4, <1>5

\* What comes after a column of the screen.
LEMMA Steps ==
  /\ DOMAIN Following = {"waiting", "preparing", "ready"}
  /\ \A t \in DOMAIN Following : t \in Wished /\ Following[t] \in Wished
BY DEF Following, Wished, Next3

LEMMA PressingTyped ==
  ASSUME Typed, NEW k \in Worker, NEW n \in Ticket, NEW to \in Status,
         Advance(k, n) \/ Drag(k, n, to)
  PROVE  Typed'
<1>1. CASE Advance(k, n)
  <2>1. PICK w \in Wished : Press(k, n, w)
    BY <1>1, Steps DEF Advance
  <2>2. odd' = odd
    BY <1>1 DEF Advance
  <2> QED
    BY <2>1, <2>2, PressTyped DEF Typed
<1>2. CASE Drag(k, n, to)
  <2>1. to \in Wished /\ Press(k, n, to)
    BY <1>2, Steps DEF Drag
  <2>2. odd' \in Nat
    BY <1>2 DEF Drag, Odd, Typed
  <2> QED
    BY <2>1, <2>2, PressTyped DEF Typed
<1> QED
  BY <1>1, <1>2

LEMMA ReplayTyped ==
  ASSUME Typed, NEW k \in Worker, Replay(k)
  PROVE  Typed'
<1> DEFINE e == Head(replay)
           r == Patch(e.ticket, e.to, "queue")
<1>1. Tail(replay) \in Seq(Entry) /\ e \in Entry
  BY EntryTail DEF Typed, ScreenTyped, Replay
<1>2. e.ticket \in Ticket /\ e.to \in Wished
  BY <1>1, EntryFields
<1>3. replay' = Tail(replay) /\ UNCHANGED <<rows, shown, due, online, queue, odd>>
  BY DEF Replay
<1>4. req' = req \/ req' = [req EXCEPT ![k] = r]
  BY DEF Replay
<1> HIDE DEF e
<1>5. r \in Request /\ r.op = "status" /\ r.ticket = e.ticket /\ r.to = e.to /\ r.pc = 1
  BY <1>2, PatchRequest
<1>6. GoodReq(r)
  BY <1>2, <1>5 DEF GoodReq
<1> HIDE DEF r
<1>7. Requests'
  <2>1. CASE req' = req
    BY <2>1 DEF Typed, Requests
  <2>2. CASE req' = [req EXCEPT ![k] = r]
    BY <1>6, <2>2, PutReq DEF Typed
  <2> QED
    BY <1>4, <2>1, <2>2
<1> QED
  BY <1>1, <1>3, <1>7 DEF Typed, RowsTyped, ScreenTyped, rows

\* A request whose answer is lost is what it was, or none.
LEMMA UnansweredReq ==
  ASSUME Typed, NEW k \in Worker, Unanswered(k)
  PROVE  \E r : /\ GoodReq(r) /\ req' = [req EXCEPT ![k] = r]
               /\ \/ r = Idle
                  \/ /\ r.op = req[k].op /\ r.order = req[k].order /\ r.ticket = req[k].ticket
                     /\ r.to = req[k].to /\ r.saw = req[k].saw /\ r.pc = req[k].pc
<1> DEFINE q == [req[k] EXCEPT !.by = "nobody"]
<1>1. req[k] \in Request /\ GoodReq(req[k])
  BY DEF Typed, Requests
<1>2. q \in Request
  BY <1>1, ReqWith
<1>3. /\ q.op = req[k].op /\ q.order = req[k].order /\ q.ticket = req[k].ticket
      /\ q.to = req[k].to /\ q.saw = req[k].saw /\ q.pc = req[k].pc
  BY <1>1 DEF Request
<1>4. req' = [req EXCEPT ![k] = q] \/ req' = [req EXCEPT ![k] = Idle]
  BY DEF Unanswered
<1> HIDE DEF q
<1>5. GoodReq(q)
  BY <1>1, <1>2, <1>3 DEF GoodReq
<1>6. CASE req' = [req EXCEPT ![k] = q]
  BY <1>3, <1>5, <1>6
<1>7. CASE req' = [req EXCEPT ![k] = Idle]
  BY <1>7, GoodIdle
<1> QED
  BY <1>4, <1>6, <1>7

LEMMA UnansweredTyped ==
  ASSUME Typed, NEW k \in Worker, Unanswered(k)
  PROVE  Typed'
<1>1. req[k].ticket \in Ticket /\ req[k].to \in Wished
  BY DEF Unanswered, Busy, Typed, Requests, GoodReq
<1>2. queue' \in Seq(Entry) /\ shown' \in [Ticket -> Shown]
  <2>1. Keep(req[k].ticket, req[k].to) \/ UNCHANGED <<shown, queue>>
    BY DEF Unanswered
  <2> QED
    BY <1>1, <2>1, KeepTyped DEF Typed, ScreenTyped
<1>3. Requests'
  BY UnansweredReq, PutReq DEF Typed
<1>4. UNCHANGED <<rows, due, online, replay>> /\ odd' \in Nat
  BY DEF Unanswered, Odd, Typed
<1> QED
  BY <1>2, <1>3, <1>4 DEF Typed, RowsTyped, ScreenTyped, rows

\* A ticket with other lines, or another status, is still one.
LEMMA LinesTyped ==
  ASSUME NEW t \in TicketRow
  PROVE  /\ \A l \in SUBSET Order : [t EXCEPT !.lines = l] \in TicketRow
         /\ \A x \in Status : [t EXCEPT !.status = x] \in TicketRow
BY DEF TicketRow

\* The screen by itself.
LEMMA ScreenSteps ==
  ASSUME Typed, Fetch \/ Network \/ StartReplay \/ \E n \in Ticket : TickOff(n)
  PROVE  Typed'
<1>1. CASE Fetch
  <2>1. \A n \in Ticket : [status |-> tk[n].status, lines |-> tk[n].lines] \in Shown /\ Blank \in Shown
    BY DEF Typed, RowsTyped, TicketRow, Shown, Blank, Status
  <2>2. shown' \in [Ticket -> Shown]
    BY <1>1, <2>1 DEF Fetch, Typed, ScreenTyped
  <2> QED
    BY <1>1, <2>2 DEF Fetch, Typed, RowsTyped, ScreenTyped, Requests, rows
<1>2. CASE Network
  BY <1>2 DEF Network, Odd, Typed, RowsTyped, ScreenTyped, Requests, rows
<1>3. CASE StartReplay
  BY <1>3 DEF StartReplay, Typed, RowsTyped, ScreenTyped, Requests, rows
<1>4. ASSUME NEW n \in Ticket, TickOff(n) PROVE Typed'
  <2>1. shown[n].lines \in SUBSET Order
    BY DEF Typed, ScreenTyped, Shown
  <2>2. tk[n] \in TicketRow
    BY DEF Typed, RowsTyped
  <2>3. [tk[n] EXCEPT !.lines = shown[n].lines] \in TicketRow
    BY <2>1, <2>2, LinesTyped
  <2>4. tk' = [tk EXCEPT ![n] = [tk[n] EXCEPT !.lines = shown[n].lines]]
    BY <1>4 DEF TickOff
  <2>5. tk' \in [Ticket -> TicketRow]
    BY <2>3, <2>4 DEF Typed, RowsTyped
  <2>6. UNCHANGED <<ord, last, cooked, shown, online, queue, replay, req>> /\ due' \in BOOLEAN
    BY <1>4 DEF TickOff
  <2>7. Odd
    BY <1>4 DEF TickOff
  <2>8. odd' \in Nat
    BY <2>7 DEF Odd, Typed
  <2> QED
    BY <2>5, <2>6, <2>8 DEF Typed, RowsTyped, ScreenTyped, Requests
<1> QED
  BY <1>1, <1>2, <1>3, <1>4
-----------------------------------------------------------------------------
(* Types: the requests at the API *)

\* A request that goes on, with what it has seen.
LEMMA GoesOnTyped ==
  ASSUME Typed, NEW k \in Worker, req[k].pc > 0, NEW f \in [Station -> Found],
         req' = [req EXCEPT ![k] = [req[k] EXCEPT !.pc = 2, !.saw = f]],
         UNCHANGED <<rows, screen, odd>>
  PROVE  Typed'
<1> DEFINE q == [req[k] EXCEPT !.pc = 2, !.saw = f]
<1>1. GoodReq(req[k]) /\ req[k] \in Request
  BY DEF Typed, Requests
<1>2. /\ q \in Request
      /\ q.op = req[k].op /\ q.order = req[k].order /\ q.ticket = req[k].ticket /\ q.to = req[k].to
  BY <1>1, ReadRequest
<1>3. GoodReq(q)
  BY <1>1, <1>2 DEF GoodReq
<1> HIDE DEF q
<1>4. Requests'
  <2>1. req' = [req EXCEPT ![k] = q]
    BY DEF q
  <2> QED
    BY <1>3, <2>1, PutReq DEF Typed
<1> QED
  BY <1>4 DEF Typed, RowsTyped, ScreenTyped, rows, screen

LEMMA BuildFindIs ==
  ASSUME NEW k \in Worker, BuildFind(k)
  PROVE  req' = [req EXCEPT ![k] = [req[k] EXCEPT !.pc = 2, !.saw =
           [s \in Station |-> IF s \in Needs[req[k].order] THEN Newest(Joinable(req[k].order, s)) ELSE Nothing]]]
BY DEF BuildFind

LEMMA StatusFindIs ==
  ASSUME NEW k \in Worker, StatusFind(k)
  PROVE  req' = [req EXCEPT ![k] = [req[k] EXCEPT !.pc = 2, !.saw =
           [req[k].saw EXCEPT ![tk[req[k].ticket].station] =
              IF req[k].to = "preparing" THEN Oldest(Same(req[k].ticket)) ELSE Nothing]]]
BY DEF StatusFind

LEMMA NothingFound == Nothing \in Found /\ Nothing.id = 0
BY DEF Nothing, Found

LEMMA BuildFindTyped ==
  ASSUME Typed, NEW k \in Worker, BuildFind(k)
  PROVE  Typed'
<1> DEFINE f == [s \in Station |-> IF s \in Needs[req[k].order] THEN Newest(Joinable(req[k].order, s)) ELSE Nothing]
<1>1. \A s \in Station : Newest(Joinable(req[k].order, s)) \in Found
  <2> TAKE s \in Station
  <2>1. PICK S : S = Joinable(req[k].order, s)
    OBVIOUS
  <2>2. S \subseteq Ticket
    BY <2>1 DEF Joinable, InSession
  <2> QED
    BY <2>1, <2>2, FoundTyped, TypedOK
<1>2. f \in [Station -> Found]
  BY <1>1, NothingFound
<1>3. req[k].pc > 0 /\ UNCHANGED <<rows, screen, odd>>
  BY DEF BuildFind
<1>4. req' = [req EXCEPT ![k] = [req[k] EXCEPT !.pc = 2, !.saw = f]]
  BY BuildFindIs
<1> HIDE DEF f
<1> QED
  BY <1>2, <1>3, <1>4, GoesOnTyped

LEMMA StatusFindTyped ==
  ASSUME Typed, NEW k \in Worker, StatusFind(k)
  PROVE  Typed'
<1> DEFINE s == tk[req[k].ticket].station
           x == IF req[k].to = "preparing" THEN Oldest(Same(req[k].ticket)) ELSE Nothing
           f == [req[k].saw EXCEPT ![s] = x]
<1>1. req[k].pc > 0 /\ UNCHANGED <<rows, screen, odd>>
  BY DEF StatusFind
<1>2. x \in Found
  <2>1. PICK S : S = Same(req[k].ticket)
    OBVIOUS
  <2>2. S \subseteq Ticket
    BY <2>1 DEF Same, InSession
  <2> QED
    BY <2>1, <2>2, FoundTyped, TypedOK, NothingFound
<1>3. req[k].saw \in [Station -> Found]
  BY ReqFields DEF Typed, Requests
<1>4. req' = [req EXCEPT ![k] = [req[k] EXCEPT !.pc = 2, !.saw = f]]
  BY StatusFindIs
<1> HIDE DEF x
<1>5. f \in [Station -> Found]
  BY <1>2, <1>3
<1> HIDE DEF f
<1> QED
  BY <1>1, <1>4, <1>5, GoesOnTyped

LEMMA TellTyped ==
  ASSUME Typed, NEW k \in Worker, Tell(k)
  PROVE  Typed'
<1> DEFINE q == [req[k] EXCEPT !.pc = 3]
<1>1. GoodReq(req[k]) /\ req[k] \in Request
  BY DEF Typed, Requests
<1>2. /\ req[k].pc = 2 /\ req' = [req EXCEPT ![k] = q] /\ due' = online
      /\ UNCHANGED <<rows, shown, online, queue, replay, odd>>
  BY DEF Tell
<1>3. q \in Request
  <2>1. 3 \in 0 .. 3
    OBVIOUS
  <2> QED
    BY <1>1, <2>1, ReqWith
<1>4. q.op = req[k].op /\ q.order = req[k].order /\ q.ticket = req[k].ticket /\ q.to = req[k].to
  BY <1>1 DEF Request
<1>5. GoodReq(q)
  BY <1>1, <1>2, <1>3, <1>4 DEF GoodReq
<1> HIDE DEF q
<1>6. Requests'
  BY <1>2, <1>5, PutReq DEF Typed
<1> QED
  BY <1>2, <1>6 DEF Typed, RowsTyped, ScreenTyped, rows

\* A request ends.
LEMMA EndTyped ==
  ASSUME Typed, NEW k \in Worker, req' = [req EXCEPT ![k] = Idle]
  PROVE  Requests' /\ req'[k] = Idle /\ \A j \in Worker \ {k} : req'[j] = req[j]
<1>1. PICK r : r = Idle
  OBVIOUS
<1>2. GoodReq(r) /\ req' = [req EXCEPT ![k] = r]
  BY <1>1, GoodIdle
<1> QED
  BY <1>1, <1>2, PutReq DEF Typed

LEMMA NotFoundTyped ==
  ASSUME Typed, NEW k \in Worker, NotFound(k)
  PROVE  Typed'
<1>1. req' = [req EXCEPT ![k] = Idle] /\ UNCHANGED <<rows, screen, odd>>
  BY DEF NotFound
<1>2. Requests'
  BY <1>1, EndTyped
<1> QED
  BY <1>1, <1>2 DEF Typed, RowsTyped, ScreenTyped, rows, screen

LEMMA CancelTyped ==
  ASSUME Typed, NEW o \in Order, Cancel(o)
  PROVE  Typed'
<1>1. ord' = [ord EXCEPT ![o] = "cancelled"] /\ UNCHANGED <<last, cooked, screen, req>>
  BY DEF Cancel
<1>2. \A n \in Ticket : tk[n] \in TicketRow /\ [tk[n] EXCEPT !.status = "cancelled"] \in TicketRow
  BY LinesTyped DEF Typed, RowsTyped, Status
<1>3. tk' \in [Ticket -> TicketRow]
  BY <1>2 DEF Cancel
<1>4. Odd
  BY DEF Cancel
<1>5. odd' \in Nat
  BY <1>4 DEF Odd, Typed
<1> QED
  BY <1>1, <1>3, <1>5 DEF Typed, RowsTyped, ScreenTyped, Requests, screen
-----------------------------------------------------------------------------
(* What the commits do *)

Here(n) == tk[n].status # "none"

\* The numbers of new tickets: those that their stations come to.
Rank(S, s) == Cardinality({r \in S : r <= s})

LEMMA Ranks ==
  ASSUME NEW S \in SUBSET Station
  PROVE  /\ Cardinality(S) \in Nat
         /\ \A s \in S : Rank(S, s) \in Nat /\ 1 <= Rank(S, s) /\ Rank(S, s) <= Cardinality(S)
         /\ \A s, t \in S : Rank(S, s) = Rank(S, t) => s = t
<1>1. IsFiniteSet(Station)
  BY FS_Interval, BoundAssumption DEF Station
<1>2. IsFiniteSet(S)
  BY <1>1, FS_Subset
<1>3. Cardinality(S) \in Nat
  BY <1>2, FS_CardinalityType
<1>4. \A s \in S : s \in Int
  BY BoundAssumption DEF Station
<1>5. ASSUME NEW s \in S PROVE Rank(S, s) \in Nat /\ 1 <= Rank(S, s) /\ Rank(S, s) <= Cardinality(S)
  <2> DEFINE T == {r \in S : r <= s}
  <2>1. IsFiniteSet(T) /\ Cardinality(T) <= Cardinality(S)
    <3>1. T \in SUBSET S
      OBVIOUS
    <3> HIDE DEF T
    <3> QED
      BY <1>2, <3>1, FS_Subset
  <2>2. s \in T
    BY <1>4
  <2> HIDE DEF T
  <2>3. Cardinality(T) \in Nat /\ (Cardinality(T) = 0 <=> T = {})
    BY <2>1, FS_CardinalityType, FS_EmptySet
  <2>4. Rank(S, s) = Cardinality(T)
    BY DEF Rank, T
  <2> QED
    BY <2>1, <2>2, <2>3, <2>4
<1>6. ASSUME NEW s \in S, NEW t \in S, s < t PROVE Rank(S, s) # Rank(S, t)
  <2> DEFINE A == {r \in S : r <= s}
             B == {r \in S : r <= t}
  <2>1. \A r \in S : r \in Int
    BY <1>4
  <2>2. A \in SUBSET B /\ t \in B /\ t \notin A /\ B \in SUBSET S
    BY <1>6, <2>1
  <2> HIDE DEF A, B
  <2>3. IsFiniteSet(B)
    BY <1>2, <2>2, FS_Subset
  <2>4. Cardinality(A) # Cardinality(B)
    BY <2>2, <2>3, FS_Subset
  <2>5. Rank(S, s) = Cardinality(A) /\ Rank(S, t) = Cardinality(B)
    BY DEF Rank, A, B
  <2> QED
    BY <2>4, <2>5
<1>7. ASSUME NEW s \in S, NEW t \in S, Rank(S, s) = Rank(S, t) PROVE s = t
  <2>1. s \in Int /\ t \in Int
    BY <1>4
  <2>2. ~(s < t) /\ ~(t < s)
    BY <1>6, <1>7
  <2> QED
    BY <2>1, <2>2
<1> QED
  BY <1>3, <1>5, <1>7

New(r) == {s \in Needs[r.order] : r.saw[s].id = 0}
NewTicket(o, s) == [order |-> o, station |-> s, status |-> "waiting", lines |-> {o}]

\* Ticket n is given to the new lines for s, is joined by those for s, or stays.
Given(r, n, s) == s \in New(r) /\ n = last + Rank(New(r), s)
Joins(r, n, s) == s \in Needs[r.order] /\ r.saw[s].id = n /\ Here(n)

LEMMA SenderFields ==
  ASSUME Typed, NEW k \in Worker, Sending(k), req[k].pc > 0
  PROVE  /\ req[k].order \in Order /\ req[k].op # "status"
         /\ Needs[req[k].order] \in SUBSET Station /\ New(req[k]) \in SUBSET Station
         /\ \A s \in Station : req[k].saw[s].id \in Ticket \cup {0} /\ req[k].saw[s].lines \in SUBSET Order
<1>1. GoodReq(req[k]) /\ req[k] \in Request
  BY DEF Typed, Requests
<1>2. req[k].op # "status"
  BY DEF Sending
<1>3. req[k].order \in Order
  BY <1>1, <1>2 DEF GoodReq
<1>4. Needs[req[k].order] \in SUBSET Station
  BY <1>3, NamesAssumption
<1>5. req[k].saw \in [Station -> Found]
  BY <1>1, ReqFields
<1>6. \A s \in Station : req[k].saw[s].id \in Ticket \cup {0} /\ req[k].saw[s].lines \in SUBSET Order
  BY <1>5 DEF Found
<1> QED
  BY <1>2, <1>3, <1>4, <1>6 DEF New

LEMMA BuildEffect ==
  ASSUME Typed, NEW k \in Worker, BuildCommit(k)
  PROVE  /\ Sending(k) /\ req[k].pc > 1
         /\ ord' = [ord EXCEPT ![req[k].order] = "confirmed"]
         /\ last' = last + Cardinality(New(req[k])) /\ last' <= MaxTickets
         /\ req' = [req EXCEPT ![k] = Idle] /\ UNCHANGED <<cooked, screen, odd>>
         /\ tk' \in [Ticket -> {tk'[n] : n \in Ticket}]
         /\ \A n \in Ticket :
              \/ \E s \in Station : Given(req[k], n, s) /\ tk'[n] = NewTicket(req[k].order, s)
              \/ /\ \A s \in Station : ~Given(req[k], n, s)
                 /\ \/ \E s \in Station : Joins(req[k], n, s) /\ tk'[n] = [tk[n] EXCEPT !.lines = Joined(k, req[k].order, s)]
                    \/ (\A s \in Station : ~Joins(req[k], n, s)) /\ tk'[n] = tk[n]
<1> DEFINE o == req[k].order
           new == {s \in Needs[o] : req[k].saw[s].id = 0}
           IdOf(s) == last + Cardinality({r \in new : r <= s})
           joins(n) == {s \in Needs[o] : req[k].saw[s].id = n /\ tk[n].status # "none"}
<1>1. /\ Sending(k) /\ req[k].pc = (IF req[k].op = "create" THEN 3 ELSE 2)
      /\ ord' = [ord EXCEPT ![o] = "confirmed"]
      /\ last' = last + Cardinality(new) /\ last + Cardinality(new) <= MaxTickets
      /\ req' = [req EXCEPT ![k] = Idle] /\ UNCHANGED <<cooked, screen, odd>>
      /\ tk' = [n \in Ticket |->
           IF \E s \in new : IdOf(s) = n
             THEN [order |-> o, station |-> CHOOSE s \in new : IdOf(s) = n, status |-> "waiting", lines |-> {o}]
           ELSE IF joins(n) # {}
             THEN [tk[n] EXCEPT !.lines = Joined(k, o, CHOOSE s \in joins(n) : TRUE)]
           ELSE tk[n]]
  BY DEF BuildCommit
<1>2. req[k].pc > 1 /\ new = New(req[k])
  BY <1>1 DEF New
<1>3. new \subseteq Station /\ Needs[o] \subseteq Station
  BY <1>1, <1>2, SenderFields
<1>4. \A n \in Ticket, s \in Station : (s \in new /\ IdOf(s) = n) <=> Given(req[k], n, s)
  BY <1>2 DEF Given, Rank
<1>5. \A n \in Ticket, s \in Station : s \in joins(n) <=> Joins(req[k], n, s)
  BY DEF Joins, Here
<1>6. ASSUME NEW n \in Ticket
      PROVE  \/ \E s \in Station : Given(req[k], n, s) /\ tk'[n] = NewTicket(req[k].order, s)
             \/ /\ \A s \in Station : ~Given(req[k], n, s)
                /\ \/ \E s \in Station : Joins(req[k], n, s) /\ tk'[n] = [tk[n] EXCEPT !.lines = Joined(k, req[k].order, s)]
                   \/ (\A s \in Station : ~Joins(req[k], n, s)) /\ tk'[n] = tk[n]
  <2>1. CASE \E s \in new : IdOf(s) = n
    <3> DEFINE c == CHOOSE s \in new : IdOf(s) = n
    <3>1. c \in new /\ IdOf(c) = n
      BY <2>1
    <3>2. tk'[n] = [order |-> o, station |-> c, status |-> "waiting", lines |-> {o}]
      BY <1>1, <2>1
    <3> HIDE DEF c
    <3> QED
      BY <1>3, <1>4, <3>1, <3>2 DEF NewTicket
  <2>2. CASE ~(\E s \in new : IdOf(s) = n) /\ joins(n) # {}
    <3> DEFINE c == CHOOSE s \in joins(n) : TRUE
    <3>1. c \in joins(n)
      BY <2>2
    <3>2. tk'[n] = [tk[n] EXCEPT !.lines = Joined(k, o, c)]
      BY <1>1, <2>2
    <3>3. c \in Station
      BY <1>3, <3>1
    <3> HIDE DEF c
    <3>4. \A s \in Station : ~Given(req[k], n, s)
      BY <1>4, <2>2
    <3> QED
      BY <1>5, <3>1, <3>2, <3>3, <3>4
  <2>3. CASE ~(\E s \in new : IdOf(s) = n) /\ joins(n) = {}
    <3>1. tk'[n] = tk[n]
      BY <1>1, <2>3
    <3> QED
      BY <1>4, <1>5, <2>3, <3>1
  <2> QED
    BY <2>1, <2>2, <2>3
<1>7. tk' \in [Ticket -> {tk'[n] : n \in Ticket}]
  <2>1. tk' = [n \in Ticket |-> tk'[n]]
    BY <1>1
  <2> QED
    BY <2>1
<1> QED
  BY <1>1, <1>2, <1>6, <1>7

LEMMA BuildCommitTyped ==
  ASSUME Typed, NEW k \in Worker, BuildCommit(k)
  PROVE  Typed'
<1> DEFINE o == req[k].order
<1>1. Sending(k) /\ req[k].pc > 0
  BY BuildEffect DEF Typed, Requests, GoodReq, Request
<1>2. /\ o \in Order /\ New(req[k]) \in SUBSET Station
      /\ \A s \in Station : req[k].saw[s].lines \in SUBSET Order
  BY <1>1, SenderFields
<1>3. \A n \in Ticket : tk[n] \in TicketRow
  BY DEF Typed, RowsTyped
<1>4. \A s \in Station : NewTicket(o, s) \in TicketRow
  BY <1>2 DEF NewTicket, TicketRow, Status
<1>5. \A s \in Station : Joined(k, o, s) \in SUBSET Order
  BY <1>2 DEF Joined
<1>6. \A n \in Ticket, s \in Station : [tk[n] EXCEPT !.lines = Joined(k, o, s)] \in TicketRow
  BY <1>3, <1>5, LinesTyped
<1>7. ASSUME NEW n \in Ticket PROVE tk'[n] \in TicketRow
  <2>1. \/ \E s \in Station : tk'[n] = NewTicket(o, s)
        \/ \E s \in Station : tk'[n] = [tk[n] EXCEPT !.lines = Joined(k, o, s)]
        \/ tk'[n] = tk[n]
    BY BuildEffect
  <2> QED
    BY <1>3, <1>4, <1>6, <2>1
<1>8. tk' \in [Ticket -> TicketRow]
  BY <1>7, BuildEffect
<1>9. last' \in Ticket \cup {0}
  <2>1. Cardinality(New(req[k])) \in Nat
    BY <1>2, Ranks
  <2>2. last \in Nat /\ last' = last + Cardinality(New(req[k])) /\ last' <= MaxTickets
    BY BuildEffect, BoundAssumption DEF Typed, RowsTyped, Ticket
  <2> QED
    BY <2>1, <2>2, BoundAssumption DEF Ticket
<1>10. ord' \in [Order -> {"none", "confirmed", "preparing", "ready", "cancelled"}]
  BY BuildEffect DEF Typed, RowsTyped
<1>11. Requests'
  BY BuildEffect, EndTyped
<1>12. UNCHANGED <<cooked, screen, odd>>
  BY BuildEffect
<1> QED
  BY <1>8, <1>9, <1>10, <1>11, <1>12 DEF Typed, RowsTyped, ScreenTyped, screen
\* A change of status: of the ticket, or together with the one it goes to.
Goes(r) == r.saw[tk[r.ticket].station]

LEMMA StatusFields ==
  ASSUME Typed, NEW k \in Worker, req[k].op = "status", req[k].pc > 0
  PROVE  /\ req[k].ticket \in Ticket /\ req[k].to \in Wished /\ req[k].saw \in [Station -> Found]
         /\ tk[req[k].ticket] \in TicketRow /\ tk[req[k].ticket].station \in Station
         /\ tk[req[k].ticket].lines \in SUBSET Order
         /\ tk[req[k].ticket].order \in Order \cup {NoOrder}
         /\ Goes(req[k]).id \in Ticket \cup {0} /\ Goes(req[k]).lines \in SUBSET Order
<1>1. GoodReq(req[k]) /\ req[k] \in Request
  BY DEF Typed, Requests
<1>2. req[k].ticket \in Ticket /\ req[k].to \in Wished
  BY <1>1 DEF GoodReq
<1>3. req[k].saw \in [Station -> Found]
  BY <1>1, ReqFields
<1>4. tk[req[k].ticket] \in TicketRow
  BY <1>2 DEF Typed, RowsTyped
<1>5. /\ tk[req[k].ticket].station \in Station /\ tk[req[k].ticket].lines \in SUBSET Order
      /\ tk[req[k].ticket].order \in Order \cup {NoOrder}
  BY <1>4 DEF TicketRow
<1>6. Goes(req[k]) \in Found
  BY <1>3, <1>5 DEF Goes
<1> QED
  BY <1>2, <1>3, <1>4, <1>5, <1>6 DEF Found

LEMMA StatusEffect ==
  ASSUME Typed, NEW k \in Worker, StatusCommit(k)
  PROVE  LET n == req[k].ticket
             into == Goes(req[k])
         IN
         /\ req[k].op = "status" /\ req[k].pc = 2
         /\ ord' = [ord EXCEPT ![tk[n].order] = OrderStatus(req[k].to)]
         /\ req' = [req EXCEPT ![k] = Idle] /\ due' = online
         /\ UNCHANGED <<last, shown, online, queue, replay, odd>>
         /\ \A m \in Ticket : tk'[m] =
              IF into.id = 0 THEN IF m = n THEN [tk[m] EXCEPT !.status = req[k].to] ELSE tk[m]
              ELSE IF m = n THEN NoTicket
              ELSE IF m = into.id /\ Here(m) THEN [tk[m] EXCEPT !.lines = into.lines \cup tk[n].lines]
              ELSE tk[m]
         /\ tk' \in [Ticket -> {tk'[m] : m \in Ticket}]
         /\ cooked' \in [Order -> SUBSET Station]
<1>1. req[k].op = "status" /\ req[k].pc = 2
  BY DEF StatusCommit
<1>2. req[k].ticket \in Ticket /\ tk[req[k].ticket].station \in Station
  BY <1>1, StatusFields
<1>3. cooked' \in [Order -> SUBSET Station]
  BY <1>2 DEF StatusCommit, Typed, RowsTyped
<1>4. /\ ord' = [ord EXCEPT ![tk[req[k].ticket].order] = OrderStatus(req[k].to)]
      /\ req' = [req EXCEPT ![k] = Idle] /\ due' = online
      /\ UNCHANGED <<last, shown, online, queue, replay, odd>>
  BY DEF StatusCommit
<1>5. tk' = IF Goes(req[k]).id = 0 THEN [tk EXCEPT ![req[k].ticket].status = req[k].to]
        ELSE [m \in Ticket |->
          IF m = req[k].ticket THEN NoTicket
          ELSE IF m = Goes(req[k]).id /\ Here(m)
            THEN [tk[m] EXCEPT !.lines = Goes(req[k]).lines \cup tk[req[k].ticket].lines]
          ELSE tk[m]]
  BY DEF StatusCommit, Goes, Here
<1>6. DOMAIN tk = Ticket
  BY DEF Typed, RowsTyped
<1>7. tk' = [m \in Ticket |-> tk'[m]]
  BY <1>5, <1>6
<1>8. tk' \in [Ticket -> {tk'[m] : m \in Ticket}]
  BY <1>7
<1>9. \A m \in Ticket : tk'[m] =
        IF Goes(req[k]).id = 0 THEN IF m = req[k].ticket THEN [tk[m] EXCEPT !.status = req[k].to] ELSE tk[m]
        ELSE IF m = req[k].ticket THEN NoTicket
        ELSE IF m = Goes(req[k]).id /\ Here(m)
          THEN [tk[m] EXCEPT !.lines = Goes(req[k]).lines \cup tk[req[k].ticket].lines]
        ELSE tk[m]
  BY <1>2, <1>5, <1>6
<1> QED
  BY <1>1, <1>3, <1>4, <1>8, <1>9

LEMMA NoTicketTyped == NoTicket \in TicketRow /\ NoTicket.status = "none"
<1>1. 1 \in Station
  BY BoundAssumption DEF Station
<1> QED
  BY <1>1 DEF NoTicket, TicketRow, Status

LEMMA StatusCommitTyped ==
  ASSUME Typed, NEW k \in Worker, StatusCommit(k)
  PROVE  Typed'
<1>1. req[k].op = "status" /\ req[k].pc = 2 /\ req[k].pc > 0
  BY StatusEffect
<1>2. /\ req[k].to \in Wished /\ req[k].to \in Status
      /\ tk[req[k].ticket].lines \in SUBSET Order /\ Goes(req[k]).lines \in SUBSET Order
  BY <1>1, StatusFields DEF Wished, Next3, Status
<1>3. \A m \in Ticket : tk[m] \in TicketRow
  BY DEF Typed, RowsTyped
<1>4. ASSUME NEW m \in Ticket PROVE tk'[m] \in TicketRow
  <2>1. \/ tk'[m] = [tk[m] EXCEPT !.status = req[k].to]
        \/ tk'[m] = NoTicket
        \/ tk'[m] = [tk[m] EXCEPT !.lines = Goes(req[k]).lines \cup tk[req[k].ticket].lines]
        \/ tk'[m] = tk[m]
    BY StatusEffect
  <2>2. Goes(req[k]).lines \cup tk[req[k].ticket].lines \in SUBSET Order
    BY <1>2
  <2> QED
    BY <1>2, <1>3, <2>1, <2>2, NoTicketTyped, LinesTyped
<1>5. tk' \in [Ticket -> TicketRow]
  BY <1>4, StatusEffect
<1>6. OrderStatus(req[k].to) \in {"confirmed", "preparing", "ready"}
  BY <1>2 DEF OrderStatus, Wished, Next3
<1>7. ord' \in [Order -> {"none", "confirmed", "preparing", "ready", "cancelled"}]
  BY <1>6, StatusEffect DEF Typed, RowsTyped
<1>8. Requests'
  BY StatusEffect, EndTyped
<1>9. /\ due' = online /\ cooked' \in [Order -> SUBSET Station]
      /\ UNCHANGED <<last, shown, online, queue, replay, odd>>
  BY StatusEffect
<1> QED
  BY <1>5, <1>7, <1>8, <1>9 DEF Typed, RowsTyped, ScreenTyped

LEMMA TypedStep == Typed /\ [Next]_vars => Typed'
<1> SUFFICES ASSUME Typed, [Next]_vars PROVE Typed'
  OBVIOUS
<1>1. CASE UNCHANGED vars
  BY <1>1 DEF vars, rows, screen, Typed, RowsTyped, ScreenTyped, Requests
<1>2. ASSUME NEW k \in Worker, Api(k) PROVE Typed'
  BY <1>2, BuildFindTyped, TellTyped, BuildCommitTyped, NotFoundTyped, StatusFindTyped, StatusCommitTyped DEF Api
<1>3. ASSUME NEW k \in Worker, NEW o \in Order, NEW op \in {"create", "approve"}, Send(k, op, o) PROVE Typed'
  BY <1>3, SendTyped
<1>4. ASSUME NEW k \in Worker, NEW n \in Ticket, NEW to \in Status, Advance(k, n) \/ Drag(k, n, to) PROVE Typed'
  BY <1>4, PressingTyped
<1>5. "none" \in Status
  BY DEF Status
<1>6. CASE Next
  BY <1>2, <1>3, <1>4, <1>5, <1>6, ReplayTyped, UnansweredTyped, ScreenSteps, CancelTyped DEF Next
<1> QED
  BY <1>1, <1>6

\* Every variable keeps its type, whatever slips.
THEOREM TypeCorrect == Spec => []TypeOK
  BY TypedInit, TypedStep, TypedOK, PTL DEF Spec
-----------------------------------------------------------------------------
(* One request of a session at a time *)

\* Requests that find tickets of one session do not overlap, and what the cook
\* ticks off is what the ticket holds.
InTurn == "overlap" \notin Slips /\ "stale items" \notin Slips

\* A ticket is for orders that have been sent, and has a station's lines only.
Rows ==
  \A n \in Ticket :
    /\ n > last => ~Here(n)
    /\ Here(n) => /\ tk[n].order \in Order /\ ord[tk[n].order] # "none"
                  /\ \A o \in tk[n].lines : ord[o] # "none" /\ tk[n].station \in Needs[o]

\* An order has one ticket of its own for a station.
Origin ==
  \A n, m \in Ticket :
    Here(n) /\ Here(m) /\ tk[n].order = tk[m].order /\ tk[n].station = tk[m].station => n = m

\* LinesKept, without counting.
Lines == \A o \in Order : ord[o] # "none" => \A s \in Needs[o] : \E n \in Ticket : Holders(o, s) = {n}

\* An order is sent once.
OneSender ==
  \A k \in Worker : Busy(k) /\ Sending(k) =>
    /\ ord[req[k].order] = "none"
    /\ \A j \in Worker \ {k} : Busy(j) /\ Sending(j) => req[j].order # req[k].order

Turns ==
  \A j, k \in Worker :
    j # k /\ req[j].pc > 1 /\ req[k].pc > 1 => ~SameSession(About(req[j]), About(req[k]))

\* What a request has found is still so when it writes.
Merges(r) ==
  /\ Here(r.ticket)
  /\ IF Goes(r).id = 0 THEN r.to = "preparing" => Same(r.ticket) = {}
     ELSE /\ r.to = "preparing" /\ Goes(r).id \in Same(r.ticket)
          /\ Goes(r).lines = tk[Goes(r).id].lines

Adds(r) ==
  \A s \in Needs[r.order] : r.saw[s].id # 0 =>
    r.saw[s].id \in Joinable(r.order, s) /\ r.saw[s].lines = tk[r.saw[s].id].lines

Kept ==
  \A k \in Worker : req[k].pc > 1 =>
    IF req[k].op = "status" THEN Merges(req[k]) ELSE Adds(req[k])

KitchenInv == Typed /\ Rows /\ Origin /\ Lines /\ OnePreparing /\ OneSender /\ Turns /\ Kept

LEMMA SessionsOf ==
  /\ \A o : SameSession(o, o)
  /\ \A o, p : SameSession(o, p) => SameSession(p, o)
  /\ \A o, p, q : SameSession(o, p) /\ SameSession(p, q) => SameSession(o, q)
BY DEF SameSession

LEMMA InitKitchen == Init => KitchenInv
<1> SUFFICES ASSUME Init PROVE KitchenInv
  OBVIOUS
<1>1. \A n \in Ticket : ~Here(n)
  BY NoTicketTyped DEF Init, Here
<1>2. \A k \in Worker : req[k].pc = 0
  BY IdleFields DEF Init
<1>3. Rows /\ Origin /\ Lines /\ OneSender /\ Turns /\ Kept
  BY <1>1, <1>2 DEF Init, Rows, Origin, Lines, OneSender, Turns, Kept, Busy
<1>4. OnePreparing
  BY <1>1 DEF OnePreparing, Here
<1> QED
  BY <1>3, <1>4, TypedInit DEF KitchenInv

LEMMA LinesAreKept == Lines => LinesKept
<1> SUFFICES ASSUME Lines, NEW o \in Order, ord[o] # "none", NEW s \in Needs[o]
             PROVE  Cardinality(Holders(o, s)) = 1
  BY DEF LinesKept
<1>1. PICK n \in Ticket : Holders(o, s) = {n}
  BY DEF Lines
<1>2. Cardinality({n}) = 1
  BY FS_Singleton
<1> QED
  BY <1>1, <1>2

-----------------------------------------------------------------------------
(* Steps that write no ticket *)

\* A request goes on as it is, ends, begins, or is told about.
Calm ==
  /\ tk' = tk /\ ord' = ord /\ last' = last
  /\ \A k \in Worker :
       req'[k].pc > 1 => /\ req[k].pc > 1 /\ req'[k].op = req[k].op /\ req'[k].order = req[k].order
                         /\ req'[k].ticket = req[k].ticket /\ req'[k].to = req[k].to /\ req'[k].saw = req[k].saw

SameRows == tk' = tk /\ ord' = ord /\ last' = last

LEMMA SameRowsKeep ==
  ASSUME KitchenInv, SameRows
  PROVE  Rows' /\ Origin' /\ Lines' /\ OnePreparing'
<1>1. Rows' /\ Origin'
  BY DEF KitchenInv, SameRows, Rows, Origin, Here
<1>2. Lines'
  BY DEF KitchenInv, SameRows, Lines, Holders
<1>3. OnePreparing'
  BY DEF KitchenInv, SameRows, OnePreparing
<1> QED
  BY <1>1, <1>2, <1>3

\* What is found does not depend on who has found it.
LEMMA SameFound ==
  ASSUME SameRows, NEW q, NEW r,
         q.op = r.op, q.order = r.order, q.ticket = r.ticket, q.to = r.to, q.saw = r.saw
  PROVE  Merges(r) => Merges(q)'
BY DEF SameRows, Merges, Goes, Same, InSession, Here

LEMMA SameAdds ==
  ASSUME SameRows, NEW q, NEW r, q.order = r.order, q.saw = r.saw
  PROVE  Adds(r) => Adds(q)'
BY DEF SameRows, Adds, Joinable, InSession

LEMMA SameAbout ==
  ASSUME SameRows, NEW q, NEW r, q.op = r.op, q.order = r.order, q.ticket = r.ticket
  PROVE  About(q)' = About(r)
BY DEF SameRows, About

LEMMA CalmInv ==
  ASSUME KitchenInv, Typed', Calm, OneSender'
  PROVE  KitchenInv'
<1>1. SameRows
  BY DEF Calm, SameRows
<1>2. ASSUME NEW k \in Worker, req'[k].pc > 1
      PROVE  /\ req[k].pc > 1 /\ (About(req[k]))' = About(req[k])
             /\ IF req'[k].op = "status" THEN (Merges(req[k]))' ELSE (Adds(req[k]))'
  <2>1. PICK q, r : q = req'[k] /\ r = req[k]
    OBVIOUS
  <2>2. /\ r.pc > 1 /\ q.op = r.op /\ q.order = r.order
        /\ q.ticket = r.ticket /\ q.to = r.to /\ q.saw = r.saw
    BY <1>2, <2>1 DEF Calm
  <2>3. IF r.op = "status" THEN Merges(r) ELSE Adds(r)
    BY <2>1, <2>2 DEF KitchenInv, Kept
  <2>4. (Merges(r) => Merges(q)') /\ (Adds(r) => Adds(q)') /\ About(q)' = About(r)
    BY <1>1, <2>2, SameFound, SameAdds, SameAbout
  <2>5. /\ (Merges(req[k]))' <=> Merges(q)'
        /\ (Adds(req[k]))' <=> Adds(q)'
        /\ (About(req[k]))' = About(q)'
    BY <2>1 DEF Merges, Adds, About, Goes, Same, Here
  <2> QED
    BY <2>1, <2>2, <2>3, <2>4, <2>5
<1>3. Kept'
  BY <1>2 DEF Kept
<1>4. Turns'
  <2> SUFFICES ASSUME NEW j \in Worker, NEW k \in Worker, j # k, req'[j].pc > 1, req'[k].pc > 1
               PROVE  ~SameSession((About(req[j]))', (About(req[k]))')
    BY DEF Turns, SameSession
  <2> QED
    BY <1>2 DEF KitchenInv, Turns
<1> QED
  BY <1>1, <1>3, <1>4, SameRowsKeep DEF KitchenInv
\* Nobody else is about to send an order.
LEMMA FewerSenders ==
  ASSUME OneSender, ord' = ord,
         \A k \in Worker : req'[k].pc > 0 /\ req'[k].op # "status" =>
           req[k].pc > 0 /\ req'[k].op = req[k].op /\ req'[k].order = req[k].order
  PROVE  OneSender'
BY DEF OneSender, Busy, Sending

\* One worker's request ends, or is a status change that has read nothing.
LEMMA QuietInv ==
  ASSUME KitchenInv, Typed', SameRows, NEW k \in Worker,
         \A j \in Worker \ {k} : req'[j] = req[j],
         req'[k] = req[k] \/ req'[k].pc = 0 \/ (req'[k].pc = 1 /\ req'[k].op = "status")
  PROVE  KitchenInv'
<1>1. Calm
  <2> SUFFICES ASSUME NEW j \in Worker, req'[j].pc > 1 PROVE req'[j] = req[j]
    BY DEF Calm, SameRows
  <2> QED
    OBVIOUS
<1>2. OneSender'
  <2>1. ASSUME NEW j \in Worker, req'[j].pc > 0, req'[j].op # "status" PROVE req'[j] = req[j]
    BY <2>1
  <2> QED
    BY <2>1, FewerSenders DEF KitchenInv, SameRows
<1> QED
  BY <1>1, <1>2, CalmInv

LEMMA SendInv ==
  ASSUME KitchenInv, NEW k \in Worker, NEW op \in {"create", "approve"}, NEW o \in Order, Send(k, op, o)
  PROVE  KitchenInv'
<1> DEFINE r == [Idle EXCEPT !.op = op, !.order = o, !.pc = 1]
<1>1. r \in Request /\ r.op = op /\ r.order = o /\ r.pc = 1
  BY SentRequest
<1>2. GoodReq(r)
  BY <1>1 DEF GoodReq
<1>3. /\ req' = [req EXCEPT ![k] = r] /\ UNCHANGED rows
      /\ ord[o] = "none" /\ \A j \in Worker : req[j].order # o
  BY DEF Send
<1> HIDE DEF r
<1>4. req'[k] = r /\ \A j \in Worker \ {k} : req'[j] = req[j]
  BY <1>2, <1>3, PutReq DEF KitchenInv, Typed
<1>5. Typed'
  BY SendTyped DEF KitchenInv
<1>6. Calm
  <2> SUFFICES ASSUME NEW j \in Worker, req'[j].pc > 1 PROVE req'[j] = req[j]
    BY <1>3 DEF Calm, rows
  <2> QED
    BY <1>1, <1>4
<1>7. OneSender'
  BY <1>1, <1>3, <1>4 DEF KitchenInv, OneSender, Busy, Sending, rows
<1> QED
  BY <1>5, <1>6, <1>7, CalmInv

LEMMA PressInv ==
  ASSUME KitchenInv, Typed', NEW k \in Worker, NEW n \in Ticket, NEW to \in Wished, Press(k, n, to)
  PROVE  KitchenInv'
<1> DEFINE r == Patch(n, to, "press")
<1>1. r \in Request /\ r.op = "status" /\ r.ticket = n /\ r.to = to /\ r.pc = 1
  BY PatchRequest
<1>2. GoodReq(r)
  BY <1>1 DEF GoodReq
<1>3. UNCHANGED rows /\ (req' = req \/ req' = [req EXCEPT ![k] = r])
  BY DEF Press, rows
<1> HIDE DEF r
<1>4. /\ \A j \in Worker \ {k} : req'[j] = req[j]
      /\ req'[k] = req[k] \/ req'[k] = r
  BY <1>2, <1>3, PutReq DEF KitchenInv, Typed
<1> QED
  BY <1>1, <1>3, <1>4, QuietInv DEF SameRows, rows

LEMMA PressingInv ==
  ASSUME KitchenInv, NEW k \in Worker, NEW n \in Ticket, NEW to \in Status,
         Advance(k, n) \/ Drag(k, n, to)
  PROVE  KitchenInv'
<1>1. Typed'
  BY PressingTyped DEF KitchenInv
<1>2. CASE Advance(k, n)
  <2>1. PICK w \in Wished : Press(k, n, w)
    BY <1>2, Steps DEF Advance
  <2> QED
    BY <1>1, <2>1, PressInv
<1>3. CASE Drag(k, n, to)
  <2>1. to \in Wished /\ Press(k, n, to)
    BY <1>3, Steps DEF Drag
  <2> QED
    BY <1>1, <2>1, PressInv
<1> QED
  BY <1>2, <1>3

LEMMA ReplayInv ==
  ASSUME KitchenInv, NEW k \in Worker, Replay(k)
  PROVE  KitchenInv'
<1> DEFINE e == Head(replay)
           r == Patch(e.ticket, e.to, "queue")
<1>1. Typed'
  BY ReplayTyped DEF KitchenInv
<1>2. e \in Entry
  BY EntryTail DEF KitchenInv, Typed, ScreenTyped, Replay
<1>3. e.ticket \in Ticket /\ e.to \in Wished
  BY <1>2, EntryFields
<1>4. UNCHANGED rows /\ (req' = req \/ req' = [req EXCEPT ![k] = r])
  BY DEF Replay
<1> HIDE DEF e
<1>5. r \in Request /\ r.op = "status" /\ r.ticket = e.ticket /\ r.to = e.to /\ r.pc = 1
  BY <1>3, PatchRequest
<1>6. GoodReq(r)
  BY <1>3, <1>5 DEF GoodReq
<1> HIDE DEF r
<1>7. /\ \A j \in Worker \ {k} : req'[j] = req[j]
      /\ req'[k] = req[k] \/ req'[k] = r
  BY <1>4, <1>6, PutReq DEF KitchenInv, Typed
<1> QED
  BY <1>1, <1>4, <1>5, <1>7, QuietInv DEF SameRows, rows

LEMMA UnansweredInv ==
  ASSUME KitchenInv, NEW k \in Worker, Unanswered(k)
  PROVE  KitchenInv'
<1>1. Typed'
  BY UnansweredTyped DEF KitchenInv
<1>2. UNCHANGED rows
  BY DEF Unanswered
<1>3. PICK r : /\ GoodReq(r) /\ req' = [req EXCEPT ![k] = r]
               /\ \/ r = Idle
                  \/ /\ r.op = req[k].op /\ r.order = req[k].order /\ r.ticket = req[k].ticket
                     /\ r.to = req[k].to /\ r.saw = req[k].saw /\ r.pc = req[k].pc
  BY UnansweredReq DEF KitchenInv
<1>4. req'[k] = r /\ \A j \in Worker \ {k} : req'[j] = req[j]
  BY <1>3, PutReq DEF KitchenInv, Typed
<1>5. CASE r = Idle
  BY <1>1, <1>2, <1>4, <1>5, IdleFields, QuietInv DEF SameRows, rows
<1>6. CASE r # Idle
  <2>1. \A j \in Worker :
          /\ req'[j].op = req[j].op /\ req'[j].order = req[j].order /\ req'[j].ticket = req[j].ticket
          /\ req'[j].to = req[j].to /\ req'[j].saw = req[j].saw /\ req'[j].pc = req[j].pc
    BY <1>3, <1>4, <1>6
  <2>2. Calm
    BY <1>2, <2>1 DEF Calm, rows
  <2>3. OneSender'
    BY <1>2, <2>1, FewerSenders DEF KitchenInv, rows
  <2> QED
    BY <1>1, <2>2, <2>3, CalmInv
<1> QED
  BY <1>5, <1>6

LEMMA NotFoundInv ==
  ASSUME KitchenInv, NEW k \in Worker, NotFound(k)
  PROVE  KitchenInv'
<1>1. req' = [req EXCEPT ![k] = Idle] /\ UNCHANGED rows
  BY DEF NotFound
<1>2. req'[k] = Idle /\ \A j \in Worker \ {k} : req'[j] = req[j]
  BY <1>1, EndTyped DEF KitchenInv
<1>3. Typed'
  BY NotFoundTyped DEF KitchenInv
<1> QED
  BY <1>1, <1>2, <1>3, IdleFields, QuietInv DEF SameRows, rows

LEMMA TellInv ==
  ASSUME KitchenInv, NEW k \in Worker, Tell(k)
  PROVE  KitchenInv'
<1> DEFINE q == [req[k] EXCEPT !.pc = 3]
<1>1. req[k] \in Request
  BY DEF KitchenInv, Typed, Requests
<1>2. req[k].pc = 2 /\ req' = [req EXCEPT ![k] = q] /\ UNCHANGED rows
  BY DEF Tell
<1>3. /\ q.pc = 3 /\ q.op = req[k].op /\ q.order = req[k].order
      /\ q.ticket = req[k].ticket /\ q.to = req[k].to /\ q.saw = req[k].saw
  BY <1>1 DEF Request
<1>4. req'[k] = q /\ \A j \in Worker \ {k} : req'[j] = req[j]
  BY <1>2 DEF KitchenInv, Typed, Requests
<1> HIDE DEF q
<1>5. Calm
  BY <1>2, <1>3, <1>4 DEF Calm, rows
<1>6. OneSender'
  <2>1. \A j \in Worker : req'[j].pc > 0 /\ req'[j].op # "status" =>
          req[j].pc > 0 /\ req'[j].op = req[j].op /\ req'[j].order = req[j].order
    BY <1>2, <1>3, <1>4
  <2> QED
    BY <1>2, <2>1, FewerSenders DEF KitchenInv, rows
<1>7. Typed'
  BY TellTyped DEF KitchenInv
<1> QED
  BY <1>5, <1>6, <1>7, CalmInv

\* The screen; in turn, what is ticked off is what there is.
LEMMA ScreenInv ==
  ASSUME InTurn, KitchenInv, Fetch \/ Network \/ StartReplay \/ \E n \in Ticket : TickOff(n)
  PROVE  KitchenInv'
<1>1. Typed'
  BY ScreenSteps DEF KitchenInv
<1>2. ASSUME NEW n \in Ticket, TickOff(n) PROVE SameRows /\ req' = req
  <2>1. shown[n].lines = tk[n].lines
    BY <1>2 DEF TickOff, InTurn
  <2>2. tk' = [tk EXCEPT ![n].lines = tk[n].lines] /\ UNCHANGED <<ord, last, req>>
    BY <1>2, <2>1 DEF TickOff
  <2>3. tk[n] \in TicketRow /\ DOMAIN tk = Ticket
    BY DEF KitchenInv, Typed, RowsTyped
  <2>4. [tk[n] EXCEPT !.lines = tk[n].lines] = tk[n]
    BY <2>3 DEF TicketRow
  <2>5. tk' = [tk EXCEPT ![n] = tk[n]]
    BY <2>2, <2>4
  <2>6. tk' = tk
    BY <2>3, <2>5 DEF KitchenInv, Typed, RowsTyped
  <2> QED
    BY <2>2, <2>6 DEF SameRows
<1>3. SameRows /\ req' = req
  BY <1>2 DEF Fetch, Network, StartReplay, SameRows, rows
<1>4. Calm
  BY <1>3 DEF Calm, SameRows
<1>5. OneSender'
  BY <1>3, FewerSenders DEF KitchenInv, SameRows
<1> QED
  BY <1>1, <1>4, <1>5, CalmInv
-----------------------------------------------------------------------------
(* Finding tickets *)

\* What has been found is there, and nobody else of the session has found any.
LEMMA FindInv ==
  ASSUME InTurn, KitchenInv, Typed', SameRows, NEW k \in Worker, req[k].pc = 1, MayRead(k),
         NEW q, req' = [req EXCEPT ![k] = q], q.pc = 2,
         q.op = req[k].op, q.order = req[k].order, q.ticket = req[k].ticket, q.to = req[k].to,
         IF q.op = "status" THEN Merges(q) ELSE Adds(q)
  PROVE  KitchenInv'
<1>1. req'[k] = q /\ \A j \in Worker \ {k} : req'[j] = req[j]
  BY DEF KitchenInv, Typed, Requests
<1>2. OneSender'
  <2>1. \A j \in Worker : req'[j].pc > 0 /\ req'[j].op # "status" =>
          req[j].pc > 0 /\ req'[j].op = req[j].op /\ req'[j].order = req[j].order
    BY <1>1
  <2> QED
    BY <2>1, FewerSenders DEF KitchenInv, SameRows
<1>3. ASSUME NEW j \in Worker
      PROVE  /\ (About(req[j]))' = About(req[j])
             /\ j # k => (Merges(req[j]) => (Merges(req[j]))') /\ (Adds(req[j]) => (Adds(req[j]))')
  <2>1. PICK p, r : p = req'[j] /\ r = req[j]
    OBVIOUS
  <2>2. p.op = r.op /\ p.order = r.order /\ p.ticket = r.ticket /\ p.to = r.to
    BY <1>1, <2>1
  <2>3. About(p)' = About(r)
    BY <2>2, SameAbout
  <2>4. j # k => p = r
    BY <1>1, <2>1
  <2>5. j # k => (Merges(r) => Merges(p)') /\ (Adds(r) => Adds(p)')
    BY <2>4, SameFound, SameAdds
  <2>6. /\ (Merges(req[j]))' <=> Merges(p)'
        /\ (Adds(req[j]))' <=> Adds(p)'
        /\ (About(req[j]))' = About(p)'
    BY <2>1 DEF Merges, Adds, About, Goes, Same, Here
  <2> QED
    BY <2>1, <2>3, <2>5, <2>6
<1>4. IF q.op = "status" THEN Merges(q)' ELSE Adds(q)'
  BY SameFound, SameAdds
<1>5. Kept'
  <2> SUFFICES ASSUME NEW j \in Worker, req'[j].pc > 1
               PROVE  IF req'[j].op = "status" THEN (Merges(req[j]))' ELSE (Adds(req[j]))'
    BY DEF Kept
  <2>1. CASE j = k
    <3>1. (Merges(req[k]))' <=> Merges(q)'
      BY <1>1 DEF Merges, Goes, Same, Here
    <3>2. (Adds(req[k]))' <=> Adds(q)'
      BY <1>1 DEF Adds
    <3> QED
      BY <1>1, <1>4, <2>1, <3>1, <3>2
  <2>2. CASE j # k
    BY <1>1, <1>3, <2>2 DEF KitchenInv, Kept
  <2> QED
    BY <2>1, <2>2
<1>6. Turns'
  <2> SUFFICES ASSUME NEW i \in Worker, NEW j \in Worker, i # j, req'[i].pc > 1, req'[j].pc > 1
               PROVE  ~SameSession((About(req[i]))', (About(req[j]))')
    BY DEF Turns, SameSession
  <2>1. \A h \in Worker \ {k} : req[h].pc > 1 => ~SameSession(About(req[h]), About(req[k]))
    BY DEF MayRead, InTurn
  <2>2. ~SameSession(About(req[i]), About(req[j]))
    BY <1>1, <2>1, SessionsOf DEF KitchenInv, Turns
  <2> QED
    BY <1>3, <2>2
<1> QED
  BY <1>2, <1>5, <1>6, SameRowsKeep DEF KitchenInv

LEMMA BuildFindInv ==
  ASSUME InTurn, KitchenInv, NEW k \in Worker, BuildFind(k)
  PROVE  KitchenInv'
<1> DEFINE o == req[k].order
           f == [s \in Station |-> IF s \in Needs[o] THEN Newest(Joinable(o, s)) ELSE Nothing]
           q == [req[k] EXCEPT !.pc = 2, !.saw = f]
<1>1. req[k].pc = 1 /\ Sending(k) /\ MayRead(k) /\ UNCHANGED rows
  BY DEF BuildFind
<1>2. req[k] \in Request /\ Needs[o] \in SUBSET Station /\ req[k].op # "status"
  BY <1>1, SenderFields DEF KitchenInv, Typed, Requests
<1>3. req' = [req EXCEPT ![k] = q]
  BY BuildFindIs
<1>4. ASSUME NEW s \in Needs[o], f[s].id # 0
      PROVE  f[s].id \in Joinable(o, s) /\ f[s].lines = tk[f[s].id].lines
  <2>1. s \in Station /\ f[s] = Newest(Joinable(o, s))
    BY <1>2
  <2>2. PICK S : S = Joinable(o, s)
    OBVIOUS
  <2>3. S \subseteq Ticket
    BY <2>2 DEF Joinable, InSession
  <2>4. PICK n \in S : f[s] = AsRead(n)
    BY <1>4, <2>1, <2>2, <2>3, FoundOne, NothingFound
  <2> QED
    BY <2>2, <2>4 DEF AsRead
<1>5. /\ q.pc = 2 /\ q.saw = f /\ q.op = req[k].op
      /\ q.order = o /\ q.ticket = req[k].ticket /\ q.to = req[k].to
  BY <1>2 DEF Request
<1> HIDE DEF f
<1> HIDE DEF q
<1>6. Adds(q)
  BY <1>4, <1>5 DEF Adds
<1>7. Typed'
  BY BuildFindTyped DEF KitchenInv
<1>8. SameRows
  BY <1>1 DEF SameRows, rows
<1> QED
  BY <1>1, <1>2, <1>3, <1>5, <1>6, <1>7, <1>8, FindInv

LEMMA StatusFindInv ==
  ASSUME InTurn, KitchenInv, NEW k \in Worker, StatusFind(k)
  PROVE  KitchenInv'
<1> DEFINE n == req[k].ticket
           s == tk[n].station
           x == IF req[k].to = "preparing" THEN Oldest(Same(n)) ELSE Nothing
           f == [req[k].saw EXCEPT ![s] = x]
           q == [req[k] EXCEPT !.pc = 2, !.saw = f]
<1>1. req[k].pc = 1 /\ req[k].op = "status" /\ Here(n) /\ MayRead(k) /\ UNCHANGED rows
  BY DEF StatusFind, Here
<1>2. /\ req[k] \in Request /\ n \in Ticket /\ s \in Station /\ req[k].saw \in [Station -> Found]
  BY <1>1, StatusFields DEF KitchenInv, Typed, Requests
<1>3. req' = [req EXCEPT ![k] = q]
  BY StatusFindIs
<1>4. IF x.id = 0 THEN req[k].to = "preparing" => Same(n) = {}
      ELSE req[k].to = "preparing" /\ x.id \in Same(n) /\ x.lines = tk[x.id].lines
  <2>1. PICK S : S = Same(n)
    OBVIOUS
  <2>2. S \subseteq Ticket
    BY <2>1 DEF Same, InSession
  <2>3. CASE req[k].to = "preparing"
    <3>1. x = Oldest(S)
      BY <2>1, <2>3
    <3>2. CASE S = {}
      BY <2>1, <2>2, <2>3, <3>1, <3>2, FoundOne, NothingFound
    <3>3. CASE S # {}
      <4>1. PICK m \in S : x = AsRead(m)
        BY <2>2, <3>1, <3>3, FoundOne
      <4>2. x.id = m /\ x.lines = tk[m].lines
        BY <4>1 DEF AsRead
      <4>3. m # 0
        BY <2>2, TicketInt
      <4> HIDE DEF x
      <4> QED
        BY <2>1, <2>3, <4>2, <4>3
    <3> QED
      BY <3>2, <3>3
  <2>4. CASE req[k].to # "preparing"
    BY <2>4, NothingFound
  <2> QED
    BY <2>3, <2>4
<1> HIDE DEF x
<1>5. f[s] = x
  BY <1>2
<1>6. /\ q.pc = 2 /\ q.saw = f /\ q.op = req[k].op
      /\ q.order = req[k].order /\ q.ticket = n /\ q.to = req[k].to
  BY <1>2 DEF Request
<1> HIDE DEF f
<1> HIDE DEF q
<1>7. Goes(q) = x
  BY <1>5, <1>6 DEF Goes
<1>8. Merges(q)
  BY <1>1, <1>4, <1>6, <1>7 DEF Merges
<1>9. Typed'
  BY StatusFindTyped DEF KitchenInv
<1>10. SameRows
  BY <1>1 DEF SameRows, rows
<1> QED
  BY <1>1, <1>3, <1>6, <1>8, <1>9, <1>10, FindInv
-----------------------------------------------------------------------------
(* Writing tickets *)

\* Only tickets of o's session change.
Within(o) ==
  \A m \in Ticket : tk'[m] # tk[m] =>
    /\ Here(m) => SameSession(tk[m].order, o)
    /\ tk'[m].status # "none" => SameSession(tk'[m].order, o)

LEMMA Elsewhere ==
  ASSUME NEW o, Within(o), NEW p, ~SameSession(p, o), NEW s, NEW status, status # "none"
  PROVE  InSession(p, s, status)' = InSession(p, s, status)
         /\ \A m \in InSession(p, s, status) : tk'[m] = tk[m]
<1>1. ASSUME NEW m \in Ticket
      PROVE  /\ m \in InSession(p, s, status)' <=> m \in InSession(p, s, status)
             /\ m \in InSession(p, s, status) => tk'[m] = tk[m]
  <2>1. CASE tk'[m] = tk[m]
    BY <2>1 DEF InSession
  <2>2. CASE tk'[m] # tk[m]
    <3>1. m \notin InSession(p, s, status)
      BY <2>2, SessionsOf DEF Within, InSession, Here, SameSession
    <3>2. m \notin InSession(p, s, status)'
      BY <2>2, SessionsOf DEF Within, InSession, Here, SameSession
    <3> QED
      BY <3>1, <3>2
  <2> QED
    BY <2>1, <2>2
<1>2. InSession(p, s, status) \subseteq Ticket /\ InSession(p, s, status)' \subseteq Ticket
  BY DEF InSession
<1> QED
  BY <1>1, <1>2

LEMMA ElsewhereMerges ==
  ASSUME NEW o, Within(o), NEW r, r.ticket \in Ticket, Merges(r), ~SameSession(tk[r.ticket].order, o)
  PROVE  Merges(r)' /\ tk'[r.ticket] = tk[r.ticket]
<1> DEFINE n == r.ticket
<1>1. tk'[n] = tk[n]
  BY DEF Within, Merges
<1>2. PICK p, s : p = tk[n].order /\ s = tk[n].station
  OBVIOUS
<1>3. /\ InSession(p, s, "preparing")' = InSession(p, s, "preparing")
      /\ \A m \in InSession(p, s, "preparing") : tk'[m] = tk[m]
  BY <1>2, Elsewhere
<1>4. Same(n) = InSession(p, s, "preparing") \ {n}
  BY <1>2 DEF Same
<1>5. Same(n)' = InSession(p, s, "preparing")' \ {n}
  BY <1>1, <1>2 DEF Same, InSession
<1>6. Same(n)' = Same(n) /\ \A m \in Same(n) : tk'[m] = tk[m]
  BY <1>3, <1>4, <1>5
<1>7. Goes(r)' = Goes(r)
  BY <1>1 DEF Goes
<1>8. Here(n)'
  BY <1>1 DEF Merges, Here
<1> QED
  BY <1>1, <1>6, <1>7, <1>8 DEF Merges

LEMMA ElsewhereAdds ==
  ASSUME NEW o, Within(o), NEW r, Adds(r), ~SameSession(r.order, o)
  PROVE  Adds(r)'
<1>1. PICK p : p = r.order
  OBVIOUS
<1>2. \A s : /\ InSession(p, s, "waiting")' = InSession(p, s, "waiting")
             /\ \A m \in InSession(p, s, "waiting") : tk'[m] = tk[m]
  BY <1>1, Elsewhere
<1> QED
  BY <1>1, <1>2 DEF Adds, Joinable

\* When a request has written, those that have found something still may rely
\* on it: it is of another session.
LEMMA OthersKept ==
  ASSUME KitchenInv, NEW k \in Worker, req[k].pc > 1, NEW o, o = About(req[k]), Within(o),
         req'[k] = Idle, \A j \in Worker \ {k} : req'[j] = req[j]
  PROVE  Kept' /\ Turns'
<1>1. ASSUME NEW j \in Worker, req'[j].pc > 1
      PROVE  /\ j # k /\ req'[j] = req[j] /\ req[j].pc > 1 /\ (About(req[j]))' = About(req[j])
             /\ IF req'[j].op = "status" THEN (Merges(req[j]))' ELSE (Adds(req[j]))'
  <2>1. j # k /\ req'[j] = req[j] /\ req[j].pc > 1
    BY <1>1, IdleFields
  <2>2. PICK r : r = req[j]
    OBVIOUS
  <2>3. ~SameSession(About(r), o)
    BY <2>1, <2>2 DEF KitchenInv, Turns
  <2>4. GoodReq(r) /\ r.pc > 0
    BY <2>1, <2>2 DEF KitchenInv, Typed, Requests, GoodReq, Request
  <2>5. /\ (Merges(req[j]))' <=> Merges(r)'
        /\ (Adds(req[j]))' <=> Adds(r)'
        /\ (About(req[j]))' = About(r)'
    BY <2>1, <2>2 DEF Merges, Adds, About, Goes, Same, Here
  <2>6. CASE r.op = "status"
    <3>1. r.ticket \in Ticket /\ Merges(r) /\ ~SameSession(tk[r.ticket].order, o)
      BY <2>1, <2>2, <2>3, <2>4, <2>6 DEF KitchenInv, Kept, GoodReq, About
    <3>2. Merges(r)' /\ tk'[r.ticket] = tk[r.ticket]
      BY <3>1, ElsewhereMerges
    <3>3. About(r)' = About(r)
      BY <2>6, <3>2 DEF About
    <3> QED
      BY <2>1, <2>2, <2>5, <2>6, <3>2, <3>3
  <2>7. CASE r.op # "status"
    <3>1. Adds(r) /\ ~SameSession(r.order, o)
      BY <2>1, <2>2, <2>3, <2>7 DEF KitchenInv, Kept, About
    <3>2. Adds(r)'
      BY <3>1, ElsewhereAdds
    <3>3. About(r)' = About(r)
      BY <2>7 DEF About
    <3> QED
      BY <2>1, <2>2, <2>5, <2>7, <3>2, <3>3
  <2> QED
    BY <2>6, <2>7
<1>2. Kept'
  BY <1>1 DEF Kept
<1>3. Turns'
  <2> SUFFICES ASSUME NEW i \in Worker, NEW j \in Worker, i # j, req'[i].pc > 1, req'[j].pc > 1
               PROVE  ~SameSession((About(req[i]))', (About(req[j]))')
    BY DEF Turns, SameSession
  <2> QED
    BY <1>1 DEF KitchenInv, Turns
<1> QED
  BY <1>2, <1>3

-----------------------------------------------------------------------------
(* An order's lines are written *)

\* A ticket is new, has been joined, or is as it was.
Fresh(r, n, s) ==
  /\ Given(r, n, s) /\ n > last /\ ~Here(n)
  /\ tk'[n].status = "waiting" /\ tk'[n].order = r.order /\ tk'[n].station = s /\ tk'[n].lines = {r.order}

Joined2(r, n) ==
  /\ Here(n) /\ tk[n].station \in Needs[r.order] \ New(r) /\ r.saw[tk[n].station].id = n
  /\ SameSession(tk[n].order, r.order)
  /\ tk'[n].status = tk[n].status /\ tk'[n].order = tk[n].order /\ tk'[n].station = tk[n].station
  /\ tk'[n].lines = tk[n].lines \cup {r.order}

Untouched(r, n) ==
  /\ tk'[n] = tk[n]
  /\ \A s \in Station : ~Given(r, n, s)
  /\ Here(n) => \A s \in Needs[r.order] : r.saw[s].id # n

LEMMA BuildRows ==
  ASSUME KitchenInv, NEW k \in Worker, BuildCommit(k), NEW n \in Ticket
  PROVE  (\E s \in Station : Fresh(req[k], n, s)) \/ Joined2(req[k], n) \/ Untouched(req[k], n)
<1> DEFINE r == req[k]
           o == req[k].order
<1>1. Typed /\ Sending(k) /\ r.pc > 1 /\ r.pc > 0
  BY BuildEffect DEF KitchenInv, Typed, Requests, GoodReq, Request
<1>2. o \in Order /\ r.op # "status" /\ Needs[o] \subseteq Station /\ New(r) \in SUBSET Station
  BY <1>1, SenderFields
<1>3. Adds(r)
  BY <1>1, <1>2 DEF KitchenInv, Kept
<1>4. last \in Int /\ n \in Int /\ n # 0
  BY TicketInt DEF KitchenInv, Typed, RowsTyped, Ticket
<1>5. tk[n] \in TicketRow
  BY DEF KitchenInv, Typed, RowsTyped
<1>6. ASSUME NEW s \in Station, Given(r, n, s), tk'[n] = NewTicket(o, s) PROVE Fresh(r, n, s)
  <2>1. Rank(New(r), s) \in Nat /\ 1 <= Rank(New(r), s)
    BY <1>2, <1>6, Ranks DEF Given
  <2>2. n > last
    BY <1>4, <1>6, <2>1 DEF Given
  <2>3. ~Here(n)
    BY <2>2 DEF KitchenInv, Rows
  <2> QED
    BY <1>6, <2>2, <2>3 DEF Fresh, NewTicket
<1>7. ASSUME NEW s \in Station, Joins(r, n, s), tk'[n] = [tk[n] EXCEPT !.lines = Joined(k, o, s)]
      PROVE  Joined2(r, n)
  <2>1. s \in Needs[o] /\ r.saw[s].id = n /\ Here(n)
    BY <1>7 DEF Joins
  <2>2. n \in Joinable(o, s) /\ r.saw[s].lines = tk[n].lines
    BY <1>3, <1>4, <2>1 DEF Adds
  <2>3. tk[n].station = s /\ SameSession(tk[n].order, o)
    BY <2>2 DEF Joinable, InSession, SameSession
  <2>4. Joined(k, o, s) = tk[n].lines \cup {o}
    BY <2>2 DEF Joined
  <2>5. s \notin New(r)
    BY <1>4, <2>1 DEF New
  <2>6. /\ tk'[n].status = tk[n].status /\ tk'[n].order = tk[n].order /\ tk'[n].station = tk[n].station
        /\ tk'[n].lines = tk[n].lines \cup {o}
    BY <1>5, <1>7, <2>4 DEF TicketRow
  <2> QED
    BY <2>1, <2>3, <2>5, <2>6 DEF Joined2
<1>8. ASSUME \A s \in Station : ~Given(r, n, s), \A s \in Station : ~Joins(r, n, s), tk'[n] = tk[n]
      PROVE  Untouched(r, n)
  BY <1>2, <1>8 DEF Untouched, Joins
<1>9. \/ \E s \in Station : Given(r, n, s) /\ tk'[n] = NewTicket(o, s)
      \/ /\ \A s \in Station : ~Given(r, n, s)
         /\ \/ \E s \in Station : Joins(r, n, s) /\ tk'[n] = [tk[n] EXCEPT !.lines = Joined(k, o, s)]
            \/ (\A s \in Station : ~Joins(r, n, s)) /\ tk'[n] = tk[n]
  BY <1>1, BuildEffect
<1> QED
  BY <1>6, <1>7, <1>8, <1>9
LEMMA BuildLines ==
  ASSUME KitchenInv, NEW k \in Worker, BuildCommit(k)
  PROVE  Lines'
<1> DEFINE r == req[k]
<1>o. PICK o : o = r.order
  OBVIOUS
<1>1. Typed /\ Sending(k) /\ r.pc > 1 /\ r.pc > 0
  BY BuildEffect DEF KitchenInv, Typed, Requests, GoodReq, Request
<1>2. /\ o \in Order /\ r.op # "status" /\ Needs[o] \subseteq Station /\ New(r) \in SUBSET Station
      /\ \A s \in Station : r.saw[s].id \in Ticket \cup {0}
  BY <1>o, <1>1, SenderFields
<1>3. ord[o] = "none"
  BY <1>o, <1>1 DEF KitchenInv, OneSender, Busy
<1>4. \A n \in Ticket : Here(n) => o \notin tk[n].lines
  BY <1>3 DEF KitchenInv, Rows
<1>5. \A n \in Ticket : (\E s \in Station : Fresh(r, n, s)) \/ Joined2(r, n) \/ Untouched(r, n)
  BY BuildRows
<1>6. ASSUME NEW p \in Order, p # o, ord'[p] # "none", NEW s \in Needs[p]
      PROVE  \E n \in Ticket : Holders(p, s)' = {n}
  <2>1. ord[p] # "none"
    BY <1>o, <1>6, BuildEffect DEF KitchenInv, Typed, RowsTyped
  <2>2. PICK n \in Ticket : Holders(p, s) = {n}
    BY <2>1 DEF KitchenInv, Lines
  <2>3. ASSUME NEW m \in Ticket PROVE m \in Holders(p, s)' <=> m \in Holders(p, s)
    <3>1. CASE \E t \in Station : Fresh(r, m, t)
      BY <1>o, <1>6, <3>1 DEF Fresh, Holders, Here
    <3>2. CASE Joined2(r, m)
      BY <1>o, <1>6, <3>2 DEF Joined2, Holders, Here
    <3>3. CASE Untouched(r, m)
      BY <3>3 DEF Untouched, Holders
    <3> QED
      BY <1>5, <3>1, <3>2, <3>3
  <2>4. Holders(p, s)' \subseteq Ticket /\ Holders(p, s) \subseteq Ticket
    BY DEF Holders
  <2> QED
    BY <2>2, <2>3, <2>4
<1>7. ASSUME NEW s \in Needs[o], s \in New(r)
      PROVE  \E n \in Ticket : Holders(o, s)' = {n}
  <2> DEFINE n == last + Rank(New(r), s)
  <2>1. /\ Cardinality(New(r)) \in Nat /\ Rank(New(r), s) \in Nat
        /\ 1 <= Rank(New(r), s) /\ Rank(New(r), s) <= Cardinality(New(r))
    BY <1>2, <1>7, Ranks
  <2>2. last \in Nat /\ last + Cardinality(New(r)) <= MaxTickets
    BY <1>1, BuildEffect, BoundAssumption DEF Typed, RowsTyped, Ticket
  <2>3. n \in Ticket
    BY <2>1, <2>2, BoundAssumption DEF Ticket
  <2>4. Given(r, n, s) /\ s \in Station
    BY <1>2, <1>7 DEF Given
  <2>5. ASSUME NEW m \in Ticket PROVE m \in Holders(o, s)' <=> m = n
    <3>1. ASSUME NEW t \in Station, Fresh(r, m, t) PROVE m \in Holders(o, s)' <=> m = n
      <4>1. m \in Holders(o, s)' <=> t = s
        BY <1>o, <3>1 DEF Fresh, Holders
      <4>2. m = last + Rank(New(r), t) /\ t \in New(r)
        BY <1>o, <3>1 DEF Fresh, Given
      <4>3. Rank(New(r), t) \in Nat
        BY <1>2, <4>2, Ranks
      <4>4. m = n => Rank(New(r), t) = Rank(New(r), s)
        BY <2>1, <2>2, <4>2, <4>3
      <4>5. Rank(New(r), t) = Rank(New(r), s) => t = s
        BY <1>2, <1>7, <4>2, Ranks
      <4> QED
        BY <4>1, <4>2, <4>4, <4>5
    <3>2. CASE Joined2(r, m)
      <4>1. m # n
        <5>1. m <= last
          BY <1>o, <3>2, TicketInt, <2>2 DEF Joined2, KitchenInv, Rows
        <5> QED
          BY <2>1, <2>2, <5>1
      <4>2. tk'[m].station # s
        BY <1>o, <1>7, <3>2 DEF Joined2
      <4> QED
        BY <4>1, <4>2 DEF Holders
    <3>3. CASE Untouched(r, m)
      <4>1. m # n
        BY <2>4, <3>3 DEF Untouched
      <4>2. m \notin Holders(o, s)'
        BY <1>4, <3>3 DEF Untouched, Holders, Here
      <4> QED
        BY <4>1, <4>2
    <3> QED
      BY <1>5, <3>1, <3>2, <3>3
  <2>6. Holders(o, s)' \subseteq Ticket
    BY DEF Holders
  <2> HIDE DEF n
  <2> QED
    BY <2>3, <2>5, <2>6
<1>8. ASSUME NEW s \in Needs[o], s \notin New(r)
      PROVE  \E n \in Ticket : Holders(o, s)' = {n}
  <2> DEFINE n == r.saw[s].id
  <2>1. n \in Ticket /\ n # 0
    BY <1>o, <1>2, <1>8 DEF New
  <2>2. n \in Joinable(o, s)
    BY <1>o, <1>1, <1>2, <2>1 DEF KitchenInv, Kept, Adds
  <2>3. Here(n) /\ tk[n].station = s
    BY <2>2 DEF Joinable, InSession, Here
  <2>4. ASSUME NEW m \in Ticket PROVE m \in Holders(o, s)' <=> m = n
    <3>1. ASSUME NEW t \in Station, Fresh(r, m, t) PROVE m \in Holders(o, s)' <=> m = n
      <4>1. t # s /\ m # n
        BY <1>o, <1>8, <2>3, <3>1 DEF Fresh, Given
      <4> QED
        BY <1>o, <3>1, <4>1 DEF Fresh, Holders
    <3>2. CASE Joined2(r, m)
      BY <1>o, <2>3, <3>2 DEF Joined2, Holders, Here
    <3>3. CASE Untouched(r, m)
      <4>1. m # n
        <5> SUFFICES ASSUME m = n PROVE FALSE
          OBVIOUS
        <5> QED
          BY <1>o, <1>8, <2>3, <3>3 DEF Untouched
      <4>2. m \notin Holders(o, s)'
        BY <1>4, <3>3 DEF Untouched, Holders, Here
      <4> QED
        BY <4>1, <4>2
    <3> QED
      BY <1>5, <3>1, <3>2, <3>3
  <2>5. Holders(o, s)' \subseteq Ticket
    BY DEF Holders
  <2> HIDE DEF n
  <2> QED
    BY <2>1, <2>4, <2>5
<1> QED
  BY <1>6, <1>7, <1>8 DEF Lines

LEMMA BuildCommitInv ==
  ASSUME KitchenInv, NEW k \in Worker, BuildCommit(k)
  PROVE  KitchenInv'
<1> DEFINE o == req[k].order
           r == req[k]
<1>1. Typed /\ Sending(k) /\ r.pc > 1 /\ r.pc > 0
  BY BuildEffect DEF KitchenInv, Typed, Requests, GoodReq, Request
<1>2. o \in Order /\ r.op # "status" /\ New(r) \in SUBSET Station
  BY <1>1, SenderFields
<1>3. ord[o] = "none" /\ \A j \in Worker \ {k} : Busy(j) /\ Sending(j) => req[j].order # o
  BY <1>1 DEF KitchenInv, OneSender, Busy
<1>4. ord'[o] = "confirmed" /\ \A p \in Order \ {o} : ord'[p] = ord[p]
  BY <1>2, BuildEffect DEF KitchenInv, Typed, RowsTyped
<1>5. req'[k] = Idle /\ \A j \in Worker \ {k} : req'[j] = req[j]
  BY BuildEffect, EndTyped DEF KitchenInv
<1>6. \A n \in Ticket : (\E s \in Station : Fresh(r, n, s)) \/ Joined2(r, n) \/ Untouched(r, n)
  BY BuildRows
<1>7. \A n \in Ticket : Here(n) => tk[n].order # o
  BY <1>3 DEF KitchenInv, Rows
<1>8. Within(o)
  <2> SUFFICES ASSUME NEW m \in Ticket, tk'[m] # tk[m]
               PROVE  /\ Here(m) => SameSession(tk[m].order, o)
                      /\ tk'[m].status # "none" => SameSession(tk'[m].order, o)
    BY DEF Within
  <2>1. (\E s \in Station : Fresh(r, m, s)) \/ Joined2(r, m)
    BY <1>6 DEF Untouched
  <2> QED
    BY <2>1, SessionsOf DEF Fresh, Joined2
<1>9. Kept' /\ Turns'
  BY <1>1, <1>2, <1>5, <1>8, OthersKept DEF About
<1>10. Cardinality(New(r)) \in Nat /\ \A s \in New(r) : Rank(New(r), s) \in Nat /\ Rank(New(r), s) <= Cardinality(New(r))
  BY <1>2, Ranks
<1>11. last \in Nat /\ last' = last + Cardinality(New(r))
  BY <1>1, BuildEffect, BoundAssumption DEF Typed, RowsTyped, Ticket
<1>12. Rows'
  <2> SUFFICES ASSUME NEW n \in Ticket
               PROVE  /\ n > last' => ~Here(n)'
                      /\ Here(n)' => /\ tk'[n].order \in Order /\ ord'[tk'[n].order] # "none"
                                     /\ \A p \in tk'[n].lines : ord'[p] # "none" /\ tk'[n].station \in Needs[p]
    BY DEF Rows
  <2>1. n \in Int
    BY TicketInt
  <2>2. tk[n] \in TicketRow /\ tk[n].lines \subseteq Order
    BY <1>1 DEF Typed, RowsTyped, TicketRow
  <2>3. ASSUME NEW s \in Station, Fresh(r, n, s)
        PROVE  n <= last' /\ tk'[n].order = o /\ tk'[n].lines = {o} /\ tk'[n].station \in Needs[o]
    BY <1>10, <1>11, <2>1, <2>3 DEF Fresh, Given, New
  <2>4. CASE Joined2(r, n)
    <3>1. n <= last'
      BY <1>10, <1>11, <2>1, <2>4 DEF KitchenInv, Rows, Joined2
    <3> QED
      BY <1>4, <1>10, <1>11, <2>1, <2>2, <2>4, <3>1 DEF KitchenInv, Rows, Joined2
  <2>5. CASE Untouched(r, n)
    <3>1. Here(n)' <=> Here(n)
      BY <2>5 DEF Untouched, Here
    <3>2. Here(n) => n <= last'
      BY <1>10, <1>11, <2>1 DEF KitchenInv, Rows
    <3> QED
      BY <1>4, <1>10, <1>11, <2>1, <2>2, <2>5, <3>1, <3>2 DEF KitchenInv, Rows, Untouched
  <2>6. CASE \E s \in Station : Fresh(r, n, s)
    <3>1. n <= last' /\ tk'[n].order = o /\ tk'[n].lines = {o} /\ tk'[n].station \in Needs[o]
      BY <2>3, <2>6
    <3> QED
      BY <1>2, <1>4, <1>10, <1>11, <2>1, <3>1
  <2> QED
    BY <1>6, <2>4, <2>5, <2>6
<1>13. ASSUME NEW n \in Ticket, Here(n)'
       PROVE  \/ \E s \in Station : Fresh(r, n, s)
              \/ /\ Here(n) /\ tk'[n].order = tk[n].order /\ tk[n].order # o
                 /\ tk'[n].station = tk[n].station /\ tk'[n].status = tk[n].status
  BY <1>6, <1>7, <1>13 DEF Joined2, Untouched, Here
<1>14. Origin'
  <2> SUFFICES ASSUME NEW n \in Ticket, NEW m \in Ticket, Here(n)', Here(m)',
                      tk'[n].order = tk'[m].order, tk'[n].station = tk'[m].station
               PROVE  n = m
    BY DEF Origin
  <2>1. CASE tk'[n].order = o
    <3>1. PICK s \in Station : Fresh(r, n, s)
      BY <1>13, <2>1
    <3>2. PICK t \in Station : Fresh(r, m, t)
      BY <1>13, <2>1
    <3>3. s = t
      BY <3>1, <3>2 DEF Fresh
    <3> QED
      BY <3>1, <3>2, <3>3 DEF Fresh, Given
  <2>2. CASE tk'[n].order # o
    <3>1. /\ Here(n) /\ tk'[n].order = tk[n].order /\ tk'[n].station = tk[n].station
          /\ Here(m) /\ tk'[m].order = tk[m].order /\ tk'[m].station = tk[m].station
      BY <1>13, <2>2 DEF Fresh
    <3> QED
      BY <3>1 DEF KitchenInv, Origin
  <2> QED
    BY <2>1, <2>2
<1>15. OnePreparing'
  <2>1. \A n \in Ticket : tk'[n].status = "preparing" =>
          tk[n].status = "preparing" /\ tk'[n].order = tk[n].order /\ tk'[n].station = tk[n].station
    BY <1>6 DEF Fresh, Joined2, Untouched
  <2> QED
    BY <2>1 DEF KitchenInv, OnePreparing, SameSession
<1>16. OneSender'
  <2>1. \A j \in Worker : req'[j].pc > 0 => j # k /\ req'[j] = req[j]
    BY <1>5, IdleFields
  <2>2. \A j \in Worker : Busy(j) /\ Sending(j) => req[j].order \in Order
    BY <1>1, SenderFields DEF Busy
  <2> QED
    BY <1>3, <1>4, <2>1, <2>2 DEF KitchenInv, OneSender, Busy, Sending
<1>17. Typed'
  BY BuildCommitTyped DEF KitchenInv
<1> QED
  BY <1>9, <1>12, <1>14, <1>15, <1>16, <1>17, BuildLines DEF KitchenInv
-----------------------------------------------------------------------------
(* A ticket's status is written *)

\* Tickets hold what they held, for the same orders, and the same orders have
\* been sent.
SameShape ==
  /\ last' = last /\ \A o \in Order : ord'[o] = "none" <=> ord[o] = "none"
  /\ \A n \in Ticket : /\ Here(n)' <=> Here(n)
                       /\ tk'[n].order = tk[n].order /\ tk'[n].station = tk[n].station
                       /\ tk'[n].lines = tk[n].lines

LEMMA SameShapeKeeps ==
  ASSUME KitchenInv, SameShape
  PROVE  Rows' /\ Origin' /\ Lines'
<1>1. \A n \in Ticket : tk[n].lines \subseteq Order
  BY DEF KitchenInv, Typed, RowsTyped, TicketRow
<1>2. Rows'
  BY <1>1 DEF KitchenInv, SameShape, Rows
<1>3. Origin'
  BY DEF KitchenInv, SameShape, Origin
<1>4. Lines'
  <2> SUFFICES ASSUME NEW o \in Order, ord'[o] # "none", NEW s \in Needs[o]
               PROVE  \E n \in Ticket : Holders(o, s)' = {n}
    BY DEF Lines
  <2>1. Holders(o, s)' = Holders(o, s)
    BY DEF SameShape, Holders, Here
  <2> QED
    BY <2>1 DEF KitchenInv, SameShape, Lines
<1> QED
  BY <1>2, <1>3, <1>4

\* Senders stay alone if the orders that had not been sent still have not.
LEMMA SendersStay ==
  ASSUME KitchenInv, NEW k \in Worker, req'[k] = Idle, \A j \in Worker \ {k} : req'[j] = req[j],
         \A o \in Order : ord'[o] = "none" <=> ord[o] = "none"
  PROVE  OneSender'
<1>1. \A j \in Worker : req'[j].pc > 0 => j # k /\ req'[j] = req[j]
  BY IdleFields
<1>2. \A j \in Worker : Busy(j) /\ Sending(j) => req[j].order \in Order
  BY SenderFields DEF KitchenInv, Busy
<1> QED
  BY <1>1, <1>2 DEF KitchenInv, OneSender, Busy, Sending

\* By itself: if it comes to be prepared, no other ticket that it would go
\* together with is.
LEMMA AloneRows ==
  ASSUME KitchenInv, NEW k \in Worker, StatusCommit(k), Goes(req[k]).id = 0, Merges(req[k]),
         \A o \in Order : ord'[o] = "none" <=> ord[o] = "none"
  PROVE  Rows' /\ Origin' /\ Lines' /\ OnePreparing'
<1>1. PICK n, to : n = req[k].ticket /\ to = req[k].to
  OBVIOUS
<1>2. Typed /\ req[k].op = "status" /\ req[k].pc > 0
  BY StatusEffect DEF KitchenInv
<1>3. n \in Ticket /\ to # "none" /\ Here(n) /\ (to = "preparing" => Same(n) = {})
  BY <1>1, <1>2, StatusFields DEF Merges, Wished, Next3
<1>4. \A m \in Ticket : tk'[m] = IF m = n THEN [tk[m] EXCEPT !.status = to] ELSE tk[m]
  BY <1>1, <1>2, StatusEffect
<1>5. \A m \in Ticket : tk[m] \in TicketRow
  BY <1>2 DEF Typed, RowsTyped
<1>6. /\ tk'[n].status = to /\ tk'[n].order = tk[n].order
      /\ tk'[n].station = tk[n].station /\ tk'[n].lines = tk[n].lines
  BY <1>3, <1>4, <1>5 DEF TicketRow
<1>7. \A m \in Ticket \ {n} : tk'[m] = tk[m]
  BY <1>4
<1>8. SameShape
  <2>1. last' = last
    BY <1>2, StatusEffect
  <2> QED
    BY <1>3, <1>6, <1>7, <2>1 DEF SameShape, Here
<1>9. ASSUME NEW m \in Ticket, m # n, to = "preparing",
             tk[m].status = "preparing", tk[m].station = tk[n].station
      PROVE  ~SameSession(tk[m].order, tk[n].order) /\ ~SameSession(tk[n].order, tk[m].order)
  <2>1. m \notin InSession(tk[n].order, tk[n].station, "preparing")
    BY <1>3, <1>9 DEF Same
  <2>2. Here(m)
    BY <1>9 DEF Here
  <2>3. tk[m].order # tk[n].order
    BY <1>3, <1>9, <2>2 DEF KitchenInv, Origin
  <2> QED
    BY <1>9, <2>1, <2>3 DEF InSession, SameSession
<1>10. OnePreparing'
  <2> SUFFICES ASSUME NEW a \in Ticket, NEW b \in Ticket, a # b,
                      tk'[a].status = "preparing", tk'[b].status = "preparing",
                      tk'[a].station = tk'[b].station
               PROVE  ~SameSession(tk'[a].order, tk'[b].order)
    BY DEF OnePreparing, SameSession
  <2>1. CASE a = n
    BY <1>6, <1>7, <1>9, <2>1
  <2>2. CASE b = n
    BY <1>6, <1>7, <1>9, <2>2
  <2>3. CASE a # n /\ b # n
    BY <1>7, <2>3 DEF KitchenInv, OnePreparing
  <2> QED
    BY <2>1, <2>2, <2>3
<1> QED
  BY <1>8, <1>10, SameShapeKeeps

\* Together: the ticket that is prepared holds the lines of both.
LEMMA MergedRows ==
  ASSUME KitchenInv, NEW k \in Worker, StatusCommit(k), Goes(req[k]).id # 0, Merges(req[k]),
         \A o \in Order : ord'[o] = "none" <=> ord[o] = "none"
  PROVE  Rows' /\ Origin' /\ Lines' /\ OnePreparing'
<1>1. PICK n, i : n = req[k].ticket /\ i = Goes(req[k]).id
  OBVIOUS
<1>2. Typed /\ req[k].op = "status" /\ req[k].pc > 0 /\ last' = last
  BY StatusEffect DEF KitchenInv
<1>3. n \in Ticket /\ Here(n) /\ i \in Same(n) /\ Goes(req[k]).lines = tk[i].lines
  BY <1>1, <1>2, StatusFields DEF Merges
<1>4. i \in Ticket /\ i # n /\ tk[i].status = "preparing" /\ tk[i].station = tk[n].station /\ Here(i)
  BY <1>3 DEF Same, InSession, Here
<1>5. \A m \in Ticket : tk[m] \in TicketRow /\ tk[m].lines \subseteq Order
  BY <1>2 DEF Typed, RowsTyped, TicketRow
<1>6. tk'[n] = NoTicket
  BY <1>1, <1>3, <1>4, StatusEffect DEF KitchenInv
<1>7. tk'[i] = [tk[i] EXCEPT !.lines = tk[i].lines \cup tk[n].lines]
  BY <1>1, <1>3, <1>4, StatusEffect DEF KitchenInv
<1>8. \A m \in Ticket \ {n, i} : tk'[m] = tk[m]
  BY <1>1, StatusEffect DEF KitchenInv
<1>9. ~Here(n)' /\ tk'[n].status # "preparing"
  BY <1>6, NoTicketTyped DEF Here
<1>10. /\ tk'[i].status = tk[i].status /\ tk'[i].order = tk[i].order
       /\ tk'[i].station = tk[i].station /\ tk'[i].lines = tk[i].lines \cup tk[n].lines
  BY <1>4, <1>5, <1>7 DEF TicketRow
<1>11. Rows'
  <2> SUFFICES ASSUME NEW m \in Ticket
               PROVE  /\ m > last' => ~Here(m)'
                      /\ Here(m)' => /\ tk'[m].order \in Order /\ ord'[tk'[m].order] # "none"
                                     /\ \A p \in tk'[m].lines : ord'[p] # "none" /\ tk'[m].station \in Needs[p]
    BY DEF Rows
  <2>1. CASE m = n
    BY <1>9, <2>1
  <2>2. CASE m = i
    BY <1>2, <1>3, <1>4, <1>5, <1>10, <2>2 DEF KitchenInv, Rows, Here
  <2>3. CASE m \notin {n, i}
    BY <1>2, <1>5, <1>8, <2>3 DEF KitchenInv, Rows, Here
  <2> QED
    BY <2>1, <2>2, <2>3
<1>12. \A m \in Ticket : Here(m)' =>
         /\ m # n /\ Here(m) /\ tk'[m].order = tk[m].order
         /\ tk'[m].station = tk[m].station /\ tk'[m].status = tk[m].status
  BY <1>4, <1>8, <1>9, <1>10 DEF Here
<1>13. Origin'
  BY <1>12 DEF KitchenInv, Origin
<1>14. OnePreparing'
  <2>1. \A m \in Ticket : tk'[m].status = "preparing" =>
          tk[m].status = "preparing" /\ tk'[m].order = tk[m].order /\ tk'[m].station = tk[m].station
    BY <1>8, <1>9, <1>10
  <2> QED
    BY <2>1 DEF KitchenInv, OnePreparing, SameSession
<1>15. Lines'
  <2> SUFFICES ASSUME NEW o \in Order, ord'[o] # "none", NEW s \in Needs[o]
               PROVE  \E m \in Ticket : Holders(o, s)' = {m}
    BY DEF Lines
  <2>1. PICK h \in Ticket : Holders(o, s) = {h}
    BY DEF KitchenInv, Lines
  <2>2. ASSUME NEW m \in Ticket \ {n, i} PROVE m \in Holders(o, s)' <=> m \in Holders(o, s)
    BY <1>8 DEF Holders
  <2>3. n \notin Holders(o, s)'
    BY <1>9 DEF Holders, Here
  <2>4. i \in Holders(o, s)' <=> i \in Holders(o, s) \/ n \in Holders(o, s)
    BY <1>3, <1>4, <1>10 DEF Holders, Here
  <2>5. Holders(o, s)' \subseteq Ticket
    BY DEF Holders
  <2>6. CASE h = n \/ h = i
    <3>1. Holders(o, s)' = {i}
      BY <1>4, <2>1, <2>2, <2>3, <2>4, <2>5, <2>6
    <3> QED
      BY <1>4, <3>1
  <2>7. CASE h # n /\ h # i
    <3>1. Holders(o, s)' = {h}
      BY <1>4, <2>1, <2>2, <2>3, <2>4, <2>5, <2>7
    <3> QED
      BY <3>1
  <2> QED
    BY <2>6, <2>7
<1> QED
  BY <1>11, <1>13, <1>14, <1>15

LEMMA StatusCommitInv ==
  ASSUME KitchenInv, NEW k \in Worker, StatusCommit(k)
  PROVE  KitchenInv'
<1>1. PICK n, o, i : n = req[k].ticket /\ o = tk[n].order /\ i = Goes(req[k]).id
  OBVIOUS
<1>2. Typed /\ req[k].op = "status" /\ req[k].pc > 1 /\ req[k].pc > 0
  BY StatusEffect DEF KitchenInv
<1>3. Merges(req[k])
  BY <1>2 DEF KitchenInv, Kept
<1>4. n \in Ticket /\ Here(n) /\ o \in Order /\ ord[o] # "none" /\ req[k].to \in Wished
  BY <1>1, <1>2, <1>3, StatusFields DEF Merges, KitchenInv, Rows
<1>5. ord'[o] # "none" /\ \A p \in Order \ {o} : ord'[p] = ord[p]
  <2>1. OrderStatus(req[k].to) # "none"
    BY <1>4 DEF OrderStatus, Wished, Next3
  <2>2. ord' = [ord EXCEPT ![o] = OrderStatus(req[k].to)]
    BY <1>1, <1>2, StatusEffect
  <2> QED
    BY <1>2, <1>4, <2>1, <2>2 DEF Typed, RowsTyped
<1>6. \A p \in Order : ord'[p] = "none" <=> ord[p] = "none"
  BY <1>4, <1>5
<1>7. Rows' /\ Origin' /\ Lines' /\ OnePreparing'
  BY <1>3, <1>6, AloneRows, MergedRows
<1>8. req'[k] = Idle /\ \A j \in Worker \ {k} : req'[j] = req[j]
  BY <1>2, StatusEffect, EndTyped
<1>9. OneSender'
  BY <1>6, <1>8, SendersStay
<1>10. o = About(req[k])
  BY <1>1, <1>2 DEF About
<1>11. Within(o)
  <2> SUFFICES ASSUME NEW m \in Ticket, tk'[m] # tk[m]
               PROVE  /\ Here(m) => SameSession(tk[m].order, o)
                      /\ tk'[m].status # "none" => SameSession(tk'[m].order, o)
    BY DEF Within
  <2>1. tk[m] \in TicketRow
    BY <1>2 DEF Typed, RowsTyped
  <2>2. CASE m = n
    <3>1. tk'[m] = NoTicket \/ tk'[m] = [tk[m] EXCEPT !.status = req[k].to]
      BY <1>1, <1>2, <2>2, StatusEffect
    <3>2. tk'[m].status # "none" => tk'[m].order = o
      BY <1>1, <2>1, <2>2, <3>1, NoTicketTyped DEF TicketRow
    <3> QED
      BY <1>1, <2>2, <3>2, SessionsOf
  <2>3. CASE m # n
    <3>1. i # 0 /\ m = i /\ tk'[m] = [tk[m] EXCEPT !.lines = Goes(req[k]).lines \cup tk[n].lines]
      BY <1>1, <1>2, <2>3, StatusEffect
    <3>2. m \in Same(n)
      BY <1>1, <1>3, <3>1 DEF Merges
    <3>3. SameSession(tk[m].order, o)
      BY <1>1, <3>2 DEF Same, InSession, SameSession
    <3>4. tk'[m].order = tk[m].order
      BY <2>1, <3>1 DEF TicketRow
    <3> QED
      BY <3>3, <3>4
  <2> QED
    BY <2>2, <2>3
<1>12. Kept' /\ Turns'
  BY <1>2, <1>8, <1>10, <1>11, OthersKept
<1>13. Typed'
  BY StatusCommitTyped DEF KitchenInv
<1> QED
  BY <1>7, <1>9, <1>12, <1>13 DEF KitchenInv

\* In turn, no request has found a ticket that is cancelled.
LEMMA CancelInv ==
  ASSUME InTurn, KitchenInv, NEW o \in Order, Cancel(o)
  PROVE  KitchenInv'
<1>1. /\ ord[o] # "none" /\ ord' = [ord EXCEPT ![o] = "cancelled"]
      /\ last' = last /\ req' = req /\ \A k \in Worker : req[k].pc < 2
  BY DEF Cancel, InTurn, screen
<1>2. \A n \in Ticket : tk'[n] =
        IF tk[n].order = o /\ tk[n].status \in {"waiting", "preparing", "ready"}
          THEN [tk[n] EXCEPT !.status = "cancelled"] ELSE tk[n]
  BY DEF Cancel
<1>3. ASSUME NEW n \in Ticket
      PROVE  /\ Here(n)' <=> Here(n)
             /\ tk'[n].order = tk[n].order /\ tk'[n].station = tk[n].station
             /\ tk'[n].lines = tk[n].lines
             /\ tk'[n].status = "preparing" => tk[n].status = "preparing"
  <2>1. tk[n] \in TicketRow
    BY DEF KitchenInv, Typed, RowsTyped
  <2>2. CASE tk[n].order = o /\ tk[n].status \in {"waiting", "preparing", "ready"}
    <3>1. tk'[n] = [tk[n] EXCEPT !.status = "cancelled"]
      BY <1>2, <2>2
    <3> QED
      BY <2>1, <2>2, <3>1 DEF TicketRow, Here
  <2>3. CASE ~(tk[n].order = o /\ tk[n].status \in {"waiting", "preparing", "ready"})
    <3>1. tk'[n] = tk[n]
      BY <1>2, <2>3
    <3> QED
      BY <3>1 DEF Here
  <2> QED
    BY <2>2, <2>3
<1>4. \A p \in Order : ord'[p] = "none" <=> ord[p] = "none"
  BY <1>1 DEF KitchenInv, Typed, RowsTyped
<1>5. Rows' /\ Origin' /\ Lines'
  BY <1>1, <1>3, <1>4, SameShapeKeeps DEF SameShape
<1>6. OnePreparing'
  BY <1>3 DEF KitchenInv, OnePreparing, SameSession
<1>7. OneSender'
  <2>1. \A j \in Worker : Busy(j) /\ Sending(j) => req[j].order \in Order
    BY SenderFields DEF KitchenInv, Busy
  <2> QED
    BY <1>1, <1>4, <2>1 DEF KitchenInv, OneSender, Busy, Sending
<1>8. Kept' /\ Turns'
  <2>1. \A k \in Worker : ~(req'[k].pc > 1)
    BY <1>1 DEF KitchenInv, Typed, Requests, Request
  <2> QED
    BY <2>1 DEF Kept, Turns
<1>9. Typed'
  BY CancelTyped DEF KitchenInv
<1> QED
  BY <1>5, <1>6, <1>7, <1>8, <1>9 DEF KitchenInv

-----------------------------------------------------------------------------
(* Every step *)

LEMMA NextInv == InTurn /\ KitchenInv /\ [Next]_vars => KitchenInv'
<1> SUFFICES ASSUME InTurn, KitchenInv, [Next]_vars PROVE KitchenInv'
  OBVIOUS
<1>1. CASE UNCHANGED vars
  <2>1. SameRows /\ req' = req
    BY <1>1 DEF vars, rows, SameRows
  <2>2. Calm /\ OneSender'
    BY <2>1, FewerSenders DEF Calm, SameRows, KitchenInv
  <2>3. Typed'
    BY TypedStep DEF KitchenInv
  <2> QED
    BY <2>2, <2>3, CalmInv
<1>2. ASSUME NEW k \in Worker, Api(k) PROVE KitchenInv'
  BY <1>2, BuildFindInv, TellInv, BuildCommitInv, NotFoundInv, StatusFindInv, StatusCommitInv DEF Api
<1>3. ASSUME NEW k \in Worker, NEW o \in Order, NEW op \in {"create", "approve"}, Send(k, op, o) PROVE KitchenInv'
  BY <1>3, SendInv
<1>4. ASSUME NEW k \in Worker, NEW n \in Ticket, NEW to \in Status, Advance(k, n) \/ Drag(k, n, to) PROVE KitchenInv'
  BY <1>4, PressingInv
<1>5. "none" \in Status
  BY DEF Status
<1>6. CASE Next
  BY <1>2, <1>3, <1>4, <1>5, <1>6, ReplayInv, UnansweredInv, ScreenInv, CancelInv DEF Next
<1> QED
  BY <1>1, <1>6

\* In turn, every line of an order that has been sent is on exactly one ticket:
\* joining, merging, taking back and cancelling neither lose nor repeat one.
THEOREM Unlost == ASSUME InTurn PROVE Spec => []LinesKept
<1>1. KitchenInv => LinesKept
  BY LinesAreKept DEF KitchenInv
<1>2. KitchenInv /\ [Next]_vars => KitchenInv'
  BY NextInv
<1> QED
  BY InitKitchen, <1>1, <1>2, PTL DEF Spec

\* In turn, a station never prepares two tickets of one session at a time.
THEOREM OneAtATime == ASSUME InTurn PROVE Spec => []OnePreparing
<1>1. KitchenInv => OnePreparing
  BY DEF KitchenInv
<1>2. KitchenInv /\ [Next]_vars => KitchenInv'
  BY NextInv
<1> QED
  BY InitKitchen, <1>1, <1>2, PTL DEF Spec
=============================================================================
