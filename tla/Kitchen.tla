-------------------------------- MODULE Kitchen --------------------------------
(***************************************************************************)
(* Kitchen tickets: the lines of an order go to one ticket for each        *)
(* station, or to one that waits for the same session; the kitchen's       *)
(* screen moves tickets on, and may be offline while it does.              *)
(*                                                                         *)
(*   ord[o]      status of the order, as far as the kitchen goes           *)
(*   tk[n]       a row of kitchen_tickets: the order it was made for, its  *)
(*               station and status, and the orders it holds lines of      *)
(*   last        the last id given to a ticket                             *)
(*   shown[n]    the status and lines the screen shows for ticket n        *)
(*   due         the screen has been told of something and is fetching     *)
(*   online, queue, replay  its network, the status changes it has kept,   *)
(*               and those that it is sending again                        *)
(*   req[k]      the request that API worker k is in, with the ticket it   *)
(*               has found for each station, and its lines                 *)
(*   cooked[o]   the stations that have completed the lines of o           *)
(*   odd         how often something unusual has happened                  *)
(*                                                                         *)
(* The items of a ticket are one JSON column, written as a whole by        *)
(* whoever has read it: a transaction of two steps, its reads and its      *)
(* commit.  A ticket whose status is being changed is locked in between.   *)
(* The screen never fetches of its own accord, only when a socket event    *)
(* that it knows tells it to, and when it has changed a status itself.     *)
(***************************************************************************)
EXTENDS Integers, FiniteSets, Sequences

CONSTANTS Order, Worker, NoOrder,
          Stations,              \* hot, bar and cold, in this order, are 1, 2, 3
          Needs,                 \* the stations that have a line of an order
          SessionOf, NoSession,
          Slips,                 \* what loses lines, see Slip
          MaxTickets, MaxOdd

\* overlap:       two requests that find tickets of one session run at once
\* early fetch:   the screen hears of an order before it has been committed
\* approve:       a guest's order is approved: the screen does not know the event
\* shared cancel: an order is cancelled that holds another's lines
\* stale items:   the cook ticks off a line while others join the ticket
\* away:          the screen is offline when it is told
\* flaky:         a change is lost for good while the queue is being sent
Slip == {"overlap", "early fetch", "approve", "shared cancel", "stale items",
         "away", "flaky"}

Station == 1 .. Stations
Ticket == 1 .. MaxTickets
Status == {"none", "waiting", "preparing", "ready", "completed", "cancelled"}

ASSUME NamesAssumption ==
  /\ NoOrder \notin Order
  /\ Needs \in [Order -> SUBSET Station]
  /\ \A o \in Order : Needs[o] # {}
  /\ DOMAIN SessionOf = Order
ASSUME SlipsAssumption == Slips \subseteq Slip
ASSUME BoundAssumption == Stations \in Nat \ {0} /\ MaxTickets \in Nat /\ MaxOdd \in Nat

VARIABLES ord, tk, last, shown, due, online, queue, replay, req, cooked, odd

rows == <<ord, tk, last, cooked>>
screen == <<shown, due, online, queue, replay>>
vars == <<rows, screen, req, odd>>

TicketRow == [order : Order \cup {NoOrder}, station : Station, status : Status, lines : SUBSET Order]
NoTicket == [order |-> NoOrder, station |-> 1, status |-> "none", lines |-> {}]
Shown == [status : Status, lines : SUBSET Order]
Blank == [status |-> "none", lines |-> {}]
Change == [ticket : Ticket, to : Status]
Found == [id : Ticket \cup {0}, lines : SUBSET Order]
Nothing == [id |-> 0, lines |-> {}]
\* pc: 0 no request, 1 sent, 2 has read, 3 (create) has told the screen.
\* by: what waits for the answer: the press, the sending of the queue, nothing.
Request == [op : {"create", "approve", "status"}, order : Order \cup {NoOrder},
            ticket : Ticket \cup {0}, to : Status, saw : [Station -> Found],
            by : {"press", "queue", "nobody"}, pc : 0 .. 3]
Idle == [op |-> "status", order |-> NoOrder, ticket |-> 0, to |-> "none",
         saw |-> [s \in Station |-> Nothing], by |-> "nobody", pc |-> 0]

TypeOK ==
  /\ ord \in [Order -> {"none", "confirmed", "preparing", "ready", "cancelled"}]
  /\ tk \in [Ticket -> TicketRow] /\ last \in Ticket \cup {0}
  /\ shown \in [Ticket -> Shown] /\ due \in BOOLEAN /\ online \in BOOLEAN
  /\ queue \in Seq(Change) /\ replay \in Seq(Change)
  /\ req \in [Worker -> Request]
  /\ cooked \in [Order -> SUBSET Station] /\ odd \in Nat

Init ==
  /\ ord = [o \in Order |-> "none"]
  /\ tk = [n \in Ticket |-> NoTicket] /\ last = 0
  /\ shown = [n \in Ticket |-> Blank] /\ due = FALSE /\ online = TRUE
  /\ queue = <<>> /\ replay = <<>>
  /\ req = [k \in Worker |-> Idle]
  /\ cooked = [o \in Order |-> {}] /\ odd = 0

-----------------------------------------------------------------------------
Busy(k) == req[k].pc > 0
Odd == odd < MaxOdd /\ odd' = odd + 1

\* The order a request is about: a status change's is the one of the ticket.
About(r) == IF r.op = "status" THEN tk[r.ticket].order ELSE r.order

SameSession(o, p) == o = p \/ (SessionOf[o] = SessionOf[p] /\ SessionOf[o] # NoSession)

\* k may read: nobody else has read tickets of the session and not committed.
MayRead(k) ==
  \/ "overlap" \in Slips
  \/ \A j \in Worker \ {k} : req[j].pc > 1 => ~SameSession(About(req[j]), About(req[k]))

\* The row of ticket n is locked by the status change of another worker.
Locked(k, n) == \E j \in Worker \ {k} : req[j].op = "status" /\ req[j].pc > 1 /\ req[j].ticket = n

InSession(o, s, status) ==
  {n \in Ticket : /\ tk[n].status = status /\ tk[n].station = s
                  /\ SessionOf[tk[n].order] = SessionOf[o] /\ SessionOf[o] # NoSession}

AsRead(n) == [id |-> n, lines |-> tk[n].lines]
Newest(ids) == IF ids = {} THEN Nothing ELSE AsRead(CHOOSE n \in ids : \A m \in ids : m <= n)
Oldest(ids) == IF ids = {} THEN Nothing ELSE AsRead(CHOOSE n \in ids : \A m \in ids : n <= m)

-----------------------------------------------------------------------------
(* An order goes to the kitchen *)

\* An order is created, or the waiter approves the one of a guest.
Send(k, op, o) ==
  /\ ~Busy(k) /\ ord[o] = "none" /\ \A j \in Worker : req[j].order # o
  /\ op = "approve" => "approve" \in Slips
  /\ online \/ "away" \in Slips
  /\ req' = [req EXCEPT ![k] = [Idle EXCEPT !.op = op, !.order = o, !.pc = 1]]
  /\ UNCHANGED <<rows, screen, odd>>

Sending(k) == req[k].op \in {"create", "approve"}

Joinable(o, s) == InSession(o, s, "waiting")

\* buildKitchenTicketsForOrder: for every station a ticket to join, if there is.
BuildFind(k) ==
  /\ Sending(k) /\ req[k].pc = 1 /\ MayRead(k)
  /\ req' = [req EXCEPT ![k].pc = 2, ![k].saw =
       [s \in Station |-> IF s \in Needs[req[k].order] THEN Newest(Joinable(req[k].order, s)) ELSE Nothing]]
  /\ UNCHANGED <<rows, screen, odd>>

\* createOrderCore emits kitchen:ticket_created before the commit.
Tell(k) ==
  /\ req[k].op = "create" /\ req[k].pc = 2
  /\ req' = [req EXCEPT ![k].pc = 3] /\ due' = online
  /\ UNCHANGED <<rows, shown, online, queue, replay, odd>>

\* Mutant of Joined: the lines replace those of the ticket.
JoinedAlone(k, o, s) == {o}

\* What was read, and the lines of the order.
Joined(k, o, s) == req[k].saw[s].lines \cup {o}

BuildCommit(k) ==
  LET o == req[k].order
      saw == req[k].saw
      new == {s \in Needs[o] : saw[s].id = 0}
      IdOf(s) == last + Cardinality({r \in new : r <= s})
      joins(n) == {s \in Needs[o] : saw[s].id = n /\ tk[n].status # "none"}
  IN
  /\ Sending(k) /\ req[k].pc = (IF req[k].op = "create" THEN 3 ELSE 2)
  /\ last + Cardinality(new) <= MaxTickets
  /\ \A s \in Needs[o] \ new : ~Locked(k, saw[s].id)
  /\ ord' = [ord EXCEPT ![o] = "confirmed"]
  /\ last' = last + Cardinality(new)
  /\ tk' = [n \in Ticket |->
       IF \E s \in new : IdOf(s) = n
         THEN [order |-> o, station |-> CHOOSE s \in new : IdOf(s) = n, status |-> "waiting", lines |-> {o}]
       ELSE IF joins(n) # {}
         THEN [tk[n] EXCEPT !.lines = Joined(k, o, CHOOSE s \in joins(n) : TRUE)]
       ELSE tk[n]]
  /\ req' = [req EXCEPT ![k] = Idle]
  /\ UNCHANGED <<cooked, screen, odd>>

-----------------------------------------------------------------------------
(* The screen *)

\* Mutant of Listed: what is ready is left out.
ListedInWork(n) == tk[n].status \in {"waiting", "preparing"}

Listed(n) == tk[n].status \in {"waiting", "preparing", "ready"}

\* What it is told, it fetches: the tickets that wait, are prepared or ready.
\* Offline it fails; that it then shows what it fetched last is left out.
Fetch ==
  /\ due /\ due' = FALSE
  /\ "early fetch" \in Slips \/ \A k \in Worker : req[k].pc # 3
  /\ shown' = IF online THEN [n \in Ticket |->
                 IF Listed(n) THEN [status |-> tk[n].status, lines |-> tk[n].lines] ELSE Blank]
               ELSE shown
  /\ UNCHANGED <<rows, online, queue, replay, req, odd>>

Following == [waiting |-> "preparing", preparing |-> "ready", ready |-> "completed"]

\* The request that changes the status of ticket n.
Patch(n, to, by) ==
  [Idle EXCEPT !.op = "status", !.ticket = n, !.to = to, !.by = by, !.pc = 1]

\* The screen keeps the change for later, and shows it.
Keep(n, to) ==
  /\ queue' = Append(queue, [ticket |-> n, to |-> to])
  /\ shown' = IF shown[n].status = "none" THEN shown ELSE [shown EXCEPT ![n].status = to]

\* The cook presses, online a request and offline an entry of the queue.
Press(k, n, to) ==
  /\ IF online THEN /\ ~Busy(k)
                    /\ req' = [req EXCEPT ![k] = Patch(n, to, "press")]
                    /\ UNCHANGED <<shown, queue>>
     ELSE Keep(n, to) /\ UNCHANGED req
  /\ UNCHANGED <<rows, due, online, replay>>

Advance(k, n) ==
  /\ shown[n].status \in DOMAIN Following
  /\ Press(k, n, Following[shown[n].status])
  /\ UNCHANGED odd

\* Dragged to another column, or taken back from the list of what is completed.
Drag(k, n, to) ==
  /\ to \in DOMAIN Following
  /\ shown[n].status \in DOMAIN Following \/ (tk[n].status = "completed" /\ to = "preparing" /\ online)
  /\ Press(k, n, to) /\ Odd

\* The cook ticks off a line: all of the items are written as they were shown.
TickOff(n) ==
  /\ online /\ shown[n].status \in {"waiting", "preparing", "ready"} /\ tk[n].status # "none"
  /\ "stale items" \in Slips \/ (shown[n].lines = tk[n].lines /\ \A k \in Worker : req[k].pc < 2)
  /\ \A k \in Worker : ~Locked(k, n)
  /\ Odd
  /\ tk' = [tk EXCEPT ![n].lines = shown[n].lines]
  /\ due' = TRUE
  /\ UNCHANGED <<ord, last, cooked, shown, online, queue, replay, req>>

Network ==
  /\ IF online THEN /\ Odd
                    /\ "away" \in Slips \/ (~due /\ \A k \in Worker : ~Busy(k))
                    /\ "flaky" \in Slips \/ replay = <<>>
     ELSE UNCHANGED odd
  /\ online' = ~online
  /\ UNCHANGED <<rows, shown, due, queue, replay, req>>

\* Back online, the queue is emptied and sent entry by entry.
StartReplay ==
  /\ online /\ queue # <<>> /\ replay = <<>>
  /\ replay' = queue /\ queue' = <<>>
  /\ UNCHANGED <<rows, shown, due, online, req, odd>>

Replaying == \E k \in Worker : Busy(k) /\ req[k].by = "queue"

Replay(k) ==
  /\ replay # <<>> /\ ~Replaying /\ replay' = Tail(replay)
  /\ IF online THEN /\ ~Busy(k)
                    /\ req' = [req EXCEPT ![k] = Patch(Head(replay).ticket, Head(replay).to, "queue")]
               ELSE UNCHANGED req
  /\ UNCHANGED <<rows, shown, due, online, queue, odd>>

\* The answer is lost, the request may be too: what was pressed is kept to be
\* sent again, what came from the queue is not.
Unanswered(k) ==
  /\ Busy(k) /\ req[k].op = "status" /\ req[k].by # "nobody" /\ Odd
  /\ IF req[k].by = "press" THEN Keep(req[k].ticket, req[k].to) ELSE UNCHANGED <<shown, queue>>
  /\ \/ req' = [req EXCEPT ![k].by = "nobody"]
     \/ /\ req[k].pc = 1 /\ req[k].by = "queue" => "flaky" \in Slips
        /\ req' = [req EXCEPT ![k] = Idle]
  /\ UNCHANGED <<rows, due, online, replay>>

-----------------------------------------------------------------------------
(* updateTicketStatus and cancellation *)

\* A ticket that has been merged away is not found.
NotFound(k) ==
  /\ req[k].op = "status" /\ req[k].pc = 1 /\ tk[req[k].ticket].status = "none"
  /\ req' = [req EXCEPT ![k] = Idle]
  /\ UNCHANGED <<rows, screen, odd>>

\* Mutant of Same: looks at tickets that are ready.
SameReady(n) == InSession(tk[n].order, tk[n].station, "ready") \ {n}

\* The tickets that a ticket which is being prepared goes together with.
Same(n) == InSession(tk[n].order, tk[n].station, "preparing") \ {n}

StatusFind(k) ==
  LET n == req[k].ticket IN
  /\ req[k].op = "status" /\ req[k].pc = 1 /\ tk[n].status # "none"
  /\ ~Locked(k, n) /\ MayRead(k)
  /\ req' = [req EXCEPT ![k].pc = 2, ![k].saw[tk[n].station] =
       IF req[k].to = "preparing" THEN Oldest(Same(n)) ELSE Nothing]
  /\ UNCHANGED <<rows, screen, odd>>

\* Mutant of OrderStatus: the ticket's status is taken as it is.
OrderStatusRaw(t) == t

OrderStatus(t) == CASE t = "completed" -> "ready" [] t = "waiting" -> "confirmed" [] OTHER -> t

StatusCommit(k) ==
  LET n == req[k].ticket
      to == req[k].to
      into == req[k].saw[tk[n].station]
  IN
  /\ req[k].op = "status" /\ req[k].pc = 2
  /\ into.id # 0 => ~Locked(k, into.id)
  /\ tk' = IF into.id = 0 THEN [tk EXCEPT ![n].status = to]
           ELSE [m \in Ticket |->
             IF m = n THEN NoTicket
             ELSE IF m = into.id /\ tk[m].status # "none" THEN [tk[m] EXCEPT !.lines = into.lines \cup tk[n].lines]
             ELSE tk[m]]
  /\ ord' = [ord EXCEPT ![tk[n].order] = OrderStatus(to)]
  /\ cooked' = IF to = "completed"
       THEN [o \in Order |-> IF o \in tk[n].lines THEN cooked[o] \cup {tk[n].station} ELSE cooked[o]]
       ELSE cooked
  /\ due' = online
  /\ req' = [req EXCEPT ![k] = Idle]
  /\ UNCHANGED <<last, shown, online, queue, replay, odd>>

\* The till cancels an order; it waits for the tickets that are locked.
Cancel(o) ==
  /\ ord[o] \in {"confirmed", "preparing", "ready"}
  /\ "shared cancel" \in Slips \/ \A n \in Ticket : tk[n].order = o => tk[n].lines \subseteq {o}
  /\ "overlap" \in Slips \/ \A k \in Worker : req[k].pc < 2
  /\ \A k \in Worker : req[k].pc < 2 \/ req[k].op # "status"
  /\ Odd
  /\ ord' = [ord EXCEPT ![o] = "cancelled"]
  /\ tk' = [n \in Ticket |->
       IF tk[n].order = o /\ tk[n].status \in {"waiting", "preparing", "ready"}
         THEN [tk[n] EXCEPT !.status = "cancelled"] ELSE tk[n]]
  /\ UNCHANGED <<last, cooked, screen, req>>

Api(k) == BuildFind(k) \/ Tell(k) \/ BuildCommit(k) \/ NotFound(k) \/ StatusFind(k) \/ StatusCommit(k)

Next ==
  \/ \E k \in Worker :
       \/ \E o \in Order, op \in {"create", "approve"} : Send(k, op, o)
       \/ Api(k) \/ Replay(k) \/ Unanswered(k)
       \/ \E n \in Ticket : Advance(k, n) \/ \E to \in Status : Drag(k, n, to)
  \/ \E n \in Ticket : TickOff(n)
  \/ \E o \in Order : Cancel(o)
  \/ Fetch \/ Network \/ StartReplay

\* Requests and the screen go on, its network comes back, and the cook presses
\* on for every ticket the screen shows.
Fairness ==
  /\ \A k \in Worker : WF_vars(Api(k))
  /\ WF_vars(Fetch) /\ WF_vars(~online /\ Network) /\ WF_vars(StartReplay)
  /\ WF_vars(\E k \in Worker : Replay(k))
  /\ \A n \in Ticket : SF_vars(\E k \in Worker : Advance(k, n))

Spec == Init /\ [][Next]_vars
FairSpec == Spec /\ Fairness

-----------------------------------------------------------------------------
(* Properties *)

Holders(o, s) == {n \in Ticket : tk[n].status # "none" /\ tk[n].station = s /\ o \in tk[n].lines}

\* Every line of an order is on one ticket, and on no more than one, through
\* joining, merging, taking back and ticking off.
LinesKept ==
  \A o \in Order : ord[o] # "none" => \A s \in Needs[o] : Cardinality(Holders(o, s)) = 1

\* A station prepares one ticket of a session at a time: whichever comes to be
\* prepared joins the one that is.
OnePreparing ==
  \A n, m \in Ticket :
    n # m /\ tk[n].status = "preparing" /\ tk[m].status = "preparing" /\ tk[n].station = tk[m].station =>
      ~SameSession(tk[n].order, tk[m].order)

\* What PROJECT_RULES.md announces: a change from the queue that comes after
\* the ticket has moved on does not take it back.  It does, and no run has this.
OlderIgnored ==
  [][\A k \in Worker :
       req[k].by = "queue" /\ StatusCommit(k) /\ tk[req[k].ticket].status = "ready" =>
         tk'[req[k].ticket].status # "preparing"]_vars

\* What is sent to the kitchen is cooked, all of it, or cancelled, on whatever
\* tickets its lines end up, online or from the queue.
SentIsCooked ==
  \A o \in Order : ord[o] = "confirmed" ~> (cooked[o] = Needs[o] \/ ord[o] = "cancelled")
=============================================================================
