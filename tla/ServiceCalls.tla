----------------------------- MODULE ServiceCalls -----------------------------
(***************************************************************************)
(* Calls for a waiter: from a guest's phone at a table and from the till,  *)
(* the waiters' screens, their answers, and the tick that hands a call     *)
(* over to another waiter when its own does not answer in time.            *)
(*                                                                         *)
(*   calls        how many calls there have been; a call is its number     *)
(*   kind[c], place[c], status[c], target[c], escalated[c]  columns of     *)
(*                service_calls; target Nobody is open to every waiter     *)
(*   inTime[c]    its assignee still has the time that the settings give   *)
(*                him (assignee_set_at is that recent)                     *)
(*   passes[c]    how often the call has been handed over                  *)
(*   onBreak[w]   the waiter's break                                       *)
(*   shown[w][p]  the call that w's screen shows for a place, 0 for none   *)
(*   rows[k]      the calls that tick k has read and not looked at yet,    *)
(*                with their assignees                                     *)
(*   odd          counts the breaks, and the ticks that ended early        *)
(*                                                                         *)
(* A request to create or answer a call starts with ALTER TABLE            *)
(* service_calls, so that nothing else touches the table until it has      *)
(* committed: it is one step.  The statements of a tick commit one by one, *)
(* and the API starts a tick every 20 seconds in each of its processes     *)
(* whether or not the last one has ended.                                  *)
(***************************************************************************)
EXTENDS Integers

CONSTANTS Waiter, Nobody, Table, NoTable, Tick,
          Absent,                \* waiters who do not look at their phone
          ServerOf,              \* the waiter of a table's session, or Nobody
          Named,                 \* whom the till calls: a waiter, or Nobody
          Zone,                  \* the tables of a waiter's section
          MaxCalls,
          MaxOdd                 \* how many breaks and restarts there may be

Present == Waiter \ Absent
Place == Table \cup {NoTable}
Call == 1 .. MaxCalls

ASSUME NamesAssumption == Nobody \notin Waiter /\ NoTable \notin Table
ASSUME StaffAssumption ==
  /\ Absent \subseteq Waiter /\ Named \subseteq Waiter \cup {Nobody}
  /\ Zone \in [Waiter -> SUBSET Table]
  /\ ServerOf \in [Place -> Waiter \cup {Nobody}] /\ ServerOf[NoTable] = Nobody
ASSUME BoundAssumption == MaxCalls \in Nat /\ MaxOdd \in Nat

VARIABLES calls, kind, place, status, target, escalated, inTime, passes,
          onBreak, shown, rows, odd

row == <<calls, kind, place, status, target, escalated, inTime, passes>>
vars == <<row, onBreak, shown, rows, odd>>

Row == [call : Call, of : Waiter \cup {Nobody}]

TypeOK ==
  /\ calls \in 0 .. MaxCalls
  /\ kind \in [Call -> {"call_waiter", "request_bill"}] /\ place \in [Call -> Place]
  /\ status \in [Call -> {"none", "pending", "seen", "in_progress", "completed"}]
  /\ target \in [Call -> Waiter \cup {Nobody}]
  /\ escalated \in [Call -> BOOLEAN] /\ inTime \in [Call -> BOOLEAN]
  /\ passes \in [Call -> Nat]
  /\ onBreak \in [Waiter -> BOOLEAN] /\ odd \in Nat
  /\ shown \in [Present -> [Place -> Call \cup {0}]]
  /\ rows \in [Tick -> SUBSET Row]

Init ==
  /\ calls = 0
  /\ kind = [c \in Call |-> "call_waiter"] /\ place = [c \in Call |-> NoTable]
  /\ status = [c \in Call |-> "none"] /\ target = [c \in Call |-> Nobody]
  /\ escalated = [c \in Call |-> FALSE] /\ inTime = [c \in Call |-> FALSE]
  /\ passes = [c \in Call |-> 0]
  /\ onBreak = [w \in Waiter |-> FALSE] /\ odd = 0
  /\ shown = [w \in Present |-> [p \in Place |-> 0]]
  /\ rows = [k \in Tick |-> {}]

-----------------------------------------------------------------------------
(* Who is called *)

\* pickLeastLoadedWaiterForSection: a waiter who is not on break, whether or
\* not anyone has seen him; which one depends on their tables and sections.
Free(excluded) == {w \in Waiter \ excluded : ~onBreak[w]}

Able(w) == w # Nobody /\ ~onBreak[w]

\* resolveServiceCallWaiterTarget: the one who was named, else the one who
\* serves the table, else any other.
Resolve(named, server) ==
  IF Able(named) THEN {named}
  ELSE IF Able(server) THEN {server}
  ELSE Free({named, server})

\* Some screens hear of a call: their sockets are connected, and the table is
\* of their waiter's section or the call passes for it.  Without a table, only
\* the one it is meant for; escalated, nobody.
Heard(got, c, p, to, isNew) ==
  shown' = [w \in Present |->
    IF w \in got /\ (p # NoTable \/ (isNew /\ to \in {Nobody, w}))
      THEN [shown[w] EXCEPT ![p] = c] ELSE shown[w]]

Insert(k, p, to, got) ==
  LET c == calls + 1 IN
  /\ calls < MaxCalls /\ calls' = c
  /\ kind' = [kind EXCEPT ![c] = k] /\ place' = [place EXCEPT ![c] = p]
  /\ status' = [status EXCEPT ![c] = "pending"] /\ target' = [target EXCEPT ![c] = to]
  /\ inTime' = [inTime EXCEPT ![c] = TRUE]
  /\ Heard(got, c, p, to, TRUE)
  /\ UNCHANGED <<escalated, passes, onBreak, rows, odd>>

\* A guest at table t: refused if there is nobody to call.
Guest(k, t, got) == \E to \in Resolve(Nobody, ServerOf[t]) : Insert(k, t, to, got)

\* The till calls somebody, or everybody, to a table or to the till.
Till(p, named, got) ==
  \E to \in IF named = Nobody THEN {Nobody} ELSE Resolve(named, ServerOf[p]) :
    Insert("call_waiter", p, to, got)

-----------------------------------------------------------------------------
(* Waiters *)

\* Mutant of Listed: only what is for the screen's own waiter.
ListedMine(w, p) == {c \in Call : status[c] = "pending" /\ place[c] = p /\ target[c] = w}

\* waiterShouldApplyServiceCallOverlay: a call for everybody to a table of
\* another section is shown if it asks for the bill.
InSection(w, c) == place[c] \in Zone[w] \cup {NoTable} \/ kind[c] = "request_bill"

\* Every 30 seconds a screen reloads the pending calls: those for its waiter,
\* or for everybody in its section, and of a place the last one.
Listed(w, p) ==
  {c \in Call : /\ status[c] = "pending" /\ place[c] = p
                /\ target[c] = w \/ (target[c] = Nobody /\ InSection(w, c))}

Newest(cs) == IF cs = {} THEN 0 ELSE CHOOSE c \in cs : \A d \in cs : d <= c

Refresh(w) ==
  /\ shown' = [shown EXCEPT ![w] = [p \in Place |-> Newest(Listed(w, p))]]
  /\ UNCHANGED <<row, onBreak, rows, odd>>

Assignee(c) == IF target[c] # Nobody THEN target[c] ELSE ServerOf[place[c]]

\* Mutant of AnswerOf: a status that the column does not have.
AnswerOfDone(p) == "done"

AnswerOf(p) == IF p = NoTable THEN "completed" ELSE "in_progress"

MayAnswer(w, c) == Assignee(c) \in {Nobody, w} \/ ~inTime[c]

\* A waiter answers what his screen shows, answered or not: a call to the till
\* is completed, one to a table in progress, and so that it does not come back,
\* every other call for a waiter at the table counts as seen.  He may be on a
\* break.
Also(c) ==
  {d \in Call : status[d] = "pending" /\ kind[d] = "call_waiter" /\ place[d] = place[c]}

\* service_call:updated names a table, and screens drop what they show for it.
Dropped(w, got, p) ==
  shown' = [v \in Present |->
    IF v = w \/ (v \in got /\ p # NoTable) THEN [shown[v] EXCEPT ![p] = 0] ELSE shown[v]]

Answer(w, p, got) ==
  LET c == shown[w][p]
      also == IF p # NoTable /\ kind[c] = "call_waiter" THEN Also(c) ELSE {}
  IN
  /\ c # 0 /\ MayAnswer(w, c)
  /\ status' = [d \in Call |->
       IF d = c THEN AnswerOf(p) ELSE IF d \in also THEN "seen" ELSE status[d]]
  /\ Dropped(w, got, p)
  /\ UNCHANGED <<calls, kind, place, target, escalated, inTime, passes, onBreak, rows, odd>>

Break(w) ==
  /\ ~onBreak[w] => odd < MaxOdd
  /\ odd' = IF onBreak[w] THEN odd ELSE odd + 1
  /\ onBreak' = [onBreak EXCEPT ![w] = ~@]
  /\ UNCHANGED <<row, shown, rows>>

\* The time that an assignee has to answer is over.
Late(c) ==
  /\ status[c] # "none" /\ inTime[c]
  /\ inTime' = [inTime EXCEPT ![c] = FALSE]
  /\ UNCHANGED <<calls, kind, place, status, target, escalated, passes, onBreak, shown, rows, odd>>

-----------------------------------------------------------------------------
(* The tick *)

Overdue(c) ==
  status[c] = "pending" /\ kind[c] = "call_waiter" /\ ~escalated[c] /\ ~inTime[c]

TickRead(k) ==
  /\ rows[k] = {}
  /\ rows' = [rows EXCEPT ![k] = {[call |-> c, of |-> Assignee(c)] : c \in {d \in Call : Overdue(d)}}]
  /\ rows'[k] # {}
  /\ UNCHANGED <<row, onBreak, shown, odd>>

\* Mutant of Replacements: whoever let the call wait may get it again.
ReplacementsAny(r) == IF r.of = Nobody THEN {} ELSE Free({})

\* A row without assignee, or with nobody to replace him, is passed over.
Replacements(r) == IF r.of = Nobody THEN {} ELSE Free({r.of})

\* Mutants of StillOverdue: what the tick has read is not looked at again.
StillPending(c) == status[c] = "pending"
StillUnescalated(c) == ~escalated[c]

StillOverdue(c) == status[c] = "pending" /\ ~escalated[c]

\* Between the choice and the UPDATE only a break may begin, as well as after it.
HandOver(k, r, got) ==
  /\ r \in rows[k]
  /\ rows' = [rows EXCEPT ![k] = @ \ {r}]
  /\ IF StillOverdue(r.call) /\ Replacements(r) # {}
       THEN \E to \in Replacements(r) :
              /\ target' = [target EXCEPT ![r.call] = to]
              /\ escalated' = [escalated EXCEPT ![r.call] = TRUE]
              /\ inTime' = [inTime EXCEPT ![r.call] = TRUE]
              /\ passes' = [passes EXCEPT ![r.call] = @ + 1]
              /\ Heard(got, r.call, place[r.call], to, FALSE)
       ELSE UNCHANGED <<target, escalated, inTime, passes, shown>>
  /\ UNCHANGED <<calls, kind, place, status, onBreak, odd>>

\* The API restarts, and its ticks with it.
TickDies(k) ==
  /\ rows[k] # {}
  /\ odd < MaxOdd /\ odd' = odd + 1
  /\ rows' = [rows EXCEPT ![k] = {}]
  /\ UNCHANGED <<row, onBreak, shown>>

TickStep(k) ==
  \/ TickRead(k)
  \/ \E r \in rows[k], got \in SUBSET Present : HandOver(k, r, got)

Next ==
  \/ \E got \in SUBSET Present :
       \/ \E k \in {"call_waiter", "request_bill"}, t \in Table : Guest(k, t, got)
       \/ \E p \in Place, named \in Named : Till(p, named, got)
       \/ \E w \in Present, p \in Place : Answer(w, p, got)
  \/ \E w \in Present : Refresh(w) \/ Break(w)
  \/ \E c \in Call : Late(c)
  \/ \E k \in Tick : TickStep(k) \/ TickDies(k)

Spec == Init /\ [][Next]_vars

\* Time passes, ticks and screens go on, breaks end, and a waiter keeps pressing
\* what his screen shows him until he is let.
Fairness ==
  /\ \A c \in Call : WF_vars(Late(c))
  /\ \A k \in Tick : WF_vars(TickStep(k))
  /\ \A w \in Present :
       /\ WF_vars(Refresh(w)) /\ WF_vars(onBreak[w] /\ Break(w))
       /\ \A p \in Place : SF_vars(\E got \in SUBSET Present : Answer(w, p, got))

FairSpec == Spec /\ Fairness

-----------------------------------------------------------------------------
(* Properties *)

\* However many ticks have read a call as overdue, one of them hands it over.
PassedOnce == \A c \in Call : passes[c] <= 1

\* A tick that read a call before it was answered does not take it away from
\* those who are on their way: who a call is for changes only while it waits.
AnsweredStays ==
  [][\A c \in Call : status[c] \in {"seen", "in_progress", "completed"} => target'[c] = target[c]]_vars

\* The call of a waiter who does not look at his phone is still going to be
\* handed over; afterwards, it is on the list of somebody who does.
WithinReach ==
  \A c \in Call : status[c] = "pending" /\ kind[c] = "call_waiter" =>
    target[c] \in Present \cup {Nobody} \/ ~escalated[c]

\* A call for a waiter is answered, whoever was called first, whatever screens
\* miss, and however answers, breaks, ticks and restarts interleave.
CallsEnd ==
  \A c \in Call : status[c] = "pending" /\ kind[c] = "call_waiter" ~> status[c] # "pending"
=============================================================================
