--------------------------- MODULE ServiceCallsProofs ---------------------------
(***************************************************************************)
(* Proofs about ServiceCalls: a call is handed over once at most, and not  *)
(* taken from those who have answered it; and with one waiter who does not *)
(* look at his phone, a call that waits for him is going to be handed over *)
(* to somebody who does.                                                   *)
(***************************************************************************)
EXTENDS ServiceCalls, FiniteSetTheorems, WellFoundedInduction, TLAPS

\* The numbers of calls that have not been made yet are free.
Unused == \A c \in Call : c > calls => status[c] = "none"

\* What a screen shows has been a call.
ShowsCalls == \A w \in Present, p \in Place : shown[w][p] # 0 => status[shown[w][p]] # "none"

\* A call that was handed over is marked so.
Marked == \A c \in Call : passes[c] = IF escalated[c] THEN 1 ELSE 0

CallInv == TypeOK /\ Unused /\ ShowsCalls /\ Marked

-----------------------------------------------------------------------------
(* Initial states *)

LEMMA InitCalls == Init => CallInv
<1> SUFFICES ASSUME Init PROVE CallInv
  OBVIOUS
<1>1. NoTable \in Place /\ 0 \in Nat
  BY DEF Place
<1>2. 0 \in 0 .. MaxCalls
  BY BoundAssumption
<1>3. TypeOK
  BY <1>1, <1>2 DEF Init, TypeOK
<1>4. Unused /\ ShowsCalls /\ Marked
  BY DEF Init, Unused, ShowsCalls, Marked
<1> QED
  BY <1>3, <1>4 DEF CallInv

-----------------------------------------------------------------------------
(* Operators *)

LEMMA FreeType == ASSUME NEW ws PROVE Free(ws) \in SUBSET (Waiter \ ws)
BY DEF Free

LEMMA ResolveType ==
  ASSUME NEW v \in Waiter \cup {Nobody}, NEW w \in Waiter \cup {Nobody}
  PROVE  Resolve(v, w) \in SUBSET Waiter
BY DEF Resolve, Able, Free

\* A set of calls has a last one: the calls that are not before it are fewest.
LEMMA HasLast ==
  ASSUME NEW cs \in SUBSET Call, cs # {}
  PROVE  \E c \in cs : \A d \in cs : d <= c
<1> DEFINE F == {c .. MaxCalls : c \in cs}
<1>1. MaxCalls \in Nat /\ \A c \in cs : c \in Nat /\ 1 <= c /\ c <= MaxCalls
  BY BoundAssumption DEF Call
<1>2. IsFiniteSet(Call)
  BY <1>1, FS_Interval DEF Call
<1>3. F \subseteq FiniteSubsetsOf(Call) /\ F # {}
  <2>1. ASSUME NEW c \in cs PROVE c .. MaxCalls \in SUBSET Call /\ IsFiniteSet(c .. MaxCalls)
    <3>1. c .. MaxCalls \in SUBSET Call
      BY <1>1 DEF Call
    <3> QED
      BY <1>2, <3>1, FS_Subset
  <2> QED
    BY <2>1 DEF FiniteSubsetsOf
<1>4. PICK A \in F : \A B \in F : <<B, A>> \notin StrictSubsetOrdering(Call)
  <2> HIDE DEF F
  <2> QED
    BY <1>2, <1>3, FS_StrictSubsetOrderingWellFounded, WFMin
<1>5. PICK c \in cs : A = c .. MaxCalls
  BY <1>4
<1>6. ASSUME NEW d \in cs PROVE d <= c
  <2>1. SUFFICES ASSUME c < d PROVE FALSE
    BY <1>1
  <2>2. (d .. MaxCalls) \subseteq (c .. MaxCalls) /\ c \in c .. MaxCalls /\ c \notin d .. MaxCalls
    BY <1>1, <2>1
  <2>3. (d .. MaxCalls) \in F /\ d .. MaxCalls \in SUBSET Call /\ c .. MaxCalls \in SUBSET Call
    BY <1>1 DEF Call
  <2>4. <<d .. MaxCalls, c .. MaxCalls>> \in StrictSubsetOrdering(Call)
    BY <2>2, <2>3 DEF StrictSubsetOrdering
  <2> QED
    BY <1>4, <1>5, <2>3, <2>4
<1> QED
  BY <1>6

LEMMA NewestType ==
  ASSUME NEW cs \in SUBSET Call
  PROVE  Newest(cs) \in cs \cup {0}
<1>1. CASE cs = {}
  BY <1>1 DEF Newest
<1>2. CASE cs # {}
  BY <1>2, HasLast DEF Newest
<1> QED
  BY <1>1, <1>2

-----------------------------------------------------------------------------
(* What a screen shows after a step *)

LEMMA HeardShows ==
  ASSUME shown \in [Present -> [Place -> Call \cup {0}]],
         NEW got, NEW c \in Call, NEW p \in Place, NEW to, NEW isNew,
         Heard(got, c, p, to, isNew)
  PROVE  /\ shown' \in [Present -> [Place -> Call \cup {0}]]
         /\ \A w \in Present, q \in Place : shown'[w][q] \in {c, shown[w][q]}
<1> DEFINE one(w) == IF w \in got /\ (p # NoTable \/ (isNew /\ to \in {Nobody, w}))
                       THEN [shown[w] EXCEPT ![p] = c] ELSE shown[w]
<1>1. ASSUME NEW w \in Present
      PROVE  one(w) \in [Place -> Call \cup {0}] /\ \A q \in Place : one(w)[q] \in {c, shown[w][q]}
  <2>1. shown[w] \in [Place -> Call \cup {0}]
    OBVIOUS
  <2> QED
    BY <2>1
<1>2. shown' = [w \in Present |-> one(w)]
  BY DEF Heard
<1> HIDE DEF one
<1> QED
  BY <1>1, <1>2

LEMMA DroppedShows ==
  ASSUME shown \in [Present -> [Place -> Call \cup {0}]],
         NEW w, NEW got, NEW p \in Place, Dropped(w, got, p)
  PROVE  /\ shown' \in [Present -> [Place -> Call \cup {0}]]
         /\ \A v \in Present, q \in Place : shown'[v][q] \in {0, shown[v][q]}
<1> DEFINE one(v) == IF v = w \/ (v \in got /\ p # NoTable)
                       THEN [shown[v] EXCEPT ![p] = 0] ELSE shown[v]
<1>1. ASSUME NEW v \in Present
      PROVE  one(v) \in [Place -> Call \cup {0}] /\ \A q \in Place : one(v)[q] \in {0, shown[v][q]}
  <2>1. shown[v] \in [Place -> Call \cup {0}]
    OBVIOUS
  <2> QED
    BY <2>1
<1>2. shown' = [v \in Present |-> one(v)]
  BY DEF Dropped
<1> HIDE DEF one
<1> QED
  BY <1>1, <1>2

-----------------------------------------------------------------------------
(* Steps *)

LEMMA InsertCalls ==
  ASSUME CallInv, NEW k \in {"call_waiter", "request_bill"}, NEW p \in Place,
         NEW to \in Waiter \cup {Nobody}, NEW got, Insert(k, p, to, got)
  PROVE  CallInv'
<1> DEFINE c == calls + 1
<1>1. c \in Call /\ calls' = c /\ calls \in Nat /\ calls' \in 0 .. MaxCalls
  BY BoundAssumption DEF Insert, CallInv, TypeOK, Call
<1>2. /\ kind' = [kind EXCEPT ![c] = k] /\ place' = [place EXCEPT ![c] = p]
      /\ status' = [status EXCEPT ![c] = "pending"] /\ target' = [target EXCEPT ![c] = to]
      /\ inTime' = [inTime EXCEPT ![c] = TRUE]
      /\ escalated' = escalated /\ passes' = passes /\ onBreak' = onBreak
      /\ rows' = rows /\ odd' = odd
  BY DEF Insert
<1>3. /\ shown' \in [Present -> [Place -> Call \cup {0}]]
      /\ \A w \in Present, q \in Place : shown'[w][q] \in {c, shown[w][q]}
  <2>1. shown \in [Present -> [Place -> Call \cup {0}]] /\ Heard(got, c, p, to, TRUE)
    BY DEF CallInv, TypeOK, Insert
  <2> HIDE DEF c
  <2> QED
    BY <1>1, <2>1, HeardShows
<1>4. Unused'
  <2>1. ASSUME NEW d \in Call, d > calls' PROVE status'[d] = "none"
    <3>1. d \in Nat /\ d > calls /\ d # c
      BY <1>1, <2>1 DEF Call
    <3> QED
      BY <1>2, <3>1 DEF CallInv, Unused, TypeOK
  <2> QED
    BY <2>1 DEF Unused
<1> HIDE DEF c
<1>5. TypeOK'
  BY <1>1, <1>2, <1>3 DEF CallInv, TypeOK
<1>6. ShowsCalls'
  BY <1>1, <1>2, <1>3 DEF CallInv, ShowsCalls, TypeOK
<1>7. Marked'
  BY <1>2 DEF CallInv, Marked
<1> QED
  BY <1>4, <1>5, <1>6, <1>7 DEF CallInv

LEMMA GuestCalls ==
  ASSUME CallInv, NEW k \in {"call_waiter", "request_bill"}, NEW t \in Table, NEW got, Guest(k, t, got)
  PROVE  CallInv'
<1>1. t \in Place /\ ServerOf[t] \in Waiter \cup {Nobody}
  BY StaffAssumption DEF Place
<1>2. PICK to \in Resolve(Nobody, ServerOf[t]) : Insert(k, t, to, got)
  BY DEF Guest
<1>3. to \in Waiter
  BY <1>1, ResolveType
<1> QED
  BY <1>1, <1>2, <1>3, InsertCalls

LEMMA TillCalls ==
  ASSUME CallInv, NEW p \in Place, NEW named \in Named, NEW got, Till(p, named, got)
  PROVE  CallInv'
<1>1. named \in Waiter \cup {Nobody} /\ ServerOf[p] \in Waiter \cup {Nobody}
  BY StaffAssumption
<1>2. PICK to \in IF named = Nobody THEN {Nobody} ELSE Resolve(named, ServerOf[p]) :
        Insert("call_waiter", p, to, got)
  BY DEF Till
<1>3. to \in Waiter \cup {Nobody}
  BY <1>1, <1>2, ResolveType
<1> QED
  BY <1>2, <1>3, InsertCalls

LEMMA RefreshCalls ==
  ASSUME CallInv, NEW w \in Present, Refresh(w)
  PROVE  CallInv'
<1> DEFINE f == [p \in Place |-> Newest(Listed(w, p))]
<1>1. ASSUME NEW p \in Place
      PROVE  f[p] \in Call \cup {0} /\ (f[p] # 0 => status[f[p]] = "pending")
  <2>1. Listed(w, p) \in SUBSET Call /\ \A c \in Listed(w, p) : status[c] = "pending"
    BY DEF Listed
  <2>2. Newest(Listed(w, p)) \in Listed(w, p) \cup {0}
    BY <2>1, NewestType
  <2> QED
    BY <2>1, <2>2
<1>2. f \in [Place -> Call \cup {0}]
  BY <1>1
<1>3. shown' = [shown EXCEPT ![w] = f] /\ row' = row /\ onBreak' = onBreak /\ rows' = rows /\ odd' = odd
  BY DEF Refresh
<1> HIDE DEF f
<1>4. TypeOK'
  BY <1>2, <1>3 DEF CallInv, TypeOK, row
<1>5. ShowsCalls'
  BY <1>1, <1>3 DEF CallInv, ShowsCalls, TypeOK, row
<1> QED
  BY <1>3, <1>4, <1>5 DEF CallInv, Unused, Marked, row

LEMMA AnswerCalls ==
  ASSUME CallInv, NEW w \in Present, NEW p \in Place, NEW got, Answer(w, p, got)
  PROVE  /\ CallInv' /\ target' = target
         /\ \A c \in Call : status[c] # "none" => status'[c] # "none"
<1> DEFINE c == shown[w][p]
           also == IF p # NoTable /\ kind[c] = "call_waiter" THEN Also(c) ELSE {}
<1>1. c \in Call /\ status[c] # "none"
  BY DEF Answer, CallInv, TypeOK, ShowsCalls
<1>2. also \in SUBSET Call /\ \A d \in also : status[d] = "pending"
  BY DEF Also
<1>3. /\ status' = [d \in Call |->
           IF d = c THEN AnswerOf(p) ELSE IF d \in also THEN "seen" ELSE status[d]]
      /\ calls' = calls /\ kind' = kind /\ place' = place /\ target' = target
      /\ escalated' = escalated /\ inTime' = inTime /\ passes' = passes
      /\ onBreak' = onBreak /\ rows' = rows /\ odd' = odd
  BY DEF Answer
<1>4. /\ shown' \in [Present -> [Place -> Call \cup {0}]]
      /\ \A v \in Present, q \in Place : shown'[v][q] \in {0, shown[v][q]}
  BY DroppedShows DEF Answer, CallInv, TypeOK
<1>5. AnswerOf(p) \in {"completed", "in_progress"}
  BY DEF AnswerOf
<1> HIDE DEF c, also
<1>6. \A d \in Call : status'[d] = status[d] \/ (status[d] # "none" /\ status'[d] # "none")
  BY <1>1, <1>2, <1>3, <1>5
<1>7. status' \in [Call -> {"none", "pending", "seen", "in_progress", "completed"}]
  BY <1>3, <1>5 DEF CallInv, TypeOK
<1>8. TypeOK'
  BY <1>3, <1>4, <1>7 DEF CallInv, TypeOK
<1>9. Unused'
  BY <1>3, <1>6 DEF CallInv, Unused
<1>10. ShowsCalls'
  BY <1>4, <1>6 DEF CallInv, ShowsCalls, TypeOK
<1> QED
  BY <1>3, <1>6, <1>8, <1>9, <1>10 DEF CallInv, Marked

LEMMA TickReadCalls ==
  ASSUME CallInv, NEW k \in Tick, TickRead(k)
  PROVE  CallInv'
<1> DEFINE found == {[call |-> c, of |-> Assignee(c)] : c \in {d \in Call : Overdue(d)}}
<1>1. ASSUME NEW c \in Call PROVE Assignee(c) \in Waiter \cup {Nobody}
  BY StaffAssumption DEF Assignee, CallInv, TypeOK
<1>2. found \in SUBSET Row
  BY <1>1 DEF Row
<1>3. rows' = [rows EXCEPT ![k] = found] /\ row' = row /\ onBreak' = onBreak
      /\ shown' = shown /\ odd' = odd
  BY DEF TickRead
<1> HIDE DEF found
<1>4. TypeOK'
  BY <1>2, <1>3 DEF CallInv, TypeOK, row
<1> QED
  BY <1>3, <1>4 DEF CallInv, Unused, ShowsCalls, Marked, row

LEMMA HandOverCalls ==
  ASSUME CallInv, NEW k \in Tick, NEW r \in rows[k], NEW got, HandOver(k, r, got)
  PROVE  /\ CallInv'
         /\ status' = status
         /\ \A c \in Call : target'[c] # target[c] => status[c] = "pending"
<1>1. r \in Row /\ r.call \in Call /\ r.of \in Waiter \cup {Nobody}
  BY DEF CallInv, TypeOK, Row
<1>2. /\ rows' = [rows EXCEPT ![k] = @ \ {r}]
      /\ calls' = calls /\ kind' = kind /\ place' = place /\ status' = status
      /\ onBreak' = onBreak /\ odd' = odd
  BY DEF HandOver
<1>3. rows' \in [Tick -> SUBSET Row]
  BY <1>2 DEF CallInv, TypeOK
<1>4. CASE StillOverdue(r.call) /\ Replacements(r) # {}
  <2>1. PICK to \in Replacements(r) :
          /\ target' = [target EXCEPT ![r.call] = to]
          /\ escalated' = [escalated EXCEPT ![r.call] = TRUE]
          /\ inTime' = [inTime EXCEPT ![r.call] = TRUE]
          /\ passes' = [passes EXCEPT ![r.call] = @ + 1]
          /\ Heard(got, r.call, place[r.call], to, FALSE)
    BY <1>4 DEF HandOver
  <2>2. to \in Waiter
    BY FreeType DEF Replacements
  <2>3. status[r.call] = "pending" /\ escalated[r.call] = FALSE /\ passes[r.call] = 0
    BY <1>1, <1>4 DEF StillOverdue, CallInv, Marked, TypeOK
  <2>4. /\ shown' \in [Present -> [Place -> Call \cup {0}]]
        /\ \A w \in Present, q \in Place : shown'[w][q] \in {r.call, shown[w][q]}
    <3>1. shown \in [Present -> [Place -> Call \cup {0}]] /\ place[r.call] \in Place
      BY <1>1 DEF CallInv, TypeOK
    <3> QED
      BY <1>1, <2>1, <3>1, HeardShows
  <2>5. /\ target' \in [Call -> Waiter \cup {Nobody}] /\ escalated' \in [Call -> BOOLEAN]
        /\ inTime' \in [Call -> BOOLEAN] /\ passes' \in [Call -> Nat]
    BY <1>1, <2>1, <2>2 DEF CallInv, TypeOK
  <2>6. TypeOK'
    BY <1>2, <1>3, <2>4, <2>5 DEF CallInv, TypeOK
  <2>7. ShowsCalls'
    BY <1>2, <2>3, <2>4 DEF CallInv, ShowsCalls
  <2>8. Marked'
    <3>1. ASSUME NEW c \in Call PROVE passes'[c] = IF escalated'[c] THEN 1 ELSE 0
      <4>1. CASE c = r.call
        <5>1. passes'[c] = 1 /\ escalated'[c] = TRUE
          BY <1>1, <2>1, <2>3, <4>1 DEF CallInv, TypeOK
        <5> QED
          BY <5>1
      <4>2. CASE c # r.call
        <5>1. passes'[c] = passes[c] /\ escalated'[c] = escalated[c]
          BY <2>1, <4>2 DEF CallInv, TypeOK
        <5> QED
          BY <5>1 DEF CallInv, Marked
      <4> QED
        BY <4>1, <4>2
    <3> QED
      BY <3>1 DEF Marked
  <2>9. \A c \in Call : target'[c] # target[c] => status[c] = "pending"
    BY <2>1, <2>3 DEF CallInv, TypeOK
  <2> QED
    BY <1>2, <2>6, <2>7, <2>8, <2>9 DEF CallInv, Unused
<1>5. CASE ~(StillOverdue(r.call) /\ Replacements(r) # {})
  <2>1. target' = target /\ escalated' = escalated /\ inTime' = inTime /\ passes' = passes /\ shown' = shown
    BY <1>5 DEF HandOver
  <2>2. TypeOK'
    BY <1>2, <1>3, <2>1 DEF CallInv, TypeOK
  <2> QED
    BY <1>2, <2>1, <2>2 DEF CallInv, Unused, ShowsCalls, Marked
<1> QED
  BY <1>4, <1>5

LEMMA OtherCalls ==
  ASSUME CallInv,
         \/ \E w \in Present : Break(w)
         \/ \E c \in Call : Late(c)
         \/ \E k \in Tick : TickDies(k)
         \/ UNCHANGED vars
  PROVE  CallInv' /\ target' = target
<1>1. ASSUME NEW w \in Present, Break(w) PROVE CallInv' /\ target' = target
  <2>1. row' = row /\ shown' = shown /\ rows' = rows
        /\ odd' \in Nat /\ onBreak' = [onBreak EXCEPT ![w] = ~onBreak[w]]
    BY <1>1 DEF Break, CallInv, TypeOK
  <2>2. TypeOK'
    BY <2>1 DEF CallInv, TypeOK, row
  <2> QED
    BY <2>1, <2>2 DEF CallInv, Unused, ShowsCalls, Marked, row
<1>2. ASSUME NEW c \in Call, Late(c) PROVE CallInv' /\ target' = target
  <2>1. TypeOK'
    BY <1>2 DEF Late, CallInv, TypeOK
  <2> QED
    BY <1>2, <2>1 DEF Late, CallInv, Unused, ShowsCalls, Marked
<1>3. ASSUME NEW k \in Tick, TickDies(k) PROVE CallInv' /\ target' = target
  <2>1. row' = row /\ onBreak' = onBreak /\ shown' = shown /\ odd' = odd + 1
        /\ rows' = [rows EXCEPT ![k] = {}]
    BY <1>3 DEF TickDies
  <2>2. TypeOK'
    BY <2>1 DEF CallInv, TypeOK, row
  <2> QED
    BY <2>1, <2>2 DEF CallInv, Unused, ShowsCalls, Marked, row
<1>4. ASSUME UNCHANGED vars PROVE CallInv' /\ target' = target
  BY <1>4 DEF vars, row, CallInv, TypeOK, Unused, ShowsCalls, Marked
<1> QED
  BY <1>1, <1>2, <1>3, <1>4

LEMMA NextCalls ==
  ASSUME CallInv, [Next]_vars
  PROVE  /\ CallInv'
         /\ \A c \in Call : target'[c] # target[c] => status[c] \in {"none", "pending"}
<1> DEFINE Goal == /\ CallInv'
                   /\ \A c \in Call : target'[c] # target[c] => status[c] \in {"none", "pending"}
<1>1. ASSUME NEW k \in {"call_waiter", "request_bill"}, NEW p \in Place,
             NEW to, NEW got, Insert(k, p, to, got)
      PROVE  \A c \in Call : target'[c] # target[c] => status[c] \in {"none", "pending"}
  <2>1. calls + 1 \in Call /\ calls + 1 > calls
    BY <1>1, BoundAssumption DEF Insert, CallInv, TypeOK, Call
  <2>2. status[calls + 1] = "none"
    BY <2>1 DEF CallInv, Unused
  <2>3. target' = [target EXCEPT ![calls + 1] = to]
    BY <1>1 DEF Insert
  <2> QED
    BY <2>2, <2>3 DEF CallInv, TypeOK
<1>2. ASSUME NEW got, NEW k \in {"call_waiter", "request_bill"}, NEW t \in Table, Guest(k, t, got)
      PROVE  Goal
  <2>1. PICK to \in Resolve(Nobody, ServerOf[t]) : Insert(k, t, to, got)
    BY <1>2 DEF Guest
  <2> QED
    BY <1>1, <1>2, <2>1, GuestCalls DEF Place
<1>3. ASSUME NEW got, NEW p \in Place, NEW named \in Named, Till(p, named, got)
      PROVE  Goal
  <2>1. PICK to : Insert("call_waiter", p, to, got)
    BY <1>3 DEF Till
  <2> QED
    BY <1>1, <1>3, <2>1, TillCalls
<1>4. ASSUME NEW got, NEW w \in Present, NEW p \in Place, Answer(w, p, got)
      PROVE  Goal
  BY <1>4, AnswerCalls
<1>5. ASSUME NEW w \in Present, Refresh(w) PROVE Goal
  <2>1. target' = target
    BY <1>5 DEF Refresh, row
  <2> QED
    BY <1>5, <2>1, RefreshCalls
<1>6. ASSUME NEW k \in Tick, TickStep(k) PROVE Goal
  <2>1. CASE TickRead(k)
    <3>1. target' = target
      BY <2>1 DEF TickRead, row
    <3> QED
      BY <2>1, <3>1, TickReadCalls
  <2>2. ASSUME NEW r \in rows[k], NEW got, HandOver(k, r, got) PROVE Goal
    BY <2>2, HandOverCalls
  <2> QED
    BY <1>6, <2>1, <2>2 DEF TickStep
<1>7. ASSUME \/ \E w \in Present : Break(w)
             \/ \E c \in Call : Late(c)
             \/ \E k \in Tick : TickDies(k)
             \/ UNCHANGED vars
      PROVE  Goal
  BY <1>7, OtherCalls
<1> HIDE DEF Goal
<1>8. Goal
  BY <1>2, <1>3, <1>4, <1>5, <1>6, <1>7 DEF Next
<1> QED
  BY <1>8 DEF Goal

-----------------------------------------------------------------------------
(* Theorems *)

\* Every variable keeps its type, whoever calls, answers, hears and restarts.
THEOREM TypeCorrect == Spec => []TypeOK
<1>1. CallInv => TypeOK
  BY DEF CallInv
<1>2. CallInv /\ [Next]_vars => CallInv'
  BY NextCalls
<1> QED
  BY InitCalls, <1>1, <1>2, PTL DEF Spec

\* However many ticks overlap, a call is handed over once at most:
\* runServiceCallEscalationTick reads its row again before the UPDATE.
THEOREM HandedOverOnce == Spec => []PassedOnce
<1>1. CallInv => PassedOnce
  BY DEF CallInv, Marked, PassedOnce
<1>2. CallInv /\ [Next]_vars => CallInv'
  BY NextCalls
<1> QED
  BY InitCalls, <1>1, <1>2, PTL DEF Spec

\* Whoever answered a call keeps it: no tick that has read it before, and no new
\* call, changes who it is for.
THEOREM AnsweredKept == Spec => AnsweredStays
<1>1. CallInv /\ [Next]_vars => CallInv'
  BY NextCalls
<1>2. CallInv /\ [Next]_vars =>
        [\A c \in Call : status[c] \in {"seen", "in_progress", "completed"} => target'[c] = target[c]]_vars
  <2>1. SUFFICES ASSUME CallInv, [Next]_vars
                 PROVE  \A c \in Call : status[c] \in {"seen", "in_progress", "completed"} => target'[c] = target[c]
    OBVIOUS
  <2>2. \A c \in Call : target'[c] # target[c] => status[c] \in {"none", "pending"}
    BY <2>1, NextCalls
  <2> QED
    BY <2>2
<1> QED
  BY InitCalls, <1>1, <1>2, PTL DEF Spec, AnsweredStays

-----------------------------------------------------------------------------
(* A waiter who does not look at his phone *)

\* He is the only one, he serves the tables, and whom the till names is him.
OneAbsent(x) ==
  /\ x \in Waiter /\ Absent = {x} /\ Named \subseteq {Nobody, x}
  /\ \A t \in Table : ServerOf[t] = x

\* He never goes on a break, so that new calls go to him, or to everybody; a
\* tick hands over only his, and only what has been a call.
HisFirst(x) ==
  /\ ~onBreak[x]
  /\ \A c \in Call : IF escalated[c] THEN target[c] \in Present ELSE target[c] \in {x, Nobody}
  /\ \A k \in Tick : \A r \in rows[k] : r.of \in {x, Nobody}
  /\ \A c \in Call : escalated[c] => status[c] # "none"

LEMMA HisResolve ==
  ASSUME NEW x, OneAbsent(x), HisFirst(x)
  PROVE  \A w \in Waiter \cup {Nobody} : Resolve(Nobody, x) = {x} /\ Resolve(x, w) = {x}
<1>1. x # Nobody /\ ~onBreak[x]
  BY NamesAssumption DEF OneAbsent, HisFirst
<1> QED
  BY <1>1 DEF Resolve, Able

LEMMA HisInsert ==
  ASSUME CallInv, NEW x, OneAbsent(x), HisFirst(x),
         NEW k, NEW p, NEW to \in {x, Nobody}, NEW got, Insert(k, p, to, got)
  PROVE  HisFirst(x)'
<1>1. calls + 1 \in Call /\ calls + 1 > calls
  BY BoundAssumption DEF Insert, CallInv, TypeOK, Call
<1>2. ~escalated[calls + 1]
  BY <1>1 DEF CallInv, Unused, HisFirst
<1>3. /\ target' = [target EXCEPT ![calls + 1] = to] /\ status' = [status EXCEPT ![calls + 1] = "pending"]
      /\ escalated' = escalated /\ onBreak' = onBreak /\ rows' = rows
  BY DEF Insert
<1> QED
  BY <1>1, <1>2, <1>3 DEF HisFirst, CallInv, TypeOK

LEMMA HisGuest ==
  ASSUME CallInv, NEW x, OneAbsent(x), HisFirst(x),
         NEW k, NEW t \in Table, NEW got, Guest(k, t, got)
  PROVE  HisFirst(x)'
<1>1. PICK to \in Resolve(Nobody, ServerOf[t]) : Insert(k, t, to, got)
  BY DEF Guest
<1>2. to = x
  BY <1>1, HisResolve DEF OneAbsent
<1> QED
  BY <1>1, <1>2, HisInsert

LEMMA HisTill ==
  ASSUME CallInv, NEW x, OneAbsent(x), HisFirst(x),
         NEW p \in Place, NEW named \in Named, NEW got, Till(p, named, got)
  PROVE  HisFirst(x)'
<1>1. named \in {Nobody, x} /\ ServerOf[p] \in Waiter \cup {Nobody}
  BY StaffAssumption DEF OneAbsent
<1>2. PICK to \in IF named = Nobody THEN {Nobody} ELSE Resolve(named, ServerOf[p]) :
        Insert("call_waiter", p, to, got)
  BY DEF Till
<1>3. to \in {x, Nobody}
  BY <1>1, <1>2, HisResolve
<1> QED
  BY <1>2, <1>3, HisInsert

LEMMA HisTickRead ==
  ASSUME CallInv, NEW x, OneAbsent(x), HisFirst(x), NEW k \in Tick, TickRead(k)
  PROVE  HisFirst(x)'
<1> DEFINE found == {[call |-> c, of |-> Assignee(c)] : c \in {d \in Call : Overdue(d)}}
<1>1. ASSUME NEW c \in Call, Overdue(c) PROVE Assignee(c) \in {x, Nobody}
  <2>1. target[c] \in {x, Nobody}
    BY <1>1 DEF Overdue, HisFirst
  <2>2. place[c] \in Table \cup {NoTable}
    BY DEF CallInv, TypeOK, Place
  <2>3. ServerOf[place[c]] \in {x, Nobody}
    BY <2>2, StaffAssumption DEF OneAbsent
  <2> QED
    BY <2>1, <2>3 DEF Assignee
<1>2. \A r \in found : r.of \in {x, Nobody}
  BY <1>1
<1>3. rows' = [rows EXCEPT ![k] = found] /\ row' = row /\ onBreak' = onBreak
  BY DEF TickRead
<1> HIDE DEF found
<1> QED
  BY <1>2, <1>3 DEF HisFirst, CallInv, TypeOK, row

LEMMA HisHandOver ==
  ASSUME CallInv, NEW x, OneAbsent(x), HisFirst(x),
         NEW k \in Tick, NEW r \in rows[k], NEW got, HandOver(k, r, got)
  PROVE  HisFirst(x)'
<1>1. r.call \in Call /\ r.of \in {x, Nobody} /\ status' = status /\ onBreak' = onBreak
      /\ rows' = [rows EXCEPT ![k] = @ \ {r}]
  BY DEF CallInv, TypeOK, Row, HandOver, HisFirst
<1>2. \A l \in Tick : \A q \in rows'[l] : q.of \in {x, Nobody}
  BY <1>1 DEF HisFirst, CallInv, TypeOK
<1>3. CASE StillOverdue(r.call) /\ Replacements(r) # {}
  <2>1. PICK to \in Replacements(r) :
          /\ target' = [target EXCEPT ![r.call] = to]
          /\ escalated' = [escalated EXCEPT ![r.call] = TRUE]
    BY <1>3 DEF HandOver
  <2>2. to \in Waiter \ {x}
    BY <1>1, FreeType DEF Replacements
  <2>3. to \in Present
    BY <2>2 DEF Present, OneAbsent
  <2>4. status[r.call] # "none"
    BY <1>3 DEF StillOverdue
  <2> QED
    BY <1>1, <1>2, <2>1, <2>3, <2>4 DEF HisFirst, CallInv, TypeOK
<1>4. CASE ~(StillOverdue(r.call) /\ Replacements(r) # {})
  <2>1. target' = target /\ escalated' = escalated
    BY <1>4 DEF HandOver
  <2> QED
    BY <1>1, <1>2, <2>1 DEF HisFirst
<1> QED
  BY <1>3, <1>4

LEMMA HisNext ==
  ASSUME CallInv, NEW x, OneAbsent(x), HisFirst(x), [Next]_vars
  PROVE  HisFirst(x)'
<1>1. ASSUME NEW got, NEW w \in Present, NEW p \in Place, Answer(w, p, got)
      PROVE  HisFirst(x)'
  <2>1. target' = target /\ \A c \in Call : status[c] # "none" => status'[c] # "none"
    BY <1>1, AnswerCalls
  <2>2. escalated' = escalated /\ onBreak' = onBreak /\ rows' = rows
    BY <1>1 DEF Answer
  <2> QED
    BY <2>1, <2>2 DEF HisFirst
<1>2. ASSUME NEW w \in Present, Break(w) PROVE HisFirst(x)'
  <2>1. w # x
    BY DEF Present, OneAbsent
  <2>2. row' = row /\ rows' = rows /\ onBreak' = [onBreak EXCEPT ![w] = ~onBreak[w]]
    BY <1>2 DEF Break
  <2> QED
    BY <2>1, <2>2 DEF HisFirst, OneAbsent, CallInv, TypeOK, row
<1>3. ASSUME NEW w \in Present, Refresh(w) PROVE HisFirst(x)'
  BY <1>3 DEF Refresh, HisFirst, row
<1>4. ASSUME NEW c \in Call, Late(c) PROVE HisFirst(x)'
  BY <1>4 DEF Late, HisFirst
<1>5. ASSUME NEW k \in Tick, TickStep(k) PROVE HisFirst(x)'
  BY <1>5, HisTickRead, HisHandOver DEF TickStep
<1>6. ASSUME NEW k \in Tick, TickDies(k) PROVE HisFirst(x)'
  BY <1>6 DEF TickDies, HisFirst, row, CallInv, TypeOK
<1>7. ASSUME UNCHANGED vars PROVE HisFirst(x)'
  BY <1>7 DEF vars, row, HisFirst
<1> QED
  BY <1>1, <1>2, <1>3, <1>4, <1>5, <1>6, <1>7, HisGuest, HisTill DEF Next

\* With one waiter who does not look at his phone, a call that waits is on the
\* list of somebody who does, or the tick has still to hand it over.
THEOREM InReach ==
  ASSUME NEW x, OneAbsent(x)
  PROVE  Spec => []WithinReach
<1>1. Init => HisFirst(x)
  <2>1. SUFFICES ASSUME Init PROVE HisFirst(x)
    OBVIOUS
  <2>2. x \in Waiter
    BY DEF OneAbsent
  <2> QED
    BY <2>1, <2>2 DEF Init, HisFirst
<1>2. CallInv /\ HisFirst(x) => WithinReach
  BY DEF HisFirst, WithinReach
<1>3. CallInv /\ [Next]_vars => CallInv'
  BY NextCalls
<1>4. CallInv /\ HisFirst(x) /\ [Next]_vars => HisFirst(x)'
  BY HisNext
<1> QED
  BY InitCalls, <1>1, <1>2, <1>3, <1>4, PTL DEF Spec
=============================================================================
