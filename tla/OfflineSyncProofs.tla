------------------------- MODULE OfflineSyncProofs -------------------------
(***************************************************************************)
(* No order a till has reported as taken is ever lost, for every set of    *)
(* orders, tills and concurrent requests.  As long as requests do not      *)
(* overlap, one offlineId gives at most one order, a synced row stays      *)
(* synced, and a till deletes a row for its age or its order alone.        *)
(***************************************************************************)
EXTENDS OfflineSync, TLAPS

\* A request in a state like r has made sure the order in its hands exists.
Knows(r) ==
  \/ r.pc = "mark"
  \/ r.pc = "insert" /\ r.exists
  \/ r.pc = "reply" /\ r.kind = "post" /\ ~r.failed

KnownApplied ==
  \A w \in Worker : Knows(worker[w]) => \A o \in worker[w].cur : orders[o] > 0

\* The items of its push a request in a state like r has still to upsert.
StillToWrite(r) ==
  IF r.pc = "find" THEN r.todo ELSE IF r.pc = "write" THEN r.todo \cup r.cur ELSE {}

\* Every row of a push under way is in sync_queue, or still to be written by
\* the request that carries it.
PushCovered ==
  \A w \in Worker :
    worker[w].dev # NoDevice =>
      \A o \in flush[worker[w].dev] : queue[o] # "none" \/ o \in StillToWrite(worker[w])

\* A till waits on one request at a time, and a request is waited on only while
\* its till has a push under way.
OneRequestPerPush ==
  \A w \in Worker :
    worker[w].dev # NoDevice =>
      /\ flush[worker[w].dev] # {}
      /\ \A v \in Worker : worker[v].dev = worker[w].dev => v = w

\* Only a push or a retry handles queue rows.
KindOk(r) ==
  r.pc \in {"find", "write", "fetch", "pick", "mark", "markFailed"} => r.kind = "sync"

RunsAreSync == \A w \in Worker : KindOk(worker[w])

\* The inductive strengthening of NoLostOrder: a till deletes rows on the word
\* of a request, so the request's own progress has to be part of it.
IInv == /\ NoLostOrder
        /\ SyncedIsApplied
        /\ KnownApplied
        /\ PushCovered
        /\ OneRequestPerPush
        /\ RunsAreSync

-----------------------------------------------------------------------------
(* Types *)

LEMMA IdleType == Idle \in WorkerState
  BY DEF Idle, WorkerState, QueueStatus

LEMMA GotoFrame ==
  ASSUME TypeOK, NEW w \in Worker, NEW r, Goto(w, r)
  PROVE  worker'[w] = r /\ \A v \in Worker \ {w} : worker'[v] = worker[v]
  BY DEF TypeOK, Goto

\* The fields a request's state is read through.
LEMMA FieldTypes ==
  ASSUME NEW r \in WorkerState
  PROVE  /\ r.todo \subseteq Order /\ r.rows \subseteq Order /\ r.cur \subseteq Order
         /\ r.dev \in Device \cup {NoDevice}
         /\ r.failed \in BOOLEAN /\ r.exists \in BOOLEAN
  BY DEF WorkerState

\* Every way a request starts or goes on.
LEMMA Started ==
  /\ \A o \in Order : [Idle EXCEPT !.pc = "dedup", !.cur = {o}] \in WorkerState
  /\ \A d \in Device, S \in SUBSET Order :
       [Idle EXCEPT !.pc = "find", !.kind = "sync", !.todo = S, !.dev = d] \in WorkerState
  /\ [Idle EXCEPT !.pc = "fetch", !.kind = "sync"] \in WorkerState
  BY IdleType DEF WorkerState

LEMMA GoesOn ==
  ASSUME NEW r \in WorkerState
  PROVE  /\ [r EXCEPT !.dev = NoDevice] \in WorkerState
         /\ [r EXCEPT !.pc = "find", !.cur = {}, !.seen = "none"] \in WorkerState
         /\ [r EXCEPT !.pc = "fetch"] \in WorkerState
         /\ [r EXCEPT !.pc = "reply"] \in WorkerState
         /\ [r EXCEPT !.pc = "pick", !.cur = {}] \in WorkerState
         /\ [r EXCEPT !.pc = "markFailed", !.failed = TRUE] \in WorkerState
  BY DEF WorkerState, QueueStatus

LEMMA TakesItem ==
  ASSUME NEW r \in WorkerState, NEW o \in Order, NEW q \in QueueStatus
  PROVE  /\ [r EXCEPT !.todo = @ \ {o}] \in WorkerState
         /\ [r EXCEPT !.todo = @ \ {o}, !.cur = {o}, !.seen = q, !.pc = "write"]
              \in WorkerState
  BY DEF WorkerState

LEMMA TakesRow ==
  ASSUME NEW r \in WorkerState, NEW o \in Order
  PROVE  [r EXCEPT !.pc = "dedup", !.cur = {o}, !.rows = @ \ {o}] \in WorkerState
  BY DEF WorkerState

LEMMA TakesRows ==
  ASSUME NEW r \in WorkerState, NEW S \in SUBSET Order
  PROVE  [r EXCEPT !.pc = "pick", !.rows = S] \in WorkerState
  BY DEF WorkerState

LEMMA TakesAnswer ==
  ASSUME NEW r \in WorkerState, NEW b \in BOOLEAN
  PROVE  [r EXCEPT !.pc = "insert", !.exists = b] \in WorkerState
  BY DEF WorkerState

LEMMA AfterOrderType ==
  ASSUME NEW w \in Worker, worker[w] \in WorkerState, NEW ok \in BOOLEAN
  PROVE  AfterOrder(w, ok) \in WorkerState
  BY DEF AfterOrder, WorkerState

\* The state has its types in every behaviour.
THEOREM TypeCorrect == Spec => []TypeOK
<1>1. Init => TypeOK
  <2> SUFFICES ASSUME Init PROVE TypeOK
    OBVIOUS
  <2>1. post \in [Order -> PostStatus] /\ queue \in [Order -> QueueStatus]
    BY DEF Init, PostStatus, QueueStatus
  <2>2. worker \in [Worker -> WorkerState] /\ orders \in [Order -> Nat]
    BY IdleType DEF Init
  <2>3. QED
    BY <2>1, <2>2 DEF Init, TypeOK
<1>2. TypeOK /\ [Next]_vars => TypeOK'
  <2> SUFFICES ASSUME TypeOK, [Next]_vars PROVE TypeOK'
    OBVIOUS
  <2>1. ASSUME NEW o \in Order, Submit(o) PROVE TypeOK'
    <3>1. post' \in [Order -> PostStatus]
      BY <2>1 DEF Submit, TypeOK, PostStatus
    <3>2. worker' \in [Worker -> WorkerState]
      BY <2>1, Started DEF Submit, TypeOK, Goto
    <3>3. QED
      BY <2>1, <3>1, <3>2 DEF Submit, TypeOK
  <2>2. ASSUME NEW o \in Order, Enqueue(o) PROVE TypeOK'
    BY <2>2 DEF Enqueue, Purge, RowsOf, TypeOK, PostStatus
  <2>3. ASSUME NEW o \in Order, EnqueueLocked(o) PROVE TypeOK'
    BY <2>3 DEF EnqueueLocked, TypeOK, PostStatus
  <2>4. ASSUME NEW o \in Order, GrowOld(o) PROVE TypeOK'
    BY <2>4 DEF GrowOld, TypeOK
  <2>5. ASSUME NEW d \in Device, StartFlush(d) PROVE TypeOK'
    <3> DEFINE rows == RowsOf(d) \ aged
    <3>1. rows \in SUBSET Order
      BY DEF RowsOf, TypeOK
    <3>2. [Idle EXCEPT !.pc = "find", !.kind = "sync", !.todo = rows, !.dev = d]
            \in WorkerState
      BY <3>1, Started
    <3>3. worker' \in [Worker -> WorkerState]
      BY <2>5, <3>2 DEF StartFlush, TypeOK, Goto
    <3>4. QED
      BY <2>5, <3>1, <3>3 DEF StartFlush, Purge, RowsOf, TypeOK
  <2>6. ASSUME NEW d \in Device, LosePush(d) PROVE TypeOK'
    <3>1. worker' \in [Worker -> WorkerState]
      BY <2>6, GoesOn DEF LosePush, TypeOK
    <3>2. QED
      BY <2>6, <3>1 DEF LosePush, TypeOK
  <2>7. ASSUME NEW w \in Worker, Api(w) PROVE TypeOK'
    <3> USE DEF TypeOK, Goto, tillVars
    <3>0. worker[w] \in WorkerState
      OBVIOUS
    <3>1. CASE FindItem(w)
      <4>1. PICK o \in worker[w].todo :
              IF queue[o] = "synced"
              THEN Goto(w, [worker[w] EXCEPT !.todo = @ \ {o}])
              ELSE Goto(w, [worker[w] EXCEPT !.todo = @ \ {o}, !.cur = {o},
                                             !.seen = queue[o], !.pc = "write"])
        BY <3>1 DEF FindItem
      <4>2. o \in Order /\ queue[o] \in QueueStatus
        BY <3>0, FieldTypes
      <4>3. /\ [worker[w] EXCEPT !.todo = @ \ {o}] \in WorkerState
            /\ [worker[w] EXCEPT !.todo = @ \ {o}, !.cur = {o}, !.seen = queue[o],
                                 !.pc = "write"] \in WorkerState
        BY <3>0, <4>2, TakesItem
      <4>4. QED
        BY <3>1, <4>1, <4>3 DEF FindItem
    <3>2. CASE WriteItem(w)
      BY <3>0, <3>2, GoesOn, IdleType, FieldTypes DEF WriteItem, QueueStatus
    <3>3. CASE EndUpsert(w)
      BY <3>0, <3>3, GoesOn DEF EndUpsert
    <3>4. CASE Retry(w)
      BY <3>0, <3>4, Started DEF Retry, QueueStatus
    <3>5. CASE FetchPending(w)
      BY <3>0, <3>5, TakesRows DEF FetchPending
    <3>6. CASE PickRow(w)
      <4>1. PICK o \in worker[w].rows :
              Goto(w, [worker[w] EXCEPT !.pc = "dedup", !.cur = {o}, !.rows = @ \ {o}])
        BY <3>6 DEF PickRow
      <4>2. worker' \in [Worker -> WorkerState]
        BY <3>0, <4>1, TakesRow, FieldTypes
      <4>3. QED
        BY <3>6, <4>2 DEF PickRow
    <3>7. CASE EndRun(w)
      BY <3>0, <3>7, GoesOn DEF EndRun
    <3>8. CASE SelectExisting(w)
      <4>1. PICK o \in worker[w].cur :
              Goto(w, [worker[w] EXCEPT !.pc = "insert", !.exists = orders[o] > 0])
        BY <3>8 DEF SelectExisting
      <4>2. (orders[o] > 0) \in BOOLEAN
        OBVIOUS
      <4>3. worker' \in [Worker -> WorkerState]
        BY <3>0, <4>1, <4>2, TakesAnswer
      <4>4. QED
        BY <3>8, <4>3 DEF SelectExisting
    <3>9. CASE CommitOrder(w)
      <4>1. worker' \in [Worker -> WorkerState]
        BY <3>0, <3>9, AfterOrderType DEF CommitOrder
      <4>2. orders' \in [Order -> Nat]
        BY <3>0, <3>9, FieldTypes DEF CommitOrder
      <4>3. QED
        BY <3>9, <4>1, <4>2 DEF CommitOrder
    <3>10. CASE RollbackOrder(w)
      BY <3>0, <3>10, AfterOrderType DEF RollbackOrder
    <3>11. CASE MarkSynced(w)
      BY <3>0, <3>11, GoesOn, FieldTypes DEF MarkSynced, QueueStatus
    <3>12. CASE MarkSyncedThrows(w)
      BY <3>0, <3>12, GoesOn DEF MarkSyncedThrows
    <3>13. CASE MarkFailed(w)
      BY <3>0, <3>13, GoesOn, FieldTypes DEF MarkFailed, QueueStatus
    <3>14. CASE AnswerPost(w)
      BY <3>0, <3>14, IdleType, FieldTypes DEF AnswerPost, PostStatus
    <3>15. CASE AnswerPush(w)
      BY <3>0, <3>15, IdleType, FieldTypes DEF AnswerPush
    <3>16. CASE Abort(w)
      BY <3>16, IdleType DEF Abort
    <3>17. QED
      BY <2>7, <3>1, <3>2, <3>3, <3>4, <3>5, <3>6, <3>7, <3>8, <3>9, <3>10, <3>11,
         <3>12, <3>13, <3>14, <3>15, <3>16 DEF Api
  <2>8. CASE UNCHANGED vars
    BY <2>8 DEF vars, TypeOK
  <2>9. QED
    BY <2>1, <2>2, <2>3, <2>4, <2>5, <2>6, <2>7, <2>8 DEF Next, Till
<1>3. QED
  BY <1>1, <1>2, PTL DEF Spec

-----------------------------------------------------------------------------
(* No order is lost *)

\* A request that goes on as r, without answering a till, keeps the invariant
\* when it loses no order and no row, and r knows and still writes what it must.
LEMMA RequestGoesOn ==
  ASSUME TypeOK, TypeOK', IInv, NEW w \in Worker, NEW r \in WorkerState,
         Goto(w, r), UNCHANGED tillVars,
         \A o \in Order : orders[o] > 0 => orders'[o] > 0,
         \A o \in Order : queue[o] # "none" => queue'[o] # "none",
         \A o \in Order : queue'[o] = "synced" => orders'[o] > 0,
         Knows(r) => \A o \in r.cur : orders'[o] > 0,
         r.dev \in {worker[w].dev, NoDevice}, KindOk(r),
         r.dev # NoDevice =>
           \A o \in StillToWrite(worker[w]) : queue'[o] # "none" \/ o \in StillToWrite(r)
  PROVE  IInv'
<1>1. /\ worker'[w] = r
      /\ \A v \in Worker \ {w} : worker'[v] = worker[v]
  BY DEF Goto, TypeOK
<1>2. NoLostOrder'
  <2>1. \A o \in Order : queue'[o] \in QueueStatus
    BY DEF TypeOK
  <2>2. QED
    BY <2>1 DEF NoLostOrder, IInv, tillVars, QueueStatus
<1>3. SyncedIsApplied'
  BY DEF SyncedIsApplied
<1>4. KnownApplied'
  BY <1>1, FieldTypes DEF KnownApplied, IInv, TypeOK
<1>5. OneRequestPerPush'
  BY <1>1 DEF OneRequestPerPush, IInv, tillVars
<1>6. PushCovered'
  <2> SUFFICES ASSUME NEW v \in Worker, worker'[v].dev # NoDevice,
                      NEW o \in flush'[worker'[v].dev]
               PROVE  queue'[o] # "none" \/ o \in StillToWrite(worker'[v])
    BY DEF PushCovered
  <2>1. worker[v].dev = worker'[v].dev /\ flush' = flush
    BY <1>1 DEF tillVars
  <2>2. o \in Order
    BY <2>1, FieldTypes DEF TypeOK
  <2>3. queue[o] # "none" \/ o \in StillToWrite(worker[v])
    BY <2>1 DEF PushCovered, IInv
  <2>4. QED
    BY <1>1, <2>1, <2>2, <2>3
<1>7. RunsAreSync'
  BY <1>1 DEF RunsAreSync, IInv
<1>8. QED
  BY <1>2, <1>3, <1>4, <1>5, <1>6, <1>7 DEF IInv

LEMMA InitInv == Init => IInv
<1> SUFFICES ASSUME Init PROVE IInv
  OBVIOUS
<1>1. \A w \in Worker : worker[w] = Idle
  BY DEF Init
<1>2. NoLostOrder /\ SyncedIsApplied
  BY DEF Init, NoLostOrder, SyncedIsApplied
<1>3. KnownApplied /\ PushCovered /\ OneRequestPerPush /\ RunsAreSync
  BY <1>1 DEF KnownApplied, Knows, PushCovered, OneRequestPerPush, RunsAreSync, KindOk, Idle
<1>4. QED
  BY <1>2, <1>3 DEF IInv

LEMMA TillInv == TypeOK /\ TypeOK' /\ IInv /\ Till => IInv'
<1> SUFFICES ASSUME TypeOK, TypeOK', IInv, Till PROVE IInv'
  OBVIOUS
<1>1. ASSUME NEW o \in Order, Submit(o) PROVE IInv'
  <2>1. CASE UNCHANGED worker
    BY <1>1, <2>1 DEF Submit, IInv, NoLostOrder, SyncedIsApplied, KnownApplied,
                      PushCovered, OneRequestPerPush, RunsAreSync, TypeOK
  <2>2. ASSUME NEW w \in Worker, worker[w].pc = "idle",
               Goto(w, [Idle EXCEPT !.pc = "dedup", !.cur = {o}])
        PROVE  IInv'
    <3> DEFINE r == [Idle EXCEPT !.pc = "dedup", !.cur = {o}]
    <3>1. worker'[w] = r /\ \A v \in Worker \ {w} : worker'[v] = worker[v]
      BY <2>2 DEF Goto, TypeOK
    <3>2. ~Knows(r) /\ r.dev = NoDevice /\ KindOk(r)
      BY DEF Knows, KindOk, Idle
    <3>3. NoLostOrder' /\ SyncedIsApplied'
      BY <1>1 DEF Submit, IInv, NoLostOrder, SyncedIsApplied, TypeOK
    <3>4. KnownApplied' /\ PushCovered' /\ OneRequestPerPush' /\ RunsAreSync'
      BY <1>1, <3>1, <3>2 DEF Submit, IInv, KnownApplied, PushCovered, OneRequestPerPush,
                              RunsAreSync
    <3>5. QED
      BY <3>3, <3>4 DEF IInv
  <2>3. QED
    BY <1>1, <2>1, <2>2 DEF Submit
<1>2. ASSUME NEW o \in Order, Enqueue(o) \/ EnqueueLocked(o) \/ GrowOld(o) PROVE IInv'
  <2>1. UNCHANGED <<flush, queue, orders, worker>>
    BY <1>2 DEF Enqueue, EnqueueLocked, GrowOld
  <2>2. NoLostOrder'
    BY <1>2 DEF Enqueue, EnqueueLocked, GrowOld, Purge, IInv, NoLostOrder, TypeOK
  <2>3. QED
    BY <2>1, <2>2 DEF IInv, SyncedIsApplied, KnownApplied, PushCovered, OneRequestPerPush,
                      RunsAreSync
<1>3. ASSUME NEW d \in Device, StartFlush(d) PROVE IInv'
  <2> DEFINE rows == RowsOf(d) \ aged
             r == [Idle EXCEPT !.pc = "find", !.kind = "sync", !.todo = rows, !.dev = d]
  <2>1. /\ flush[d] = {} /\ flush' = [flush EXCEPT ![d] = rows]
        /\ UNCHANGED <<post, queue, orders>>
    BY <1>3 DEF StartFlush
  <2>2. NoLostOrder' /\ SyncedIsApplied'
    BY <1>3, <2>1 DEF StartFlush, Purge, RowsOf, IInv, NoLostOrder, SyncedIsApplied, TypeOK
  <2>3. \A w \in Worker : worker[w].dev # d
    BY <2>1, NoDeviceAssumption DEF IInv, OneRequestPerPush
  <2>4. CASE UNCHANGED worker
    <3>1. KnownApplied' /\ RunsAreSync'
      BY <2>1, <2>4 DEF IInv, KnownApplied, RunsAreSync
    <3>2. \A w \in Worker : worker[w].dev # NoDevice
                            => flush'[worker[w].dev] = flush[worker[w].dev]
      BY <2>1, <2>3, FieldTypes DEF TypeOK
    <3>3. PushCovered' /\ OneRequestPerPush'
      BY <2>1, <2>4, <3>2 DEF IInv, PushCovered, OneRequestPerPush
    <3>4. QED
      BY <2>2, <3>1, <3>3 DEF IInv
  <2>5. ASSUME NEW w \in Worker, rows # {}, worker[w].pc = "idle", Goto(w, r)
        PROVE  IInv'
    <3>1. worker'[w] = r /\ \A v \in Worker \ {w} : worker'[v] = worker[v]
      BY <2>5 DEF Goto, TypeOK
    <3>2. ~Knows(r) /\ r.dev = d /\ StillToWrite(r) = rows /\ KindOk(r)
      BY DEF Knows, StillToWrite, KindOk, Idle
    <3>3. flush'[d] = rows
      BY <2>1 DEF TypeOK
    <3>4. \A v \in Worker \ {w} : worker[v].dev # NoDevice
                                  => flush'[worker[v].dev] = flush[worker[v].dev]
      BY <2>1, <2>3, FieldTypes DEF TypeOK
    <3>5. KnownApplied' /\ RunsAreSync'
      BY <2>1, <3>1, <3>2 DEF IInv, KnownApplied, RunsAreSync
    <3>6. PushCovered'
      BY <2>1, <3>1, <3>2, <3>3, <3>4 DEF IInv, PushCovered
    <3>7. OneRequestPerPush'
      <4> SUFFICES ASSUME NEW v \in Worker, worker'[v].dev # NoDevice
                   PROVE  /\ flush'[worker'[v].dev] # {}
                          /\ \A u \in Worker : worker'[u].dev = worker'[v].dev => u = v
        BY DEF OneRequestPerPush
      <4> HIDE DEF r, rows
      <4>1. CASE v = w
        BY <4>1, <2>3, <2>5, <3>1, <3>2, <3>3
      <4>2. CASE v # w
        BY <4>2, <2>3, <3>1, <3>2, <3>4 DEF IInv, OneRequestPerPush
      <4>3. QED
        BY <4>1, <4>2
    <3>8. QED
      BY <2>2, <3>5, <3>6, <3>7 DEF IInv
  <2>6. QED
    BY <1>3, <2>4, <2>5 DEF StartFlush
<1>4. ASSUME NEW d \in Device, LosePush(d) PROVE IInv'
  <2>1. \A w \in Worker : \/ worker[w].dev # d /\ worker'[w] = worker[w]
                          \/ worker'[w] = [worker[w] EXCEPT !.dev = NoDevice]
    BY <1>4 DEF LosePush
  <2>2. \A w \in Worker :
          /\ Knows(worker'[w]) => Knows(worker[w])
          /\ worker'[w].cur = worker[w].cur
          /\ KindOk(worker[w]) => KindOk(worker'[w])
          /\ worker'[w].dev # NoDevice => worker'[w] = worker[w] /\ worker[w].dev # d
    BY <2>1, FieldTypes DEF Knows, KindOk, TypeOK, WorkerState
  <2>3. NoLostOrder' /\ SyncedIsApplied'
    BY <1>4 DEF LosePush, IInv, NoLostOrder, SyncedIsApplied
  <2>4. KnownApplied' /\ RunsAreSync'
    BY <1>4, <2>2 DEF LosePush, IInv, KnownApplied, RunsAreSync
  <2>5. \A w \in Worker : worker'[w].dev # NoDevice
                          => flush'[worker[w].dev] = flush[worker[w].dev]
    BY <1>4, <2>2, FieldTypes DEF LosePush, TypeOK
  <2>6. PushCovered' /\ OneRequestPerPush'
    BY <1>4, <2>2, <2>5 DEF LosePush, IInv, PushCovered, OneRequestPerPush
  <2>7. QED
    BY <2>3, <2>4, <2>6 DEF IInv
<1>5. QED
  BY <1>1, <1>2, <1>3, <1>4 DEF Till

LEMMA ApiInv ==
  ASSUME TypeOK, TypeOK', IInv, NEW w \in Worker, Api(w) PROVE IInv'
<1> DEFINE me == worker[w]
<1>0. me \in WorkerState
  BY DEF TypeOK
<1>k. KindOk(me)
  BY DEF IInv, RunsAreSync
<1>1. CASE FindItem(w)
  <2>1. PICK o \in me.todo :
          IF queue[o] = "synced"
          THEN Goto(w, [me EXCEPT !.todo = @ \ {o}])
          ELSE Goto(w, [me EXCEPT !.todo = @ \ {o}, !.cur = {o}, !.seen = queue[o],
                                  !.pc = "write"])
    BY <1>1 DEF FindItem
  <2>2. o \in Order /\ queue[o] \in QueueStatus /\ me.pc = "find"
    BY <1>0, <1>1, FieldTypes DEF FindItem, TypeOK
  <2>3. CASE queue[o] = "synced"
    <3> DEFINE r == [me EXCEPT !.todo = @ \ {o}]
    <3>1. r \in WorkerState
      BY <1>0, <2>2, TakesItem
    <3>2. /\ r.pc = "find" /\ r.todo = me.todo \ {o} /\ r.dev = me.dev /\ r.kind = me.kind
      BY <1>0, <2>2 DEF WorkerState
    <3>3. ~Knows(r) /\ KindOk(r) /\ StillToWrite(r) = r.todo /\ StillToWrite(me) = me.todo
      BY <1>k, <2>2, <3>2 DEF Knows, KindOk, StillToWrite
    <3> HIDE DEF r
    <3>4. QED
      BY <1>1, <2>1, <2>3, <3>1, <3>2, <3>3, RequestGoesOn DEF FindItem, IInv, SyncedIsApplied, r
  <2>4. CASE queue[o] # "synced"
    <3> DEFINE r == [me EXCEPT !.todo = @ \ {o}, !.cur = {o}, !.seen = queue[o],
                               !.pc = "write"]
    <3>1. r \in WorkerState
      BY <1>0, <2>2, TakesItem
    <3>2. r.pc = "write" /\ r.todo = me.todo \ {o} /\ r.cur = {o} /\ r.dev = me.dev /\ r.kind = me.kind
      BY <1>0, <2>2 DEF WorkerState
    <3>3. ~Knows(r) /\ KindOk(r) /\ StillToWrite(r) = r.todo \cup r.cur /\ StillToWrite(me) = me.todo
      BY <1>k, <2>2, <3>2 DEF Knows, KindOk, StillToWrite
    <3> HIDE DEF r
    <3>4. QED
      BY <1>1, <2>1, <2>4, <3>1, <3>2, <3>3, RequestGoesOn DEF FindItem, IInv, SyncedIsApplied, r
  <2>5. QED
    BY <2>3, <2>4
<1>2. CASE WriteItem(w)
  <2>1. PICK o \in me.cur :
          IF me.seen = "none" /\ queue[o] # "none"
          THEN Goto(w, Idle) /\ UNCHANGED queue
          ELSE /\ queue' = [queue EXCEPT ![o] = "pending"]
               /\ Goto(w, [me EXCEPT !.pc = "find", !.cur = {}, !.seen = "none"])
    BY <1>2 DEF WriteItem
  <2>2. o \in Order
    BY <1>0, FieldTypes
  <2>3. CASE me.seen = "none" /\ queue[o] # "none"
    <3>1. ~Knows(Idle) /\ KindOk(Idle) /\ Idle.dev = NoDevice
      BY DEF Knows, KindOk, Idle
    <3>2. QED
      BY <1>2, <2>1, <2>3, <3>1, IdleType, RequestGoesOn
         DEF WriteItem, IInv, SyncedIsApplied
  <2>4. CASE ~(me.seen = "none" /\ queue[o] # "none")
    <3> DEFINE r == [me EXCEPT !.pc = "find", !.cur = {}, !.seen = "none"]
    <3>1. r \in WorkerState
      BY <1>0, GoesOn
    <3>2. ~Knows(r) /\ KindOk(r) /\ r.dev = me.dev /\ StillToWrite(r) = me.todo
      BY <1>0, <1>k, <1>2 DEF WriteItem, Knows, KindOk, StillToWrite, WorkerState
    <3> HIDE DEF r
    <3>3. queue' = [queue EXCEPT ![o] = "pending"] /\ Goto(w, r) /\ UNCHANGED <<tillVars, orders>>
      BY <1>2, <2>1, <2>4 DEF WriteItem, r
    <3>4. /\ \A p \in Order : queue[p] # "none" => queue'[p] # "none"
          /\ \A p \in Order : queue'[p] = "synced" => orders'[p] > 0
          /\ queue'[o] # "none"
      BY <2>2, <3>3 DEF IInv, SyncedIsApplied, TypeOK
    <3>5. me.cur = {o}
      BY <1>0 DEF WorkerState
    <3>6. QED
      BY <1>2, <3>1, <3>2, <3>3, <3>4, <3>5, RequestGoesOn DEF WriteItem, StillToWrite
  <2>5. QED
    BY <2>3, <2>4
<1>3. CASE EndUpsert(w)
  <2> DEFINE r == [me EXCEPT !.pc = "fetch"]
  <2>1. r \in WorkerState
    BY <1>0, GoesOn
  <2>2. ~Knows(r) /\ KindOk(r) /\ r.dev = me.dev /\ StillToWrite(me) = {}
    BY <1>0, <1>k, <1>3 DEF EndUpsert, Knows, KindOk, StillToWrite, WorkerState
  <2>3. Goto(w, r)
    BY <1>3 DEF EndUpsert
  <2> HIDE DEF r
  <2>4. QED
    BY <1>3, <2>1, <2>2, <2>3, RequestGoesOn DEF EndUpsert, IInv, SyncedIsApplied
<1>4. CASE Retry(w)
  <2> DEFINE r == [Idle EXCEPT !.pc = "fetch", !.kind = "sync"]
  <2>1. r \in WorkerState
    BY Started
  <2>2. ~Knows(r) /\ KindOk(r) /\ r.dev = NoDevice
    BY DEF Knows, KindOk, Idle
  <2>3. Goto(w, r)
    BY <1>4 DEF Retry
  <2> HIDE DEF r
  <2>4. /\ \A o \in Order : queue[o] # "none" => queue'[o] # "none"
        /\ \A o \in Order : queue'[o] = "synced" => queue[o] = "synced"
    BY <1>4 DEF Retry
  <2>5. QED
    BY <1>4, <2>1, <2>2, <2>3, <2>4, RequestGoesOn DEF Retry, IInv, SyncedIsApplied
<1>5. CASE FetchPending(w)
  <2> DEFINE r == [me EXCEPT !.pc = "pick", !.rows = {o \in Order : queue[o] = "pending"}]
  <2>1. r \in WorkerState
    BY <1>0, TakesRows
  <2>2. ~Knows(r) /\ KindOk(r) /\ r.dev = me.dev /\ StillToWrite(me) = {}
    BY <1>0, <1>k, <1>5 DEF FetchPending, Knows, KindOk, StillToWrite, WorkerState
  <2>3. Goto(w, r)
    BY <1>5 DEF FetchPending
  <2> HIDE DEF r
  <2>4. QED
    BY <1>5, <2>1, <2>2, <2>3, RequestGoesOn DEF FetchPending, IInv, SyncedIsApplied
<1>6. CASE PickRow(w)
  <2>1. PICK o \in me.rows :
          Goto(w, [me EXCEPT !.pc = "dedup", !.cur = {o}, !.rows = @ \ {o}])
    BY <1>6 DEF PickRow
  <2> DEFINE r == [me EXCEPT !.pc = "dedup", !.cur = {o}, !.rows = @ \ {o}]
  <2>2. r \in WorkerState
    BY <1>0, TakesRow, FieldTypes
  <2>3. ~Knows(r) /\ KindOk(r) /\ r.dev = me.dev /\ StillToWrite(me) = {}
    BY <1>0, <1>k, <1>6 DEF PickRow, Knows, KindOk, StillToWrite, WorkerState
  <2> HIDE DEF r
  <2>4. Goto(w, r)
    BY <2>1 DEF r
  <2>5. QED
    BY <1>6, <2>2, <2>3, <2>4, RequestGoesOn DEF PickRow, IInv, SyncedIsApplied
<1>7. CASE EndRun(w)
  <2> DEFINE r == [me EXCEPT !.pc = "reply"]
  <2>1. r \in WorkerState
    BY <1>0, GoesOn
  <2>2. /\ Knows(r) => me.kind = "post"
        /\ r.pc = "reply"
        /\ r.cur = me.cur /\ r.dev = me.dev /\ StillToWrite(me) = {}
    BY <1>0, <1>k, <1>7 DEF EndRun, Knows, KindOk, StillToWrite, WorkerState
  <2>3. Goto(w, r)
    BY <1>7 DEF EndRun
  <2> HIDE DEF r
  <2>4. me.kind = "sync" /\ KindOk(r)
    BY <1>k, <1>7, <2>2 DEF KindOk, EndRun
  <2>5. QED
    BY <1>7, <2>1, <2>2, <2>3, <2>4, RequestGoesOn DEF EndRun, IInv, SyncedIsApplied
<1>8. CASE SelectExisting(w)
  <2>1. PICK o \in me.cur :
          Goto(w, [me EXCEPT !.pc = "insert", !.exists = orders[o] > 0])
    BY <1>8 DEF SelectExisting
  <2> DEFINE r == [me EXCEPT !.pc = "insert", !.exists = orders[o] > 0]
  <2>2. r \in WorkerState
    <3>1. (orders[o] > 0) \in BOOLEAN
      OBVIOUS
    <3>2. QED
      BY <1>0, <3>1, TakesAnswer
  <2>3. /\ Knows(r) => orders[o] > 0
        /\ r.cur = {o} /\ r.dev = me.dev /\ KindOk(r) /\ StillToWrite(me) = {}
    BY <1>0, <1>8 DEF SelectExisting, Knows, KindOk, StillToWrite, WorkerState
  <2> HIDE DEF r
  <2>4. Goto(w, r)
    BY <2>1 DEF r
  <2>5. QED
    BY <1>8, <2>2, <2>3, <2>4, RequestGoesOn DEF SelectExisting, IInv, SyncedIsApplied
<1>9. CASE CommitOrder(w)
  <2> DEFINE r == AfterOrder(w, TRUE)
  <2>1. r \in WorkerState
    BY <1>0, AfterOrderType
  <2>2. /\ r.cur = me.cur /\ r.dev = me.dev /\ KindOk(r) /\ StillToWrite(me) = {}
    BY <1>0, <1>9 DEF CommitOrder, AfterOrder, KindOk, StillToWrite, WorkerState
  <2>3. Goto(w, r)
    BY <1>9 DEF CommitOrder
  <2> HIDE DEF r
  <2>4. PICK o \in me.cur :
          orders' = [orders EXCEPT ![o] = IF me.exists THEN @ ELSE @ + 1]
    BY <1>9 DEF CommitOrder
  <2>5. me.cur = {o} /\ o \in Order
    BY <1>0 DEF WorkerState
  <2>6. me.exists => orders[o] > 0
    BY <1>9, <2>5 DEF IInv, KnownApplied, Knows, CommitOrder
  <2>7. orders'[o] > 0 /\ \A p \in Order : orders[p] > 0 => orders'[p] > 0
    BY <2>4, <2>5, <2>6 DEF TypeOK
  <2>8. QED
    BY <1>9, <2>1, <2>2, <2>3, <2>5, <2>7, RequestGoesOn DEF CommitOrder, IInv, SyncedIsApplied
<1>10. CASE RollbackOrder(w)
  <2> DEFINE r == AfterOrder(w, FALSE)
  <2>1. r \in WorkerState
    BY <1>0, AfterOrderType
  <2>2. ~Knows(r) /\ KindOk(r) /\ r.dev = me.dev /\ StillToWrite(me) = {}
    BY <1>0, <1>10 DEF RollbackOrder, AfterOrder, Knows, KindOk, StillToWrite, WorkerState
  <2>3. Goto(w, r)
    BY <1>10 DEF RollbackOrder
  <2> HIDE DEF r
  <2>4. QED
    BY <1>10, <2>1, <2>2, <2>3, RequestGoesOn DEF RollbackOrder, IInv, SyncedIsApplied
<1>11. CASE MarkSynced(w)
  <2> DEFINE r == [me EXCEPT !.pc = "pick", !.cur = {}]
  <2>1. r \in WorkerState
    BY <1>0, GoesOn
  <2>2. ~Knows(r) /\ KindOk(r) /\ r.dev = me.dev /\ StillToWrite(me) = {}
    BY <1>0, <1>k, <1>11 DEF MarkSynced, Knows, KindOk, StillToWrite, WorkerState
  <2>3. Goto(w, r)
    BY <1>11 DEF MarkSynced
  <2> HIDE DEF r
  <2>4. PICK o \in me.cur : queue' = [queue EXCEPT ![o] = "synced"]
    BY <1>11 DEF MarkSynced
  <2>5. o \in Order /\ orders[o] > 0
    BY <1>0, <1>11, FieldTypes DEF MarkSynced, IInv, KnownApplied, Knows
  <2>6. /\ \A p \in Order : queue[p] # "none" => queue'[p] # "none"
        /\ \A p \in Order : queue'[p] = "synced" => orders[p] > 0
    BY <2>4, <2>5 DEF IInv, SyncedIsApplied, TypeOK
  <2>7. QED
    BY <1>11, <2>1, <2>2, <2>3, <2>6, RequestGoesOn DEF MarkSynced
<1>13. CASE MarkFailed(w)
  <2> DEFINE r == [me EXCEPT !.pc = "pick", !.cur = {}]
  <2>1. r \in WorkerState
    BY <1>0, GoesOn
  <2>2. ~Knows(r) /\ KindOk(r) /\ r.dev = me.dev /\ StillToWrite(me) = {}
    BY <1>0, <1>k, <1>13 DEF MarkFailed, Knows, KindOk, StillToWrite, WorkerState
  <2>3. Goto(w, r)
    BY <1>13 DEF MarkFailed
  <2> HIDE DEF r
  <2>4. PICK o \in me.cur : queue' = [queue EXCEPT ![o] = "failed"]
    BY <1>13 DEF MarkFailed
  <2>5. o \in Order
    BY <1>0, FieldTypes
  <2>6. /\ \A p \in Order : queue[p] # "none" => queue'[p] # "none"
        /\ \A p \in Order : queue'[p] = "synced" => orders[p] > 0
    BY <2>4, <2>5 DEF IInv, SyncedIsApplied, TypeOK
  <2>7. QED
    BY <1>13, <2>1, <2>2, <2>3, <2>6, RequestGoesOn DEF MarkFailed
<1>12. CASE MarkSyncedThrows(w)
  <2> DEFINE r == [me EXCEPT !.pc = "markFailed", !.failed = TRUE]
  <2>1. r \in WorkerState
    BY <1>0, GoesOn
  <2>2. ~Knows(r) /\ KindOk(r) /\ r.dev = me.dev /\ StillToWrite(me) = {}
    BY <1>0, <1>k, <1>12 DEF MarkSyncedThrows, Knows, KindOk, StillToWrite, WorkerState
  <2>3. Goto(w, r)
    BY <1>12 DEF MarkSyncedThrows
  <2> HIDE DEF r
  <2>4. QED
    BY <1>12, <2>1, <2>2, <2>3, RequestGoesOn DEF MarkSyncedThrows, IInv, SyncedIsApplied
<1>14. CASE AnswerPost(w)
  <2>1. worker'[w] = Idle /\ \A v \in Worker \ {w} : worker'[v] = worker[v]
    BY <1>14 DEF AnswerPost, Goto, TypeOK
  <2>2. ~Knows(Idle) /\ KindOk(Idle) /\ Idle.dev = NoDevice
    BY DEF Knows, KindOk, Idle
  <2>3. ~me.failed => \A o \in me.cur : orders[o] > 0
    BY <1>14 DEF AnswerPost, IInv, KnownApplied, Knows
  <2>4. NoLostOrder'
    BY <1>14, <2>3 DEF AnswerPost, IInv, NoLostOrder, TypeOK
  <2>5. QED
    BY <1>14, <2>1, <2>2, <2>4 DEF AnswerPost, IInv, SyncedIsApplied, KnownApplied,
       PushCovered, OneRequestPerPush, RunsAreSync
<1>15. CASE AnswerPush(w)
  <2>1. worker'[w] = Idle /\ \A v \in Worker \ {w} : worker'[v] = worker[v]
    BY <1>15 DEF AnswerPush, Goto, TypeOK
  <2>2. ~Knows(Idle) /\ KindOk(Idle) /\ Idle.dev = NoDevice
    BY DEF Knows, KindOk, Idle
  <2>3. \A v \in Worker \ {w} :
          worker[v].dev # NoDevice => flush'[worker[v].dev] = flush[worker[v].dev]
    BY <1>0, <1>15, FieldTypes DEF AnswerPush, IInv, OneRequestPerPush, TypeOK
  <2>4. PushCovered' /\ OneRequestPerPush' /\ KnownApplied' /\ SyncedIsApplied' /\ RunsAreSync'
    BY <1>15, <2>1, <2>2, <2>3 DEF AnswerPush, IInv, SyncedIsApplied, KnownApplied,
       PushCovered, OneRequestPerPush, RunsAreSync
  <2>5. NoLostOrder'
    <3> SUFFICES ASSUME NEW o \in Order, o \in local, o \notin local'
                 PROVE  orders[o] > 0 \/ queue[o] \in {"pending", "failed"}
      BY <1>15 DEF AnswerPush, IInv, NoLostOrder
    <3>1. me.dev # NoDevice /\ o \in flush[me.dev]
      BY <1>15 DEF AnswerPush
    <3>2. StillToWrite(me) = {}
      BY <1>15 DEF AnswerPush, StillToWrite
    <3>3. queue[o] # "none"
      BY <3>1, <3>2 DEF IInv, PushCovered
    <3>4. QED
      BY <3>3 DEF IInv, SyncedIsApplied, TypeOK, QueueStatus
  <2>6. QED
    BY <2>4, <2>5 DEF IInv
<1>16. CASE Abort(w)
  <2>1. ~Knows(Idle) /\ KindOk(Idle) /\ Idle.dev = NoDevice
    BY DEF Knows, KindOk, Idle
  <2>2. QED
    BY <1>16, <2>1, IdleType, RequestGoesOn DEF Abort, IInv, SyncedIsApplied
<1>17. QED
  BY <1>1, <1>2, <1>3, <1>4, <1>5, <1>6, <1>7, <1>8, <1>9, <1>10, <1>11, <1>12, <1>13,
     <1>14, <1>15, <1>16 DEF Api

LEMMA StrongInvariant == Spec => []IInv
<1>1. IInv /\ TypeOK /\ TypeOK' /\ [Next]_vars => IInv'
  <2>1. CASE UNCHANGED vars
    BY <2>1 DEF vars, IInv, NoLostOrder, SyncedIsApplied, KnownApplied, PushCovered,
       OneRequestPerPush, RunsAreSync
  <2>2. QED
    BY <2>1, TillInv, ApiInv DEF Next
<1>2. QED
  BY <1>1, InitInv, TypeCorrect, PTL DEF Spec

\* However requests overlap, die and go unanswered, an order the till reported
\* as taken is an order, or a row that can still become one, or expired.
THEOREM NothingLost == Spec => []NoLostOrder
<1>1. IInv => NoLostOrder
  BY DEF IInv
<1>2. QED
  BY <1>1, StrongInvariant, PTL

\* A row of sync_queue is marked synced only for an order that exists.
THEOREM SyncedApplied == Spec => []SyncedIsApplied
<1>1. IInv => SyncedIsApplied
  BY DEF IInv
<1>2. QED
  BY <1>1, StrongInvariant, PTL

-----------------------------------------------------------------------------
(* At most one order, while requests do not overlap *)

\* What the SELECT on offline_id found still holds when the order is inserted.
StillMissing ==
  \A w \in Worker : worker[w].pc = "insert" /\ ~worker[w].exists
                    => \A o \in worker[w].cur : orders[o] = 0

\* With one request at a time nothing comes between the SELECT on offline_id and
\* the COMMIT, and an offlineId gives at most one order.  Without the assumption
\* this is false: no unique index backs the SELECT.
THEOREM SerialAtMostOnce ==
  ASSUME \A v, w \in Worker : v = w PROVE Spec => []AtMostOnce
<1> DEFINE Inv == AtMostOnce /\ StillMissing
<1>1. Init => Inv
  BY DEF Init, AtMostOnce, StillMissing, Idle
<1>2. Inv /\ TypeOK /\ TypeOK' /\ [Next]_vars => Inv'
  <2> SUFFICES ASSUME Inv, TypeOK, TypeOK', [Next]_vars PROVE Inv'
    OBVIOUS
  <2>1. CASE UNCHANGED vars
    BY <2>1 DEF vars, AtMostOnce, StillMissing
  <2>2. CASE Till
    <3>1. orders' = orders
      BY <2>2 DEF Till, Submit, Enqueue, EnqueueLocked, GrowOld, StartFlush, LosePush
    <3>2. \A w \in Worker : \/ worker'[w] = worker[w]
                            \/ worker'[w] = [worker[w] EXCEPT !.dev = NoDevice]
                            \/ worker'[w].pc \in {"dedup", "find"}
      <4>1. ASSUME NEW o \in Order, Submit(o)
            PROVE  \A w \in Worker : worker'[w] = worker[w] \/ worker'[w].pc = "dedup"
        <5> DEFINE r == [Idle EXCEPT !.pc = "dedup", !.cur = {o}]
        <5>1. r.pc = "dedup"
          BY DEF Idle
        <5>2. UNCHANGED worker \/ \E w \in Worker : Goto(w, r)
          BY <4>1 DEF Submit
        <5> HIDE DEF r
        <5>3. QED
          BY <5>1, <5>2, GotoFrame
      <4>2. ASSUME NEW d \in Device, StartFlush(d)
            PROVE  \A w \in Worker : worker'[w] = worker[w] \/ worker'[w].pc = "find"
        <5> DEFINE r == [Idle EXCEPT !.pc = "find", !.kind = "sync",
                                     !.todo = RowsOf(d) \ aged, !.dev = d]
        <5>1. r.pc = "find"
          BY DEF Idle
        <5>2. UNCHANGED worker \/ \E w \in Worker : Goto(w, r)
          BY <4>2 DEF StartFlush
        <5> HIDE DEF r
        <5>3. QED
          BY <5>1, <5>2, GotoFrame
      <4>3. CASE \E d \in Device : LosePush(d)
        BY <4>3 DEF LosePush
      <4>4. QED
        BY <2>2, <4>1, <4>2, <4>3 DEF Till, Enqueue, EnqueueLocked, GrowOld
    <3>3. ASSUME NEW w \in Worker, worker'[w].pc = "insert", ~worker'[w].exists
          PROVE  \A o \in worker'[w].cur : orders[o] = 0
      <4>1. worker[w] \in WorkerState
        BY DEF TypeOK
      <4>2. /\ worker[w].pc = "insert" /\ ~worker[w].exists
            /\ worker'[w].cur = worker[w].cur
        BY <3>2, <3>3, <4>1 DEF WorkerState
      <4>3. QED
        BY <4>2 DEF StillMissing
    <3>4. QED
      BY <3>1, <3>3 DEF AtMostOnce, StillMissing
  <2>3. ASSUME NEW w \in Worker, Api(w) PROVE Inv'
    <3> SUFFICES AtMostOnce' /\ (worker'[w].pc = "insert" /\ ~worker'[w].exists
                                   => \A o \in worker'[w].cur : orders'[o] = 0)
      BY DEF StillMissing
    <3>0. worker[w] \in WorkerState
      BY DEF TypeOK
    <3>1. CASE CommitOrder(w)
      <4>1. PICK o \in worker[w].cur :
              orders' = [orders EXCEPT ![o] = IF worker[w].exists THEN @ ELSE @ + 1]
        BY <3>1 DEF CommitOrder
      <4>2. o \in Order
        BY <3>0, FieldTypes
      <4>3. AtMostOnce'
        BY <3>1, <4>1, <4>2 DEF CommitOrder, AtMostOnce, StillMissing, TypeOK
      <4>4. worker'[w].pc # "insert"
        BY <3>0, <3>1 DEF CommitOrder, AfterOrder, Goto, TypeOK, WorkerState
      <4>5. QED
        BY <4>3, <4>4
    <3>2. CASE SelectExisting(w)
      <4>1. PICK o \in worker[w].cur :
              Goto(w, [worker[w] EXCEPT !.pc = "insert", !.exists = orders[o] > 0])
        BY <3>2 DEF SelectExisting
      <4>2. worker[w].cur = {o} /\ o \in Order
        BY <3>0 DEF WorkerState
      <4>3. worker'[w].cur = {o} /\ worker'[w].exists = (orders[o] > 0)
        <5> DEFINE r == [worker[w] EXCEPT !.pc = "insert", !.exists = orders[o] > 0]
        <5>1. r.cur = {o} /\ r.exists = (orders[o] > 0)
          BY <3>0, <4>2 DEF WorkerState
        <5> HIDE DEF r
        <5>2. worker'[w] = r
          BY <4>1, GotoFrame DEF r
        <5>3. QED
          BY <5>1, <5>2
      <4>4. orders' = orders /\ orders[o] \in Nat
        BY <3>2, <4>2 DEF SelectExisting, TypeOK
      <4>5. ~worker'[w].exists => orders'[o] = 0
        <5>1. ~worker'[w].exists => ~(orders[o] > 0)
          BY <4>3, Zenon
        <5>2. ~(orders[o] > 0) => orders'[o] = 0
          BY <4>4
        <5>3. QED
          BY <5>1, <5>2
      <4>6. QED
        BY <4>3, <4>4, <4>5 DEF AtMostOnce
    <3>3. CASE ~CommitOrder(w) /\ ~SelectExisting(w)
      <4>1. orders' = orders
        BY <2>3, <3>3 DEF Api, FindItem, WriteItem, EndUpsert, Retry, FetchPending, PickRow,
           EndRun, RollbackOrder, MarkSynced, MarkSyncedThrows, MarkFailed, AnswerPost,
           AnswerPush, Abort
      <4>2. worker'[w].pc # "insert"
        <5>0. \A r : Goto(w, r) => worker'[w] = r
          BY GotoFrame
        <5> USE <3>0, <5>0 DEF Idle, AfterOrder, WorkerState
        <5>1. CASE FindItem(w)  BY <5>1 DEF FindItem
        <5>2. CASE WriteItem(w)
          <6> DEFINE r == [worker[w] EXCEPT !.pc = "find", !.cur = {}, !.seen = "none"]
          <6>1. r.pc = "find" /\ Idle.pc = "idle"
            OBVIOUS
          <6>2. Goto(w, Idle) \/ Goto(w, r)
            BY <5>2 DEF WriteItem
          <6> HIDE DEF r, Idle
          <6>3. QED
            BY <6>1, <6>2
        <5>3. CASE EndUpsert(w)  BY <5>3 DEF EndUpsert
        <5>4. CASE Retry(w)  BY <5>4 DEF Retry
        <5>5. CASE FetchPending(w)  BY <5>5 DEF FetchPending
        <5>6. CASE PickRow(w)  BY <5>6 DEF PickRow
        <5>7. CASE EndRun(w)  BY <5>7 DEF EndRun
        <5>8. CASE RollbackOrder(w)  BY <5>8 DEF RollbackOrder
        <5>9. CASE MarkSynced(w)  BY <5>9 DEF MarkSynced
        <5>10. CASE MarkSyncedThrows(w)  BY <5>10 DEF MarkSyncedThrows
        <5>11. CASE MarkFailed(w)  BY <5>11 DEF MarkFailed
        <5>12. CASE AnswerPost(w)  BY <5>12 DEF AnswerPost
        <5>13. CASE AnswerPush(w)  BY <5>13 DEF AnswerPush
        <5>14. CASE Abort(w)  BY <5>14 DEF Abort
        <5>20. QED
          BY <2>3, <3>3, <5>1, <5>2, <5>3, <5>4, <5>5, <5>6, <5>7, <5>8, <5>9, <5>10,
             <5>11, <5>12, <5>13, <5>14 DEF Api
      <4>3. QED
        BY <4>1, <4>2 DEF AtMostOnce
    <3>4. QED
      BY <3>1, <3>2, <3>3
  <2>4. QED
    BY <2>1, <2>2, <2>3 DEF Next
<1>3. QED
  BY <1>1, <1>2, TypeCorrect, PTL DEF Spec

-----------------------------------------------------------------------------
(* What a push leaves behind, while requests do not overlap *)

\* The queue rows a run in a state like r has read and not yet settled.
Run(r) == r.kind = "sync" /\ r.pc \in {"pick", "dedup", "insert", "mark", "markFailed"}
Held(r) == IF r.pc = "pick" THEN r.rows ELSE r.rows \cup r.cur

\* What a request read of sync_queue still holds: the row it is about to write
\* is not synced, and those its run holds are pending, each held once.
StillUnsynced(r) ==
  /\ r.pc = "write" => \A o \in r.cur : queue[o] # "synced"
  /\ Run(r) => \A o \in Held(r) : queue[o] = "pending"
  /\ Run(r) /\ r.pc # "pick" => r.cur \cap r.rows = {}

\* Until it counts a failure, the request a till waits on has every row of the
\* push before it, in its hands, or behind it as an order.
PushAccounted(r) ==
  r.dev # NoDevice =>
    /\ r.kind = "sync"
    /\ r.pc = "markFailed" => r.failed
    /\ r.failed \/ \A o \in flush[r.dev] :
         \/ /\ r.pc \in {"find", "write", "fetch"}
            /\ queue[o] \in {"pending", "synced"} \/ o \in StillToWrite(r)
         \/ Run(r) /\ o \in Held(r)
         \/ (Run(r) \/ r.pc = "reply") /\ orders[o] > 0

RunInv == \A w \in Worker : StillUnsynced(worker[w]) /\ PushAccounted(worker[w])

\* A request that is over holds nothing and promises nothing.
LEMMA IdleRun ==
  ASSUME NEW w \in Worker, worker'[w] = Idle
  PROVE  StillUnsynced(worker[w])' /\ PushAccounted(worker[w])'
BY DEF StillUnsynced, PushAccounted, Run, Idle

\* A step of the request keeps what it holds and what it promises: nothing else
\* touches the queue between two of its steps.
LEMMA ApiRun ==
  ASSUME TypeOK, TypeOK', IInv, RunInv, NEW w \in Worker,
         \A v \in Worker : v = w, Api(w)
  PROVE  RunInv'
<1> DEFINE q == worker[w]
<1> DEFINE r == worker'[w]
<1> SUFFICES StillUnsynced(worker[w])' /\ PushAccounted(worker[w])'
  BY DEF RunInv
<1>1. q \in WorkerState /\ r \in WorkerState
  BY DEF TypeOK
<1>2. /\ q.pc = "write" => \A o \in q.cur : queue[o] # "synced"
      /\ Run(q) => \A o \in Held(q) : queue[o] = "pending"
      /\ Run(q) /\ q.pc # "pick" => q.cur \cap q.rows = {}
  BY DEF RunInv, StillUnsynced
<1>3. ASSUME q.dev # NoDevice
      PROVE  /\ q.kind = "sync"
             /\ q.pc = "markFailed" => q.failed
             /\ q.failed \/ \A o \in flush[q.dev] :
                  \/ /\ q.pc \in {"find", "write", "fetch"}
                     /\ queue[o] \in {"pending", "synced"} \/ o \in StillToWrite(q)
                  \/ Run(q) /\ o \in Held(q)
                  \/ (Run(q) \/ q.pc = "reply") /\ orders[o] > 0
  BY <1>3 DEF RunInv, PushAccounted
<1>4. /\ q.todo \subseteq Order /\ q.rows \subseteq Order /\ q.cur \subseteq Order
      /\ q.dev # NoDevice => flush[q.dev] \subseteq Order
      /\ \A o \in q.cur : q.cur = {o}
  BY <1>1, FieldTypes DEF TypeOK, WorkerState
<1>5. \A x : Goto(w, x) => worker'[w] = x
  BY GotoFrame
<1>6. CASE FindItem(w)
  <2>1. PICK o \in q.todo : \/ queue[o] = "synced" /\ r = [q EXCEPT !.todo = @ \ {o}]
                            \/ /\ queue[o] # "synced"
                               /\ r = [q EXCEPT !.todo = @ \ {o}, !.cur = {o},
                                                !.seen = queue[o], !.pc = "write"]
    BY <1>5, <1>6 DEF FindItem
  <2>2. /\ q.pc = "find" /\ r.kind = q.kind /\ r.dev = q.dev /\ r.failed = q.failed
        /\ r.todo = q.todo \ {o}
        /\ \/ queue[o] = "synced" /\ r.pc = "find"
           \/ queue[o] # "synced" /\ r.pc = "write" /\ r.cur = {o}
    BY <1>1, <1>6, <2>1 DEF FindItem, WorkerState
  <2>3. queue' = queue /\ flush' = flush /\ orders' = orders
    BY <1>6 DEF FindItem, tillVars
  <2>4. StillUnsynced(worker[w])'
    BY <2>2, <2>3 DEF StillUnsynced, Run
  <2>5. PushAccounted(worker[w])'
    BY <1>3, <2>2, <2>3 DEF PushAccounted, Run, StillToWrite
  <2>6. QED
    BY <2>4, <2>5
<1>7. CASE WriteItem(w)
  <2>1. PICK o \in q.cur :
          \/ r = Idle
          \/ /\ queue' = [queue EXCEPT ![o] = "pending"]
             /\ r = [q EXCEPT !.pc = "find", !.cur = {}, !.seen = "none"]
    BY <1>5, <1>7 DEF WriteItem
  <2>2. CASE r = Idle
    BY <2>2, IdleRun
  <2>3. CASE r # Idle
    <3>1. /\ q.pc = "write" /\ r.pc = "find" /\ r.kind = q.kind /\ r.dev = q.dev
          /\ r.failed = q.failed /\ r.todo = q.todo
      BY <1>1, <1>7, <2>1, <2>3 DEF WriteItem, WorkerState
    <3>2. /\ flush' = flush /\ orders' = orders /\ q.cur = {o} /\ o \in Order
          /\ queue'[o] = "pending" /\ \A p \in Order \ {o} : queue'[p] = queue[p]
      BY <1>4, <1>7, <2>1, <2>3 DEF WriteItem, tillVars, TypeOK
    <3>3. StillUnsynced(worker[w])'
      BY <3>1 DEF StillUnsynced, Run
    <3>4. PushAccounted(worker[w])'
      BY <1>3, <1>4, <3>1, <3>2 DEF PushAccounted, Run, StillToWrite
    <3>5. QED
      BY <3>3, <3>4
  <2>4. QED
    BY <2>2, <2>3
<1>8. CASE EndUpsert(w)
  <2>1. /\ q.pc = "find" /\ q.todo = {} /\ r.pc = "fetch" /\ r.kind = q.kind
        /\ r.dev = q.dev /\ r.failed = q.failed
        /\ queue' = queue /\ flush' = flush /\ orders' = orders
    BY <1>1, <1>5, <1>8 DEF EndUpsert, WorkerState, tillVars
  <2>2. QED
    BY <1>3, <2>1 DEF StillUnsynced, PushAccounted, Run, StillToWrite
<1>9. CASE Retry(w)
  <2>1. r.pc = "fetch" /\ r.dev = NoDevice
    BY <1>5, <1>9 DEF Retry, Idle
  <2>2. QED
    BY <2>1 DEF StillUnsynced, PushAccounted, Run
<1>10. CASE FetchPending(w)
  <2>1. /\ q.pc = "fetch" /\ r.pc = "pick" /\ r.kind = q.kind /\ r.dev = q.dev
        /\ r.failed = q.failed /\ r.rows = {o \in Order : queue[o] = "pending"}
        /\ queue' = queue /\ flush' = flush /\ orders' = orders
    BY <1>1, <1>5, <1>10 DEF FetchPending, WorkerState, tillVars
  <2>2. StillUnsynced(worker[w])'
    BY <2>1 DEF StillUnsynced, Run, Held
  <2>3. \A o \in Order : queue[o] = "synced" => orders[o] > 0
    BY DEF IInv, SyncedIsApplied
  <2>4. PushAccounted(worker[w])'
    BY <1>3, <1>4, <2>1, <2>3 DEF PushAccounted, Run, Held, StillToWrite
  <2>5. QED
    BY <2>2, <2>4
<1>11. CASE PickRow(w)
  <2>1. PICK o \in q.rows : r = [q EXCEPT !.pc = "dedup", !.cur = {o}, !.rows = @ \ {o}]
    BY <1>5, <1>11 DEF PickRow
  <2>2. /\ q.pc = "pick" /\ q.kind = "sync" /\ r.pc = "dedup" /\ r.kind = q.kind
        /\ r.dev = q.dev /\ r.failed = q.failed /\ r.rows = q.rows \ {o} /\ r.cur = {o}
        /\ queue' = queue /\ flush' = flush /\ orders' = orders
    BY <1>1, <1>11, <2>1 DEF PickRow, WorkerState, tillVars, IInv, RunsAreSync, KindOk
  <2>3. Run(q) /\ Run(r) /\ Held(r) = Held(q)
    BY <2>1, <2>2 DEF Run, Held
  <2>4. StillUnsynced(worker[w])'
    BY <1>2, <2>2, <2>3 DEF StillUnsynced
  <2>5. PushAccounted(worker[w])'
    BY <1>3, <2>2, <2>3 DEF PushAccounted
  <2>6. QED
    BY <2>4, <2>5
<1>12. CASE EndRun(w)
  <2>1. /\ q.pc = "pick" /\ q.rows = {} /\ r.pc = "reply" /\ r.kind = q.kind
        /\ r.dev = q.dev /\ r.failed = q.failed
        /\ queue' = queue /\ flush' = flush /\ orders' = orders
    BY <1>1, <1>5, <1>12 DEF EndRun, WorkerState, tillVars
  <2>2. QED
    BY <1>3, <2>1 DEF StillUnsynced, PushAccounted, Run, Held
<1>13. CASE SelectExisting(w)
  <2>1. PICK o \in q.cur : r = [q EXCEPT !.pc = "insert", !.exists = orders[o] > 0]
    BY <1>5, <1>13 DEF SelectExisting
  <2>2. /\ q.pc = "dedup" /\ r.pc = "insert" /\ r.kind = q.kind /\ r.dev = q.dev
        /\ r.failed = q.failed /\ r.rows = q.rows /\ r.cur = q.cur
        /\ queue' = queue /\ flush' = flush /\ orders' = orders
    BY <1>1, <1>13, <2>1 DEF SelectExisting, WorkerState, tillVars
  <2>3. Run(r) = Run(q) /\ Held(r) = Held(q)
    BY <2>2 DEF Run, Held
  <2>4. StillUnsynced(worker[w])'
    BY <1>2, <2>2, <2>3 DEF StillUnsynced
  <2>5. PushAccounted(worker[w])'
    BY <1>3, <2>2, <2>3 DEF PushAccounted
  <2>6. QED
    BY <2>4, <2>5
<1>14. CASE CommitOrder(w)
  <2>1. r = AfterOrder(w, TRUE)
    BY <1>5, <1>14 DEF CommitOrder
  <2>2. /\ q.pc = "insert" /\ r.pc = (IF q.kind = "post" THEN "reply" ELSE "mark")
        /\ r.kind = q.kind /\ r.dev = q.dev
        /\ r.failed = q.failed /\ r.rows = q.rows /\ r.cur = q.cur
        /\ queue' = queue /\ flush' = flush
    BY <1>1, <1>14, <2>1 DEF CommitOrder, AfterOrder, WorkerState, tillVars
  <2>3. Held(r) = Held(q) /\ q.kind \in {"post", "sync"}
    BY <1>1, <2>2 DEF Held, WorkerState
  <2>4. \A o \in Order : orders[o] > 0 => orders'[o] > 0
    BY <1>4, <1>14 DEF CommitOrder, TypeOK
  <2>5. StillUnsynced(worker[w])'
    BY <1>2, <2>2, <2>3 DEF StillUnsynced, Run
  <2>6. PushAccounted(worker[w])'
    BY <1>3, <1>4, <2>2, <2>3, <2>4 DEF PushAccounted, Run
  <2>7. QED
    BY <2>5, <2>6
<1>15. CASE RollbackOrder(w)
  <2>1. r = AfterOrder(w, FALSE)
    BY <1>5, <1>15 DEF RollbackOrder
  <2>2. /\ q.pc = "insert" /\ r.pc = (IF q.kind = "post" THEN "reply" ELSE "markFailed")
        /\ r.kind = q.kind /\ r.dev = q.dev
        /\ r.failed /\ r.rows = q.rows /\ r.cur = q.cur
        /\ queue' = queue /\ flush' = flush
    BY <1>1, <1>15, <2>1 DEF RollbackOrder, AfterOrder, WorkerState, tillVars
  <2>3. Held(r) = Held(q) /\ q.kind \in {"post", "sync"}
    BY <1>1, <2>2 DEF Held, WorkerState
  <2>4. StillUnsynced(worker[w])'
    BY <1>2, <2>2, <2>3 DEF StillUnsynced, Run
  <2>5. PushAccounted(worker[w])'
    BY <1>3, <2>2 DEF PushAccounted
  <2>6. QED
    BY <2>4, <2>5
<1>16. CASE MarkSynced(w) \/ MarkFailed(w)
  <2>1. PICK o \in q.cur, s \in {"synced", "failed"} : queue' = [queue EXCEPT ![o] = s]
    BY <1>16 DEF MarkSynced, MarkFailed
  <2>2. /\ q.pc \in {"mark", "markFailed"} /\ q.kind = "sync"
        /\ r.pc = "pick" /\ r.kind = q.kind /\ r.dev = q.dev
        /\ r.failed = q.failed /\ r.rows = q.rows
        /\ flush' = flush /\ orders' = orders
    BY <1>1, <1>5, <1>16 DEF MarkSynced, MarkFailed, WorkerState, tillVars, IInv,
       RunsAreSync, KindOk
  <2>3. /\ q.cur = {o} /\ o \in Order /\ Run(q) /\ Run(r)
        /\ Held(q) = q.rows \cup {o} /\ Held(r) = q.rows
    BY <1>4, <2>2 DEF Run, Held
  <2>4. o \notin q.rows
    BY <1>2, <2>2, <2>3
  <2>5. StillUnsynced(worker[w])'
    BY <1>2, <1>4, <2>1, <2>2, <2>3, <2>4 DEF StillUnsynced, TypeOK
  <2>6. q.pc = "mark" => orders[o] > 0
    BY <2>3 DEF IInv, KnownApplied, Knows
  <2>7. PushAccounted(worker[w])'
    BY <1>3, <2>2, <2>3, <2>6 DEF PushAccounted
  <2>8. QED
    BY <2>5, <2>7
<1>17. CASE MarkSyncedThrows(w)
  <2>1. /\ q.pc = "mark" /\ r.pc = "markFailed" /\ r.kind = q.kind /\ r.dev = q.dev
        /\ r.failed /\ r.rows = q.rows /\ r.cur = q.cur
        /\ queue' = queue /\ flush' = flush
    BY <1>1, <1>5, <1>17 DEF MarkSyncedThrows, WorkerState, tillVars
  <2>2. Run(r) = Run(q) /\ Held(r) = Held(q)
    BY <2>1 DEF Run, Held
  <2>3. QED
    BY <1>2, <1>3, <2>1, <2>2 DEF StillUnsynced, PushAccounted
<1>18. CASE AnswerPost(w) \/ AnswerPush(w) \/ Abort(w)
  BY <1>5, <1>18, IdleRun DEF AnswerPost, AnswerPush, Abort
<1>19. QED
  BY <1>6, <1>7, <1>8, <1>9, <1>10, <1>11, <1>12, <1>13, <1>14, <1>15, <1>16, <1>17,
     <1>18 DEF Api

\* A till starts a request with the whole push before it, and hears of none it
\* has given up.
LEMMA TillRun == TypeOK /\ TypeOK' /\ IInv /\ RunInv /\ Till => RunInv'
<1> SUFFICES ASSUME TypeOK, TypeOK', IInv, RunInv, Till, NEW w \in Worker
             PROVE  StillUnsynced(worker[w])' /\ PushAccounted(worker[w])'
  BY DEF RunInv
<1>1. worker[w] \in WorkerState /\ queue' = queue /\ orders' = orders
  BY DEF TypeOK, Till, Submit, Enqueue, EnqueueLocked, GrowOld, StartFlush, LosePush
<1>2. StillUnsynced(worker[w]) /\ PushAccounted(worker[w])
  BY DEF RunInv
<1>3. ASSUME worker'[w] = worker[w],
             worker[w].dev # NoDevice => flush'[worker[w].dev] = flush[worker[w].dev]
      PROVE  StillUnsynced(worker[w])' /\ PushAccounted(worker[w])'
  BY <1>1, <1>2, <1>3 DEF StillUnsynced, PushAccounted
<1>4. ASSUME NEW o \in Order, Submit(o) PROVE StillUnsynced(worker[w])' /\ PushAccounted(worker[w])'
  <2> DEFINE r == [Idle EXCEPT !.pc = "dedup", !.cur = {o}]
  <2>1. r.pc = "dedup" /\ r.kind = "post" /\ r.dev = NoDevice
    BY DEF Idle
  <2>2. UNCHANGED worker \/ \E v \in Worker : Goto(v, r)
    BY <1>4 DEF Submit
  <2> HIDE DEF r
  <2>3. worker'[w] = worker[w] \/ worker'[w] = r
    BY <2>2, GotoFrame
  <2>4. CASE worker'[w] = worker[w]
    BY <1>3, <1>4, <2>4 DEF Submit
  <2>5. CASE worker'[w] = r
    BY <2>1, <2>5 DEF StillUnsynced, PushAccounted, Run
  <2>6. QED
    BY <2>3, <2>4, <2>5
<1>5. ASSUME NEW d \in Device, StartFlush(d)
      PROVE  StillUnsynced(worker[w])' /\ PushAccounted(worker[w])'
  <2> DEFINE sent == RowsOf(d) \ aged
  <2> DEFINE r == [Idle EXCEPT !.pc = "find", !.kind = "sync", !.todo = sent, !.dev = d]
  <2>1. r.pc = "find" /\ r.kind = "sync" /\ r.dev = d /\ r.todo = sent
    BY DEF Idle
  <2>2. flush[d] = {} /\ flush' = [flush EXCEPT ![d] = sent] /\ flush'[d] = sent
    BY <1>5 DEF StartFlush, TypeOK
  <2>3. UNCHANGED worker \/ \E v \in Worker : Goto(v, r)
    BY <1>5 DEF StartFlush
  <2>4. worker[w].dev # d
    BY <2>2, NoDeviceAssumption DEF IInv, OneRequestPerPush
  <2> HIDE DEF r, sent
  <2>5. worker'[w] = worker[w] \/ worker'[w] = r
    BY <2>3, GotoFrame
  <2>6. CASE worker'[w] = worker[w]
    BY <1>1, <1>3, <2>2, <2>4, <2>6, FieldTypes DEF TypeOK
  <2>7. CASE worker'[w] = r
    BY <2>1, <2>2, <2>7 DEF StillUnsynced, PushAccounted, Run, StillToWrite
  <2>8. QED
    BY <2>5, <2>6, <2>7
<1>6. ASSUME NEW d \in Device, LosePush(d)
      PROVE  StillUnsynced(worker[w])' /\ PushAccounted(worker[w])'
  <2>1. CASE worker[w].dev = d
    <3>1. worker'[w] = [worker[w] EXCEPT !.dev = NoDevice]
      BY <1>6, <2>1 DEF LosePush
    <3>2. /\ worker'[w].dev = NoDevice /\ worker'[w].pc = worker[w].pc
          /\ worker'[w].kind = worker[w].kind /\ worker'[w].cur = worker[w].cur
          /\ worker'[w].rows = worker[w].rows
      BY <1>1, <3>1 DEF WorkerState
    <3>3. QED
      BY <1>1, <1>2, <3>2 DEF StillUnsynced, PushAccounted, Run, Held
  <2>2. CASE worker[w].dev # d
    BY <1>1, <1>3, <1>6, <2>2, FieldTypes DEF LosePush, TypeOK
  <2>3. QED
    BY <2>1, <2>2
<1>7. CASE \E o \in Order : Enqueue(o) \/ EnqueueLocked(o) \/ GrowOld(o)
  BY <1>3, <1>7 DEF Enqueue, EnqueueLocked, GrowOld
<1>8. QED
  BY <1>4, <1>5, <1>6, <1>7 DEF Till

\* What a request holds and promises, of every behaviour without overlaps.
LEMMA SerialRuns ==
  ASSUME \A v, w \in Worker : v = w PROVE Spec => []RunInv
<1>1. Init => RunInv
  BY DEF Init, RunInv, StillUnsynced, PushAccounted, Run, Idle
<1>2. RunInv /\ IInv /\ TypeOK /\ TypeOK' /\ [Next]_vars => RunInv'
  <2> SUFFICES ASSUME RunInv, IInv, TypeOK, TypeOK', [Next]_vars PROVE RunInv'
    OBVIOUS
  <2>1. CASE UNCHANGED vars
    BY <2>1 DEF vars, RunInv, StillUnsynced, PushAccounted
  <2>2. QED
    BY <2>1, TillRun, ApiRun DEF Next
<1>3. QED
  BY <1>1, <1>2, TypeCorrect, StrongInvariant, PTL DEF Spec

\* A row marked synced stays synced: a push that carries it again skips it, and
\* a run holds pending rows alone.  With overlapping requests this is false: a
\* row found unsynced is written back to pending after another run settled it.
THEOREM SerialSyncedStays ==
  ASSUME \A v, w \in Worker : v = w PROVE Spec => SyncedStays
<1> DEFINE Stays == \A o \in Order : queue[o] = "synced" => queue'[o] = "synced"
<1>1. TypeOK /\ IInv /\ RunInv /\ [Next]_vars => [Stays]_vars
  <2> SUFFICES ASSUME TypeOK, IInv, RunInv, Next, NEW o \in Order, queue[o] = "synced"
               PROVE  queue'[o] = "synced"
    BY DEF vars
  <2>1. CASE Till
    BY <2>1 DEF Till, Submit, Enqueue, EnqueueLocked, GrowOld, StartFlush, LosePush
  <2>2. ASSUME NEW w \in Worker, Api(w) PROVE queue'[o] = "synced"
    <3> USE DEF TypeOK
    <3>1. /\ worker[w].pc = "write" => o \notin worker[w].cur
          /\ worker[w].pc \in {"mark", "markFailed"} => o \notin worker[w].cur
      <4>1. /\ StillUnsynced(worker[w])
            /\ worker[w].pc \in {"mark", "markFailed"} => worker[w].kind = "sync"
        BY DEF RunInv, IInv, RunsAreSync, KindOk
      <4>2. QED
        BY <4>1 DEF StillUnsynced, Run, Held
    <3>2. CASE WriteItem(w)
      BY <3>1, <3>2 DEF WriteItem
    <3>3. CASE MarkSynced(w) \/ MarkFailed(w)
      BY <3>1, <3>3 DEF MarkSynced, MarkFailed
    <3>4. CASE Retry(w)
      BY <3>4 DEF Retry
    <3>5. CASE queue' = queue
      BY <3>5
    <3>6. QED
      BY <2>2, <3>2, <3>3, <3>4, <3>5 DEF Api, FindItem, EndUpsert, FetchPending,
         PickRow, EndRun, SelectExisting, CommitOrder, RollbackOrder, MarkSyncedThrows,
         AnswerPost, AnswerPush, Abort
  <2>3. QED
    BY <2>1, <2>2 DEF Next
<1>2. QED
  BY <1>1, TypeCorrect, StrongInvariant, SerialRuns, PTL DEF Spec, SyncedStays

\* A till deletes a row for its age, or on the word of an answer without
\* failures, and then the row's order exists.
THEOREM SerialDeletes ==
  ASSUME \A v, w \in Worker : v = w PROVE Spec => DeletedOnlyIfApplied
<1> DEFINE Deletes == \A o \in Order : o \in local \ local' => o \in dropped' \/ orders[o] > 0
<1>1. TypeOK /\ RunInv /\ [Next]_vars => [Deletes]_vars
  <2> SUFFICES ASSUME TypeOK, RunInv, Next, NEW o \in Order, o \in local, o \notin local'
               PROVE  o \in dropped' \/ orders[o] > 0
    BY DEF vars
  <2>1. CASE Till
    BY <2>1 DEF Till, Submit, Enqueue, EnqueueLocked, GrowOld, StartFlush, LosePush
  <2>2. ASSUME NEW w \in Worker, Api(w) PROVE orders[o] > 0
    <3>1. AnswerPush(w)
      BY <2>2 DEF Api, FindItem, WriteItem, EndUpsert, Retry, FetchPending, PickRow,
         EndRun, SelectExisting, CommitOrder, RollbackOrder, MarkSynced,
         MarkSyncedThrows, MarkFailed, AnswerPost, Abort, tillVars
    <3>2. /\ worker[w].pc = "reply" /\ worker[w].dev # NoDevice
          /\ ~worker[w].failed /\ o \in flush[worker[w].dev]
      BY <3>1 DEF AnswerPush
    <3>3. PushAccounted(worker[w])
      BY DEF RunInv
    <3>4. QED
      BY <3>2, <3>3 DEF PushAccounted, Run
  <2>3. QED
    BY <2>1, <2>2 DEF Next
<1>2. QED
  BY <1>1, TypeCorrect, SerialRuns, PTL DEF Spec, DeletedOnlyIfApplied
=============================================================================
