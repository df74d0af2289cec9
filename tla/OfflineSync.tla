----------------------------- MODULE OfflineSync -----------------------------
(***************************************************************************)
(* The offline path of an order: a till submits it directly, keeps it in   *)
(* IndexedDB when the network fails, pushes everything it holds to the     *)
(* tenant's sync_queue, and the API turns queue rows into orders.          *)
(*                                                                         *)
(*   till  (apps/pos/src/lib/syncQueueClient.ts, store/usePosStore.ts)     *)
(*     post[o]   the direct POST of order o, as the till sees it           *)
(*     local     orders with a row in IndexedDB pendingSync                *)
(*     aged      those of them past VITE_OFFLINE_SYNC_MAX_HOURS            *)
(*     dropped   orders whose row was purged for its age                   *)
(*     flush[d]  the rows of the push device d is waiting on, {} if none   *)
(*   API   (sync.controller.ts, sync-process.service.ts, createOrderCore)  *)
(*     queue[o]  the status of o's row of public.sync_queue                *)
(*     orders[o] how many rows of orders carry o's offline_id              *)
(*     worker[w] one request in progress; requests interleave at awaits    *)
(*                                                                         *)
(* One tenant.  A row's payload is abstracted to the order it stands for;  *)
(* the createdAt order in which a run takes its rows is abstracted to any  *)
(* order.                                                                  *)
(***************************************************************************)
EXTENDS Naturals, FiniteSets

CONSTANTS Order,      \* offlineIds the tills generate (crypto.randomUUID)
          Device,     \* tills, each with its own IndexedDB
          Worker,     \* API requests that can be in progress at once
          OwnerOf,    \* [Order -> Device]: the till an order is taken on
          Invalid,    \* orders the API never accepts (payload, table, stock)
          NoDevice    \* a request whose client has gone, or is not a till

ASSUME OwnerAssumption == OwnerOf \in [Order -> Device]
ASSUME InvalidAssumption == Invalid \subseteq Order
ASSUME NoDeviceAssumption == NoDevice \notin Device

VARIABLES post, local, aged, dropped, flush, queue, orders, worker

tillVars == <<post, local, aged, dropped, flush>>
vars == <<post, local, aged, dropped, flush, queue, orders, worker>>

PostStatus == {"new", "sent", "accepted", "queued", "refused"}
QueueStatus == {"none", "pending", "failed", "synced"}

\* "dedup" .. "insert" is one transaction of createOrderCore: the SELECT on
\* offline_id, then the INSERTs and the COMMIT.
WorkerState ==
  [pc     : {"idle", "find", "write", "fetch", "pick", "dedup", "insert",
             "mark", "markFailed", "reply"},
   kind   : {"post", "sync"},
   todo   : SUBSET Order,        \* items of the push not yet upserted
   rows   : SUBSET Order,        \* pending rows the run has read
   cur    : {{}} \cup {{o} : o \in Order},  \* the order being worked on, or none
   seen   : QueueStatus,         \* what findUnique returned
   exists : BOOLEAN,             \* what the SELECT on offline_id returned
   failed : BOOLEAN,             \* the answer counts a failure
   dev    : Device \cup {NoDevice}]

Idle == [pc |-> "idle", kind |-> "post", todo |-> {}, rows |-> {}, cur |-> {},
         seen |-> "none", exists |-> FALSE, failed |-> FALSE, dev |-> NoDevice]

TypeOK ==
  /\ post \in [Order -> PostStatus]
  /\ local \subseteq Order
  /\ aged \subseteq Order
  /\ dropped \subseteq Order
  /\ flush \in [Device -> SUBSET Order]
  /\ queue \in [Order -> QueueStatus]
  /\ orders \in [Order -> Nat]
  /\ worker \in [Worker -> WorkerState]

Init ==
  /\ post = [o \in Order |-> "new"]
  /\ local = {}
  /\ aged = {}
  /\ dropped = {}
  /\ flush = [d \in Device |-> {}]
  /\ queue = [o \in Order |-> "none"]
  /\ orders = [o \in Order |-> 0]
  /\ worker = [w \in Worker |-> Idle]

\* The request w goes on as r.
Goto(w, r) == worker' = [worker EXCEPT ![w] = r]

RowsOf(d) == {o \in local : OwnerOf[o] = d}

-----------------------------------------------------------------------------
(* The till *)

\* submitRemoteOrder / submitOrderAndPay: POST with a fresh offlineId.  The
\* request may never reach the API.
Submit(o) ==
  /\ post[o] = "new"
  /\ post' = [post EXCEPT ![o] = "sent"]
  /\ \/ \E w \in Worker :
          /\ worker[w].pc = "idle"
          /\ Goto(w, [Idle EXCEPT !.pc = "dedup", !.cur = {o}])
     \/ UNCHANGED worker
  /\ UNCHANGED <<local, aged, dropped, flush, queue, orders>>

\* purgeExpiredPendingSync on device d.
Purge(d) == RowsOf(d) \cap aged

\* fetch threw TypeError: the till keeps the order and tells the user it is
\* queued (enqueuePendingSync) ...
Enqueue(o) ==
  /\ post[o] = "sent"
  /\ post' = [post EXCEPT ![o] = "queued"]
  /\ local' = (local \ Purge(OwnerOf[o])) \cup {o}
  /\ dropped' = dropped \cup Purge(OwnerOf[o])
  /\ aged' = aged \ Purge(OwnerOf[o])
  /\ UNCHANGED <<flush, queue, orders, worker>>

\* ... unless the offline grace period is over (OFFLINE_LOCKED).
EnqueueLocked(o) ==
  /\ post[o] = "sent"
  /\ post' = [post EXCEPT ![o] = "refused"]
  /\ UNCHANGED <<local, aged, dropped, flush, queue, orders, worker>>

\* A row grows older than getOfflineSyncMaxAgeMs.
GrowOld(o) ==
  /\ o \in local
  /\ o \notin aged
  /\ aged' = aged \cup {o}
  /\ UNCHANGED <<post, local, dropped, flush, queue, orders, worker>>

\* flushPendingSync, under the flushing ref of useOfflineSyncBootstrap: purge,
\* then send every row in one push.
StartFlush(d) ==
  LET rows == RowsOf(d) \ aged
  IN  /\ flush[d] = {}
      /\ RowsOf(d) # {}
      /\ local' = local \ Purge(d)
      /\ dropped' = dropped \cup Purge(d)
      /\ aged' = aged \ Purge(d)
      /\ flush' = [flush EXCEPT ![d] = rows]
      /\ \/ \E w \in Worker :
              /\ rows # {}
              /\ worker[w].pc = "idle"
              /\ Goto(w, [Idle EXCEPT !.pc = "find", !.kind = "sync",
                                      !.todo = rows, !.dev = d])
         \/ UNCHANGED worker
      /\ UNCHANGED <<post, queue, orders>>

\* Mutant of LosePush: the till deletes its rows without an answer.
LosePushForgetting(d) ==
  /\ flush[d] # {}
  /\ local' = local \ flush[d]
  /\ flush' = [flush EXCEPT ![d] = {}]
  /\ worker' = [w \in Worker |->
                  IF worker[w].dev = d THEN [worker[w] EXCEPT !.dev = NoDevice]
                                       ELSE worker[w]]
  /\ UNCHANGED <<post, aged, dropped, queue, orders>>

\* The push fails as the till sees it (network, 401, 403, 500, timeout of a
\* proxy): every row stays, and whatever the API still does goes unheard.
LosePush(d) ==
  /\ flush[d] # {}
  /\ flush' = [flush EXCEPT ![d] = {}]
  /\ worker' = [w \in Worker |->
                  IF worker[w].dev = d THEN [worker[w] EXCEPT !.dev = NoDevice]
                                       ELSE worker[w]]
  /\ UNCHANGED <<post, local, aged, dropped, queue, orders>>

-----------------------------------------------------------------------------
(* The API: POST /sync/push and POST /sync/retry *)

\* Mutant of FindItem: a synced row is not skipped.
FindItemNoSkip(w) ==
  /\ worker[w].pc = "find"
  /\ \E o \in worker[w].todo :
       Goto(w, [worker[w] EXCEPT !.todo = @ \ {o}, !.cur = {o},
                                 !.seen = queue[o], !.pc = "write"])
  /\ UNCHANGED <<tillVars, queue, orders>>

\* upsertSyncQueueItems, findUnique; a synced row is skipped.
FindItem(w) ==
  /\ worker[w].pc = "find"
  /\ \E o \in worker[w].todo :
       IF queue[o] = "synced"
       THEN Goto(w, [worker[w] EXCEPT !.todo = @ \ {o}])
       ELSE Goto(w, [worker[w] EXCEPT !.todo = @ \ {o}, !.cur = {o},
                                      !.seen = queue[o], !.pc = "write"])
  /\ UNCHANGED <<tillVars, queue, orders>>

\* Mutant of WriteItem: the update leaves the status of a failed row alone.
WriteItemKeepsFailed(w) ==
  /\ worker[w].pc = "write"
  /\ \E o \in worker[w].cur :
       /\ worker[w].seen = "none" => queue[o] = "none"
       /\ queue' = [queue EXCEPT ![o] = IF @ = "failed" THEN @ ELSE "pending"]
  /\ Goto(w, [worker[w] EXCEPT !.pc = "find", !.cur = {}, !.seen = "none"])
  /\ UNCHANGED <<tillVars, orders>>

\* upsertSyncQueueItems, create or update by id, from what was found.  The
\* unique index on (tenantId, entityId) refuses a second create: a 500.
WriteItem(w) ==
  /\ worker[w].pc = "write"
  /\ \E o \in worker[w].cur :
       IF worker[w].seen = "none" /\ queue[o] # "none"
       THEN /\ Goto(w, Idle)
            /\ UNCHANGED queue
       ELSE /\ queue' = [queue EXCEPT ![o] = "pending"]
            /\ Goto(w, [worker[w] EXCEPT !.pc = "find", !.cur = {},
                                         !.seen = "none"])
  /\ UNCHANGED <<tillVars, orders>>

EndUpsert(w) ==
  /\ worker[w].pc = "find"
  /\ worker[w].todo = {}
  /\ Goto(w, [worker[w] EXCEPT !.pc = "fetch"])
  /\ UNCHANGED <<tillVars, queue, orders>>

\* postSyncRetryHandler: every failed row becomes pending.
Retry(w) ==
  /\ worker[w].pc = "idle"
  /\ \E o \in Order : queue[o] = "failed"
  /\ queue' = [o \in Order |-> IF queue[o] = "failed" THEN "pending" ELSE queue[o]]
  /\ Goto(w, [Idle EXCEPT !.pc = "fetch", !.kind = "sync"])
  /\ UNCHANGED <<tillVars, orders>>

\* processPendingSyncQueue reads the pending rows of the whole tenant; nothing
\* claims them.
FetchPending(w) ==
  /\ worker[w].pc = "fetch"
  /\ Goto(w, [worker[w] EXCEPT !.pc = "pick",
                               !.rows = {o \in Order : queue[o] = "pending"}])
  /\ UNCHANGED <<tillVars, queue, orders>>

PickRow(w) ==
  /\ worker[w].pc = "pick"
  /\ \E o \in worker[w].rows :
       Goto(w, [worker[w] EXCEPT !.pc = "dedup", !.cur = {o},
                                 !.rows = @ \ {o}])
  /\ UNCHANGED <<tillVars, queue, orders>>

EndRun(w) ==
  /\ worker[w].pc = "pick"
  /\ worker[w].rows = {}
  /\ Goto(w, [worker[w] EXCEPT !.pc = "reply"])
  /\ UNCHANGED <<tillVars, queue, orders>>

-----------------------------------------------------------------------------
(* The order transaction, from a direct POST or from a queue row *)

\* Mutant of SelectExisting: no SELECT on offline_id.
SelectExistingNever(w) ==
  /\ worker[w].pc = "dedup"
  /\ Goto(w, [worker[w] EXCEPT !.pc = "insert", !.exists = FALSE])
  /\ UNCHANGED <<tillVars, queue, orders>>

\* createOrderCore: SELECT * FROM orders WHERE offline_id = ?
SelectExisting(w) ==
  /\ worker[w].pc = "dedup"
  /\ \E o \in worker[w].cur :
       Goto(w, [worker[w] EXCEPT !.pc = "insert", !.exists = orders[o] > 0])
  /\ UNCHANGED <<tillVars, queue, orders>>

\* Mutant of AfterOrder: a rolled back order goes on as a created one.
AfterOrderIgnored(w, ok) ==
  [worker[w] EXCEPT !.exists = FALSE,
                    !.pc = IF worker[w].kind = "post" THEN "reply" ELSE "mark"]

AfterOrder(w, ok) ==
  [worker[w] EXCEPT !.exists = FALSE,
                    !.failed = @ \/ ~ok,
                    !.pc = IF worker[w].kind = "post" THEN "reply"
                           ELSE IF ok THEN "mark" ELSE "markFailed"]

\* The rest of the transaction and its COMMIT; an existing order is returned
\* as it is.  No unique index on offline_id looks again.
CommitOrder(w) ==
  /\ worker[w].pc = "insert"
  /\ \E o \in worker[w].cur :
       /\ worker[w].exists \/ o \notin Invalid
       /\ orders' = [orders EXCEPT ![o] = IF worker[w].exists THEN @ ELSE @ + 1]
  /\ Goto(w, AfterOrder(w, TRUE))
  /\ UNCHANGED <<tillVars, queue>>

\* Validation, stock or the database refuses: ROLLBACK.
RollbackOrder(w) ==
  /\ worker[w].pc = "insert"
  /\ Goto(w, AfterOrder(w, FALSE))
  /\ UNCHANGED <<tillVars, queue, orders>>

\* The row's own update, after the order's transaction and apart from it.
MarkSynced(w) ==
  /\ worker[w].pc = "mark"
  /\ \E o \in worker[w].cur : queue' = [queue EXCEPT ![o] = "synced"]
  /\ Goto(w, [worker[w] EXCEPT !.pc = "pick", !.cur = {}])
  /\ UNCHANGED <<tillVars, orders>>

\* The update to synced throws inside the try block.
MarkSyncedThrows(w) ==
  /\ worker[w].pc = "mark"
  /\ Goto(w, [worker[w] EXCEPT !.pc = "markFailed", !.failed = TRUE])
  /\ UNCHANGED <<tillVars, queue, orders>>

\* Mutant of MarkFailed: a status outside the enum of the column.
MarkFailedAsRejected(w) ==
  /\ worker[w].pc = "markFailed"
  /\ \E o \in worker[w].cur : queue' = [queue EXCEPT ![o] = "rejected"]
  /\ Goto(w, [worker[w] EXCEPT !.pc = "pick", !.cur = {}])
  /\ UNCHANGED <<tillVars, orders>>

MarkFailed(w) ==
  /\ worker[w].pc = "markFailed"
  /\ \E o \in worker[w].cur : queue' = [queue EXCEPT ![o] = "failed"]
  /\ Goto(w, [worker[w] EXCEPT !.pc = "pick", !.cur = {}])
  /\ UNCHANGED <<tillVars, orders>>

\* The request dies where it stands: the process is restarted, or an await
\* outside any catch of its own rejects.
Abort(w) ==
  /\ worker[w].pc # "idle"
  /\ Goto(w, Idle)
  /\ UNCHANGED <<tillVars, queue, orders>>

-----------------------------------------------------------------------------
(* Answers *)

\* The answer of POST /orders reaches a till still waiting for it.
AnswerPost(w) ==
  /\ worker[w].pc = "reply"
  /\ worker[w].kind = "post"
  /\ \E o \in worker[w].cur :
       post' = [post EXCEPT ![o] = IF @ # "sent" THEN @
                                   ELSE IF worker[w].failed THEN "refused"
                                   ELSE "accepted"]
  /\ Goto(w, Idle)
  /\ UNCHANGED <<local, aged, dropped, flush, queue, orders>>

\* Mutant of AnswerPush: the count of failures is not looked at.
AnswerPushAnyway(w) ==
  /\ worker[w].pc = "reply"
  /\ worker[w].kind = "sync"
  /\ IF worker[w].dev = NoDevice
     THEN UNCHANGED <<local, aged, flush>>
     ELSE /\ local' = local \ flush[worker[w].dev]
          /\ aged' = aged \ flush[worker[w].dev]
          /\ flush' = [flush EXCEPT ![worker[w].dev] = {}]
  /\ Goto(w, Idle)
  /\ UNCHANGED <<post, dropped, queue, orders>>

\* The answer of POST /sync/push: with failed = 0 the rows sent are deleted.
AnswerPush(w) ==
  /\ worker[w].pc = "reply"
  /\ worker[w].kind = "sync"
  /\ IF worker[w].dev = NoDevice
     THEN UNCHANGED <<local, aged, flush>>
     ELSE LET sent == flush[worker[w].dev]
              gone == IF worker[w].failed THEN {} ELSE sent
          IN  /\ local' = local \ gone
              /\ aged' = aged \ gone
              /\ flush' = [flush EXCEPT ![worker[w].dev] = {}]
  /\ Goto(w, Idle)
  /\ UNCHANGED <<post, dropped, queue, orders>>

-----------------------------------------------------------------------------
Till ==
  \/ \E o \in Order : Submit(o) \/ Enqueue(o) \/ EnqueueLocked(o) \/ GrowOld(o)
  \/ \E d \in Device : StartFlush(d) \/ LosePush(d)

Api(w) ==
  \/ FindItem(w) \/ WriteItem(w) \/ EndUpsert(w) \/ Retry(w) \/ FetchPending(w)
  \/ PickRow(w) \/ EndRun(w) \/ SelectExisting(w) \/ CommitOrder(w)
  \/ RollbackOrder(w) \/ MarkSynced(w) \/ MarkSyncedThrows(w) \/ MarkFailed(w)
  \/ AnswerPost(w) \/ AnswerPush(w) \/ Abort(w)

Next == Till \/ \E w \in Worker : Api(w)

Spec == Init /\ [][Next]_vars

\* Something goes wrong that trying again can cure, or the administrator acts.
Fault ==
  \/ \E d \in Device : \/ StartFlush(d) /\ flush'[d] # {} /\ worker' = worker
                       \/ LosePush(d) /\ \E w \in Worker : worker[w].dev = d
  \/ \E w \in Worker : \/ Abort(w) \/ MarkSyncedThrows(w) \/ Retry(w)
                       \/ RollbackOrder(w) /\ worker[w].cur \cap Invalid = {}

\* The till flushes at once, every minute and on "online"; requests in progress
\* go on; and from some time on the network, the API and its database are up.
Fairness ==
  /\ \A o \in Order : WF_vars(Enqueue(o) \/ EnqueueLocked(o))
  /\ \A d \in Device : WF_vars(StartFlush(d)) /\ WF_vars(LosePush(d))
  /\ \A w \in Worker : WF_vars(Api(w))
  /\ <>[][~Fault]_vars

FairSpec == Spec /\ Fairness

-----------------------------------------------------------------------------
(* Properties *)

\* An order the till reported as taken ("ok", online or queuedOffline) is never
\* lost: it is an order, or a row that can still become one, or its row was
\* purged for its age.
NoLostOrder ==
  \A o \in Order :
    /\ post[o] = "accepted" => orders[o] > 0
    /\ post[o] = "queued" => \/ orders[o] > 0
                             \/ o \in local \cup dropped
                             \/ queue[o] \in {"pending", "failed"}

\* A row is marked synced only for an order that exists.
SyncedIsApplied == \A o \in Order : queue[o] = "synced" => orders[o] > 0

\* One offlineId gives at most one order.
AtMostOnce == \A o \in Order : orders[o] <= 1

\* A till deletes a row only by age or because its order exists.
DeletedOnlyIfApplied ==
  [][\A o \in Order : o \in local \ local' => o \in dropped' \/ orders[o] > 0]_vars

\* A synced row stays synced: a repeated push ignores it.
SyncedStays ==
  [][\A o \in Order : queue[o] = "synced" => queue'[o] = "synced"]_vars

\* Every order a till has queued and the API can accept becomes an order, or its
\* row is purged for its age.
QueuedIsApplied ==
  \A o \in Order \ Invalid :
    post[o] = "queued" ~> (orders[o] > 0 \/ o \in dropped)
=============================================================================
