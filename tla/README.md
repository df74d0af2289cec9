# Verification of nextpos

nextpos is a restaurant point of sale for many tenants: an Express API over one
PostgreSQL schema per tenant (`src/apps/api`), a React till, waiter, kitchen and
courier client that keeps working offline (`src/apps/pos`), guest, reseller and
administration apps, and local agents for printers and caller id.

This directory holds TLA+ models of the parts of it where requests overlap,
messages get lost and money or goods are counted, the TLC configurations that
check them on small instances, and proofs that TLAPS checks for every instance.
The code under `src/` is the reference; every definition that stands for code is
listed with its lines in `PROJECT.json` under `map`.

Paths below are relative to `src/apps/api/src` unless they name an app.

## 1. Results in brief

| question | answer | by |
|---|---|---|
| Can an order a till reported as taken get lost? | only by its age | TLC, proved |
| Is an `offlineId` one order? | yes while requests do not overlap; no if they do (section 5) | proved |
| Does a till delete a row, or a synced row go back to pending, before its order exists? | not while requests do not overlap; if they do, both happen (section 5) | TLC, proved |
| Does a queued order get through in the end? | yes, or it is purged for its age | TLC (liveness) |
| Does a table point only to an active session of its own? | yes, under any overlap, as long as no session is moved or merged | TLC, proved |
| Can every active session be found from its table? | yes with one request at a time, all calls | TLC, proved |
| Do splitting, moving items and merging tables keep the sum of the bills? | yes, under any overlap | TLC, proved |
| Is a closed bill paid, once, by payments that cover it? | yes with one request at a time, if staff finish a bill the way they began it and neither split orders nor pay for single ones, until the kitchen revives an order of it that was cancelled; otherwise no, in several ways (section 5) | TLC, proved / run `dinein_overcharge` |
| Are ingredients lost or invented by overlapping orders, or taken in part? | no: the row locks make an inventory that takes and gives back at once | TLC, proved, as a refinement |
| Do overlapping orders deadlock on ingredients? | no | TLC, proved |
| Is what a cancelled order took given back? | with one request at a time yes, unless the kitchen cancels it (section 5) | proved |
| And once? | no: a second cancellation gives it back again, even long after the first | run `stock_twice` |
| Is anything given back of an order that was completed meanwhile? | no, however requests overlap | TLC, proved |
| Does a package go to one courier, however many press? | yes, unless the kitchen moves the ticket of an order that has left | TLC, proved |
| Does the courier who carried an order owe its cash, and is it taken once? | yes with one cashier, a desk that assigns what it sees, and couriers who leave alone what others asked for | TLC, proved |
| Does an order that has left the kitchen come to its end? | yes, phones that lose requests included | TLC (liveness) |
| Is a call for a waiter handed over once, and never taken from who answered it? | yes, however ticks overlap and die | TLC, proved |
| Is every call answered in the end? | yes with one absent waiter, if the others keep looking and those on break come back | TLC (liveness); its safety core proved |
| Can a wallet's balance be told from its rows, and is money moved once per row? | yes, a bonus for each deposit and the bills the reseller has paid apart, which no row tells of, as long as the handlers that write what they have read do not overlap and do not die half way; otherwise no (section 5) | TLC, proved, as a refinement |
| Is a card payment credited? | yes, or the top-up was rejected meanwhile | TLC (liveness) |
| Is every line sent to the kitchen on one ticket, and cooked? | yes without the seven slips that `Kitchen` names, a change that was committed unheard and sent again included; each of the seven breaks it | TLC; one ticket: proved, if requests of a session take turns |

## 2. The system

### Components, their state and their operations

| component | state | operations | hard behaviours | what makes it correct | model |
|---|---|---|---|---|---|
| Offline sync: `apps/pos` `lib/syncQueueClient.ts`, `store/usePosStore.ts`; `controllers/sync.controller.ts`, `services/sync-process.service.ts`, `createOrderCore` | IndexedDB `pendingSync` of each till; `public.sync_queue`; `orders.offline_id` | submit, queue, purge, push, upsert, run, retry, create | lost posts and answers, repeated pushes, two runs over the same rows, restart between an order's commit and its row's | nothing lost, one order per `offlineId`, a row is deleted or synced only for an order that exists, a queued order gets through | `OfflineSync` |
| Tables, sessions and bills: `controllers/orders`, `tables`, `payments`, `kitchen`, `lib/table-session-auto-close.ts` | `tables.current_session_id`, `table_sessions`, `orders`, `order_items`, `payments` | open, order, check out, pay (one order, a session, in parts), split off, move items, move and merge tables, serve, cancel (order, ticket, table) | rows read without a lock and written later; a bill that is reached by many paths | table and session point to each other; a closed bill is paid, exactly once; moving items keeps the sum | `DineIn` |
| Ingredient stock: `services/stock-inventory.service.ts` and its callers | `products.stock_qty`, `stock_movements` | deduct, reverse; adjust and edit by hand | several row locks per transaction, `ALTER TABLE` inside a transaction, rollback, cancelling twice | no update lost, all or nothing, never negative, no circle of waits, nothing back of what was served | `Stock` (orders; not by hand), which implements `Inventory` |
| Kitchen tickets: `services/order-kitchen.service.ts`, `controllers/kitchen.controller.ts`, `apps/pos` `pages/KitchenMonitor.tsx` | `kitchen_tickets` and their JSON lines; what the screen shows and its offline queue | make, join the waiting ticket, advance, merge, tick off, cancel; hear, fetch, queue, replay | lines read and written back as a whole, an event before the commit, changes replayed for tickets that are gone | every line is on one ticket until it is cooked; one ticket of an order in preparation; what is sent is cooked | `Kitchen`; effects on sessions in `DineIn` |
| Takeaway and delivery: `controllers/orders.controller.ts`, `admin.couriers`, `admin.handovers`, `apps/pos` `pages/CourierPanel.tsx` | `orders.status`, `courier_id`, `courier_settled_at`; the phone's list and queue | assign, pick up, deliver, cancel, take the cash; go offline, replay | two couriers at once, `ALTER TABLE` deadlocks, a queue sent once and dropped, a sum and an UPDATE apart | one courier per package, who owes its cash; cash taken once; what is over stays over | `Delivery` |
| Service calls: `controllers/serviceCalls.controller.ts`, `services/service-call-escalation.service.ts`, `apps/pos` `pages/WaiterPanel.tsx` | `service_calls`; each screen's calls | call (guest, till), answer, take a break, escalate on a timer | ticks that overlap and die, screens that miss events | handed over once, kept by who answered, answered in the end | `ServiceCalls` |
| Wallets and plan purchases: `services/billing.service.ts`, `reseller-topup-credit.service.ts`, `controllers/resellers.controller.ts` | `saas_admins.wallet_balance`, `tenants.wallet_balance`, top-ups, `payment_history`, transactions | top up (card, transfer), deposit, transfer, charge, withdraw, pay a bill (card, either wallet) or a plan | numbers read and written back, statements that commit one by one, notifications repeated | balance can be told from the rows; one movement per row; never overdrawn | `Wallet`, which implements `Ledger` |
| Database access: `lib/db.ts` | pool, schema cache | `withTenant`, `withTenantTransaction`, cache with a TTL | READ COMMITTED; a suspended tenant served from the cache | a handler's writes are all or nothing | transactions in every module; not the cache |
| QR menu and kiosk: `controllers/qr.controller.ts`, `publicKiosk.controller.ts` | `orders` in `pending` | order, approve, reject, call a waiter | guest and waiter act at once | rejected once, and given back; cooked once approved | create and reject in `Stock`, approve in `Kitchen`, call in `ServiceCalls` |
| Cash handover: `controllers/admin.handovers.controller.ts` | `payments.handover_id`, `orders.courier_settled_at` | sum and settle | a payment between the sum and the UPDATE | what is settled was handed over | couriers' in `Delivery`; not the waiters' |
| Loyalty, coupons, accounting, device reset quota | points, uses, payments, quota rows | earn, redeem, reverse; void, restore; consume | read without a lock, taken with one; twice | never below zero, never spent twice | not modelled (section 7) |
| Tenants, subscriptions, billing administration | rows of `public` | administration | mostly single rows | - | not modelled |
| Authentication, sockets, fiscal signing, menu, reports, invoices, integrations, backups, web provisioning, printer and caller-id agents, guest and reseller UIs | own rows or none | - | pure input and output, or one row at a time | - | not modelled |

### How they interact

A till calls the API over HTTP; a lost call becomes a row in IndexedDB and, with
the next push, a row of `sync_queue`. A direct POST and a queue row end in the
same function, `createOrderCore`, inside `withTenantTransaction`: it looks for
the `offlineId`, finds or opens the session of the table, inserts order and
items, sends lines to kitchen tickets, takes ingredients and redeems points, all
in one transaction. The kitchen's ticket status writes back the order's status;
cancelling the last open order of a session closes the session and frees its
table. An order that is delivered takes its status from the kitchen until a
courier picks it up, and its cash is then what that courier owes. Events over
sockets tell screens to reload; they carry no state. Screens can be behind: what
a till asks for depends on what it shows, not on what is. The kitchen's screen
does not poll for what it has missed, so there an event that is lost is a ticket
nobody sees. The wallets are apart from all this: they belong
to the tenants' accounts, in `public`.

## 3. What is modelled

### OfflineSync: from a till to an order

State and actions are those of the till (`post`, `local`, `aged`, `dropped`,
`flush`) and of the API (`queue`, `orders`, `worker`). Requests interleave at
every await: the `findUnique` and the write of a push item, the read of the
pending rows, the SELECT on `offline_id`, the COMMIT of the order, and the
update of the queue row are separate steps. Losses are actions or disjuncts of
actions: a POST or push that never arrives (`Submit`, `StartFlush` with
`worker` unchanged), an answer that never arrives (`Enqueue` while the request
goes on, `LosePush`), a request that dies anywhere (`Abort`), a transaction that
rolls back (`RollbackOrder`), an update of the queue that throws
(`MarkSyncedThrows`). Age is an action of its own because nothing bounds it
(`GrowOld`).

Abstracted: one tenant; the payload of a row is the order it stands for; a run
takes its rows in any order (the code: by `createdAt`); one IndexedDB row per
order, so that the wording of errors, PIN and grace token is one outcome of
`Submit`.

### DineIn: tables, sessions and bills

`db` is the committed rows. A request is one transaction: `Begin` keeps the rows
as they are in `view[w]`, the handler's action computes from the view what it
read and from `db` what its UPDATEs find, `Commit` installs it, `Abort` is
ROLLBACK. Each handler is an operator `f(v, d, ...)` on the rows read and the
rows now; e.g. in `PayAtOnce` the orders that are summed are those of the view
and the orders that are marked are those that match the WHERE at commit time.
`open`, `serve` and `cancel` run `ALTER TABLE` inside their transaction, which
waits for every other transaction to end (`Alone`); `createOrderCore`'s ALTERs
run before its transaction in autocommit and hold nothing.

At READ COMMITTED each statement has its own snapshot. The model gives a request
one snapshot for its reads and one for its writes. That is a subset of the real
interleavings: a violation found is real, while a property that holds has been
shown for the overlaps in which a request's reads come before the other's
commit and its writes after, which is where a check-then-write goes wrong.
Requests that change the items of one order at the same time are left out (the
guards on `total` in `Split` and `TransferItem`): what their item updates do to
each other depends on quantities of lines, which the model does not have.

What a till can ask for is `Known`: what its screens offer for the table they show.
The kitchen, and those who serve, cancel or pay for one order, may ask about any
order that was made, whatever has become of it, for a screen may show it as it was.
The kitchen's handler has no guard on the order: a press on the ticket of a
cancelled one brings it back, in a session that has been paid as well. With `Stale`
tills may show a session their table once had. With `Careful` staff keep to
`OneWay`: a bill that has been paid in part is finished by partial payments and its
items stay, and `checkout` (order and pay at once) is used only while no served
order is unpaid. **No handler enforces `OneWay`.** It is the condition under which
the money properties hold, found by removing one violation after another; section 5
tells what happens without it. `PaidInFull` speaks of steps because of the kitchen's
press: a session comes to owe something by that press (`Revived`) and by nothing
else, neither when it ends as paid nor later.

Abstracted: statuses `pending` .. `served` are `open`; items are units of money,
so the total of an order is the number of its items; loyalty discounts, tax and
rounding are left out; no floor plan editing, no claims of tables by waiters.

### Stock, and Inventory which it implements: ingredients under row locks

A transaction reads (`Read`), waits for the table lock of its ALTERs (`Alter`),
takes its orders one at a time (`NextOrder`, `OrderDone`) and their ingredients
in ascending id (`TakeRow`: `SELECT ... FOR UPDATE`, compare, UPDATE), then
commits or rolls back. `lock[i]` is the holder of the row; `Waits` says which
transaction waits for which; `Victim` is PostgreSQL's deadlock detector. What a
transaction wrote stays in `tx[w].wrote` until `Commit`. Calls that reverse are
those of the code: till, QR rejection and table cancellation do, a cancelled
kitchen ticket does not. As in `DineIn`, an order can be cancelled, served or
pressed on whatever its status (`Known`): cancelling one that is cancelled gives
its ingredients back once more, and one that was revived can be cancelled again.

`Inventory` has no rows, locks or transactions: an order takes all it needs in one
step, if it is there, and orders cancelled together give back in one step what they
had taken. `Stock` implements it with its own committed quantities (`InventorySpec`),
without any condition: this is what the `FOR UPDATE` is for.

Abstracted: `Need` stands for the recipes of an order's items; one table
session; the `FOR KEY SHARE` locks that inserting `order_items` takes on
`products` are left out, which matters only if an ingredient is also sold as an
item. `cancelTable` over several orders locks rows order by order and so not in
ascending order: it can be part of a circle, PostgreSQL breaks it, and
`NoWaitCycle` does not speak about it.

### Delivery: couriers, their phones and their cash

State is the columns of an order that delivery touches, the package itself
(`place`, `carrier`), each courier's phone (`view`, `online`, `queue`, `replay`)
and the request of each actor. A request is two steps: `Read`, which checks the
status and keeps a lock on the table that others can share, and one of `Pickup`,
`Deliver`, `Cancel`, which needs the table alone because changing the status
runs `ALTER TABLE orders`; two that wait for each other are `Deadlocked` and one
is rolled back. That lock, and nothing in the handlers, is what keeps two pickups
apart: `AloneAlways`, the mutant for the day the ALTER is gone, breaks
`TakenOnce`. Taking the cash is `Sum` then `Settle` (two statements), or
`Reconcile` (one). A phone that is offline keeps presses in its queue
(`QueuePickup`, `QueueDeliver`), and sends them once when it is online again,
whatever the answer, before it drops the whole queue (`StartReplay`,
`ReplaySend`, `ReplayFails`, `Through`).

`Slips` are the things that people may get wrong and nothing in the code stops:
a kitchen that moves the ticket of an order that has left (`late kitchen`), a
desk that assigns on an old screen (`hasty desk`), a courier who takes a package
offline that another has asked for (`grab`). The run has none of them; the
theorems say for each property which of them it needs absent, and section 5 what
each of them does.

Abstracted: a courier is one phone; the PIN, and the routes to claim and release
a delivery, which no screen calls; the cash of an order is the order.

### ServiceCalls: guests, waiters and the tick

A call is its number; its columns, and `inTime`, whether `assignee_set_at` is still
recent, are its state. Creating and answering start with `ALTER TABLE service_calls`
and are one step. A tick is not: it reads the overdue calls (`TickRead`), then takes
them one by one (`HandOver`), each UPDATE committing by itself, and dies anywhere
(`TickDies`); several run at once because the timer does not wait for the last one.
Which sockets hear of a call is any set of the waiters' screens (`got`): an event
may be lost, or dropped by the screen's section filter, which is `InSection` where a
screen loads the list. Answering asks for no status of the call and no presence of
the waiter: one on a break may answer. `Absent` waiters are those who do not look at
their phone: the code cannot tell them from others, which is what makes
`WithinReach` worth stating. The load that picks a waiter is left out: any who is
free.

### Wallet, and Ledger which it implements

Almost no handler here is a transaction. A handler is therefore data: a sequence
of steps, each the set of statements that commit together (`Program`): a wallet
is seen, set to what was seen plus the change, moved by an increment, booked; a
row is looked at, marked. `Run` executes one step of any of them, `Refuse` is a
check that fails, `Die` a restart between two commits. A bill is a deposit or an
invoice of the restaurant; it is paid by card (`Put`, `PayCard`), by the reseller
(`PayInvoice`, which takes a pending deposit too) or by the restaurant (`PayOwn`),
and the row says how.

Two handlers move money of which no row of that wallet tells: the bonus of a
deposit, whose INSERT fails (it comes last, so nothing else is lost), and what the
reseller pays for a restaurant. `Unrowed` is their sum, told from the bills, and
`BalanceIsBooked` says that balance and rows differ by it and by nothing else. Card
top-ups have actions of their own, since the gateway, the customer's return and the
administrator meet in them.

`Ledger` is what all this is for: one wallet changes at a time, by an amount that
somebody asked for, what comes in settles one row once, and the reseller never
spends more than there is. `Wallet` implements it (`LedgerSpec`), with `settled` the
rows money has moved for, under two conditions that no handler enforces: `Apart`
contains `Conflict`, the pairs of handlers that must not overlap because one writes
a number it has read, both check one balance, or both may pay one bill; and only
handlers that commit once are `Mortal`. Without the first a transfer writes over a
deposit, without the second money leaves one wallet and does not reach the other.

Abstracted: one reseller, one restaurant, one price, one currency; a plan is paid
or not. Cancelling a withdrawal, the card purchase of a plan and its licences,
and administrators' corrections are left out.

### Kitchen: lines, tickets and the screen

A ticket's items are one JSON column, so whoever changes them has read them and
writes all of them. Creating is `BuildFind` (for each station the newest ticket
of the session that waits), for a till's order `Tell` (the socket event, before
the commit) and `BuildCommit`; a status change is `StatusFind`, which locks the
ticket and for `preparing` looks for the one to merge into, and `StatusCommit`.
The screen fetches only when told (`Fetch`), shows what it fetched, changes
statuses by `Advance` and `Drag`, ticks lines off (`TickOff`), and offline queues
and replays, one PATCH after the other. A PATCH that throws is kept like one that was
pressed offline, though the API may commit it (`Unanswered`; `by` says whether a
request was pressed, comes from the queue, or has nobody waiting for it any more).
`Cancel` cancels tickets made for the order, and tells nobody.

`Slips` names the seven things that lose or double lines, prepare two tickets of
one session, or leave lines uncooked; each alone breaks a property, and each is
reachable with the code as it is (section 5). The run has none of them: the
properties then show that joining, merging, deleting, queueing and replaying are
right among themselves. `KitchenProofs` needs only two of them away.

Abstracted: a line is the order it belongs to, a ticket's number its id; the
screen's cache of what it fetched last; sounds and times.

## 4. Runs

`tlc -config <cfg> <module>`; all sizes are distinct states.

| run | cfg | instance | checks | states |
|---|---|---|---|---|
| `offline_sync` | `OfflineSync.cfg` | 2 requests at once, 1 till, 2 orders | `TypeOK` `NoLostOrder` `SyncedIsApplied` | 3.6 M |
| `offline_sync_serial` | `OfflineSyncSerial.cfg` | 1 request at a time, 2 tills, one order the API refuses, fairness | `AtMostOnce` `DeletedOnlyIfApplied` `SyncedStays` `QueuedIsApplied` | 10.7 k |
| `dinein` | `DineIn.cfg` | every call, 1 request at a time, 2 tables, 3 sessions, 2 orders, 1 split-off order | `TypeOK` `TablesLinked` `BillConserved` | 12.8 M |
| `dinein_bill` | `DineInBill.cfg` | every call but split and single payments, amounts 1-2, `Careful` staff | `PaidInFull` `PaidIsCovered` `ChargedOnce` | 1.9 M |
| `dinein_overlap` | `DineInOverlap.cfg` | 2 requests at once: order, check out, open, cancel | `TableSession` | 5.2 M |
| `dinein_overcharge` | `DineInOvercharge.cfg` | 1 table, order, partial payment, close | violates `ChargedOnce` | - |
| `stock` | `Stock.cfg` | 2 transactions at once, 3 orders sharing 3 ingredients, all calls but the kitchen's, fairness | `TypeOK` `StockAccounts` `NoWaitCycle` `InventorySpec` `ServedIsKept` `EveryRequestEnds` | 629 k |
| `stock_twice` | `StockTwice.cfg` | 1 order, 1 request at a time | violates `RestoredAtMostOnce` | - |
| `wallet` | `Wallet.cfg` | 2 top-ups, 1 deposit, 1 invoice, 2 workers, conflicting handlers apart, 2 other requests, 1 death, fairness | `BalanceIsBooked` `OncePerRow` `LedgerSpec` `PaidIsSettled` | 346 k |
| `delivery` | `Delivery.cfg` | 1 order, 2 couriers, 1 desk, no slips, fairness | `TypeOK` `TakenOnce` `CashOwner` `HandedOver` `FinalIsFinal` `RoadEnds` | 220 k |
| `service_calls` | `ServiceCalls.cfg` | 3 waiters, one absent, one of another section, 1 table and the till, 2 ticks, 2 calls, fairness | `TypeOK` `PassedOnce` `WithinReach` `AnsweredStays` `CallsEnd` | 161 k |
| `kitchen` | `Kitchen.cfg` | 2 orders of one session, 2 workers, 1 station, 2 tickets, no slips, fairness | `TypeOK` `LinesKept` `OnePreparing` `SentIsCooked` | 1.1 M |

What each shows is said at the property, in the module. Each property of a
passing run has a mutant: an operator next to the one it replaces, marked
`Mutant of`, that changes the code the way a plausible mistake would, and under
which TLC finds the property violated.

### Bounds, and why they are enough

* *Two requests at once.* Every hazard listed is between a request that read and
  another that wrote. Three give longer queues at a lock, not new pairs; the
  theorems of section 6 hold for any number, but for those that say one.
* *Two orders, two tables, three sessions.* A bill of two orders is the smallest
  in which one is paid and the other is not, or one leaves; two tables are what a
  move or a merge needs; the third session lets a table be used again after a
  merge or a close. `dinein_bill` was also run once with three orders (19 M
  states, same result), too long to keep.
* *`MaxAmount`, `MaxPaid`.* An order costs 2 and the other 1, so a payment is
  less than, equal to, or more than what an order needs. `MaxPaid` stops charging
  when a row has been charged more than that: past it every property about
  charges is already decided. `Extra` bounds the orders the API makes by
  splitting and moving.
* *`MaxGiven`* stops asking to cancel an order that was given back that often; it is
  above the 1 that `RestoredAtMostOnce` allows where that is checked. `Stock`
  needs 4 of ingredient 2 and has 3, so some create always fails for want of it.
  The kitchen's two calls, which take no ingredient and lock no row, are left out of
  the run: `kitchen` alone makes its states sixteen times as many; the proofs have
  both. With two orders and every call but
  `kitchenCancel`, `ServedIsKept` was also checked by TLC (165 k states).
* *`Delivery`: one order, two couriers, one desk.* Orders meet only in the table
  lock, which the two couriers and the desk already fight for over one, and in a
  courier's sum, which the proofs cover for any number. `MaxOff` lets each phone
  go offline once or one twice, so that a pickup and a delivery are replayed
  separately or together; `MaxAsked` lets the desk assign, cancel and settle, or
  settle more often than there is cash.
* *`ServiceCalls`: three waiters, two calls, two ticks.* Handing over needs one who
  is absent, one to hand to, and one who is on break, answers meanwhile, or has
  another section; two
  calls at one table close each other; two ticks race for one call. `MaxOdd`
  bounds breaks and dying ticks together.
* *`Wallet`: two top-ups, a deposit, an invoice, two workers.* One top-up by card
  and one by transfer, or both by card, next to any two of the other handlers
  (`MaxAsked`), one of which may repeat or be about the same row, such as two ways
  to pay one bill. The amounts
  differ where adding the wrong one would go unseen, and `Opening` covers one
  payment but not two.
* *`Kitchen`: two orders, one station, two tickets.* Joining and merging relate two
  orders; stations do not touch each other but through the status of an order. The
  run was also made with two stations, and with three orders, both with `MaxOdd` 0
  (508 k and 861 k states, same result). `MaxOdd` bounds presses out of turn,
  requests without an answer, networks lost, ticking off and cancelling. The proofs
  have any number of each.
* *Symmetry* (sessions, tables, split-off orders) is used only in runs without
  liveness, over sets whose members the properties do not tell apart.
* `CHECK_DEADLOCK FALSE` is set where the system may come to rest: orders are
  taken once (`OfflineSync`), or were all taken and cancelled (`Stock`), all
  delivered or cooked (`Delivery`, `Kitchen`), or all money has moved (`Wallet`).

### Fairness, and why the code justifies it

* `OfflineSync!Fairness`. `useOfflineSyncBootstrap` flushes at once, on `online`
  and every 60 s, so a flush that stays possible is made (`StartFlush`); a
  `fetch` always ends, in an answer or a failure (`Enqueue`, `EnqueueLocked`,
  `LosePush`); a request that is awaited goes on (`Api`). `<>[][~Fault]` is the
  assumption under which anything can be promised: from some time on the network,
  the API and its database stay up and the administrator stops pressing retry.
  Age is not a fault, hence `dropped` in `QueuedIsApplied`.
* `Stock!Fairness`. PostgreSQL queues those that wait for a lock, so one that is
  free again and again is got: strong fairness of `Step` and `Throws`. The
  deadlock detector runs after `deadlock_timeout`: weak fairness of `Victim`.
  Nothing makes a request begin, and nothing makes one roll back by itself.
* `Delivery!Fairness`. Requests and the phone's loops go on, a network comes back
  (its going away is bounded by `MaxOff`), the list is fetched every 15 s, and a
  courier presses for a package on his screen that he has: strong fairness,
  because replays and lost networks keep taking the button away. Nothing makes
  the kitchen, the desk or a courier take an order in the first place.
* `ServiceCalls!Fairness`. Time passes (`Late`), the timer fires every 20 s, a
  screen reloads every 30 s, breaks end; and a waiter who is there keeps pressing
  what his screen shows until he is let. Absent waiters have none of it.
* `Wallet!Fairness`. A request that has begun goes on unless it dies, and a gateway
  that was not answered notifies again (strong fairness: a worker or a handler in
  the way may be there again and again).
* `Kitchen!Fairness`. Requests, fetches and replays go on, the network comes back,
  and the cook presses on for what the screen shows; strong fairness, because a
  ticket leaves the screen and returns. Dragging and ticking off are free.

## 5. Findings

Two runs must find their property violated:

* `dinein_overcharge`, `ChargedOnce`: closing a partly paid bill charges whole orders
  again (`controllers/orders.controller.ts:2114`), where
  `NextPOS_Masa_Siparis_Senaryolari.md:173` says that after a partial payment
  "bakiye kalan tutar kadar güncellenmiştir" (the balance has been updated to what
  remains).
* `stock_twice`, `RestoredAtMostOnce`: cancelling an order that is already cancelled
  gives its ingredients back again, one request at a time, whether two screens
  cancel it one after the other or the kitchen revives it in between
  (`services/stock-inventory.service.ts:203`, called from
  `controllers/orders.controller.ts:1411`, where only `completed` is excepted). The
  comment at line 196 says "idempotent: hareket yoksa no-op" (idempotent, nothing if
  there is no movement); the code looks for the movement that took, not for the one
  that gave back.

What follows was met on the way. Where a property is named, TLC finds it violated
when a cfg is changed as said; the rest is what the code does, read while modelling
it.

**Offline sync** (`OfflineSync.cfg` with `Order = {o1}` and the property)
* `AtMostOnce`: a push whose answer was lost and its repetition both insert the
  order (`controllers/orders.controller.ts:239`). The migration that adds
  `offlineId` (`20260402120000_sync_queue_tenant_entity_unique`) says it prevents a
  double order when the same one is pushed again; its unique index is on the queue's
  row, not on `orders`.
* `DeletedOnlyIfApplied`: the answer of a push counts only its own failures, so a
  till deletes a row that another run has just marked failed
  (`apps/pos/src/lib/syncQueueClient.ts:116`; line 86 says that nothing is deleted
  if the server failed). The row is still in `sync_queue`, which is why
  `NoLostOrder` holds.
* `SyncedStays`: the upsert writes back to pending a row that was synced since it
  was read (`controllers/sync.controller.ts:71`; line 47 says such a row is ignored).

**Bills** (`DineInOvercharge.cfg` with these `Calls` and the property)
* `PaidInFull`, `create` `serve` `checkout`: closing a bill with a new order leaves
  out orders that were served and are unpaid (`controllers/orders.controller.ts:438`,
  while the comment at 436 says that it collects the other unpaid orders too). Items
  moved into an order that is paid are never charged either.
* `PaidIsCovered`, `create` `split`: a split-off order is paid without a payment
  (line 1945; `NextPOS_Masa_Siparis_Senaryolari.md:172` says a row is entered).
* With two workers (line 34 of the same text says that no two devices work on one
  table): `TablesLinked`, `create`: two first orders open two sessions of a table
  (line 286 of the handler); a checkout of a session its table no longer has frees
  that table. `PaidInFull`, `create` `checkoutSession`, `Careful`: an order joins a
  session that closes meanwhile (2131). `ChargedOnce` with the same: two tills
  close one bill (2076), where `NextPOS_Tam_Proje_Yapim_Dosyasi.md:1363` says "asla
  çift tahsilat" (never collect twice).
* A press on the ticket of a cancelled order opens that order again, after its
  session was closed as paid too: nobody is asked to pay it (`Revived`).

**Stock** (`StockTwice.cfg` with these `Calls` and the property)
* `CancelGivesBack`, `create` `kitchenCancel`: a cancelled ticket cancels its order
  and gives nothing back (`controllers/kitchen.controller.ts:208`).
* `CancelGivesBack`, `create` `cancelTable`, two workers: an order that commits while
  its table is cancelled is cancelled with it, and not given back
  (`controllers/tables.controller.ts:491`).

**Delivery**
* `TakenOnce`, `FinalIsFinal` with `late kitchen`: completing the ticket of an
  order that has left sets it back to `ready`; another courier can take it.
* `CashOwner` with `hasty desk`: `assignCourierDirect` looks at no status; with
  `grab`: the courier whose replay is refused has the package, the other the debt.
* `HandedOver` with two desks: two cashiers settle at once and both write down
  the sum.
* A deadlock rolls back one request of a replay, and the queue is dropped all the
  same (`apps/pos/src/pages/CourierPanel.tsx:1309`), although the phone said
  (line 1402) that it would be synchronised: with the pickup the delivery is
  lost too.
* The desk's buttons to cancel an order on the road (no PIN is sent) and to call a
  courier again (`ready` to `ready`) are always refused; a completed delivery can
  be cancelled; `courierPickupHandler` is not mounted.

**Kitchen** (each of the `Slips` alone breaks a property: `overlap` `OnePreparing`,
and with three orders and tickets and `MaxOdd` 0 `LinesKept` too, `stale items`
`LinesKept`, the others `SentIsCooked`, `flaky` with `MaxOdd` 2)
* `OlderIgnored` in `Kitchen.cfg` as it is: a change from the queue takes back a
  ticket that has moved on (`controllers/kitchen.controller.ts:116`), where
  `PROJECT_RULES.md:144` says that an older offline update is ignored.
* `approve`: approving a guest's order emits `kitchen:ticket_new`, which the
  screen does not listen to (`apps/pos/src/pages/KitchenMonitor.tsx:433`).
* `early fetch`: the screen is told before the commit, and fetches nothing.
* `overlap`, `stale items`: two that join or merge one ticket, or a line ticked
  off while others join, write the items they have read.
* `shared cancel`: cancelling an order cancels the lines of others on its ticket.
  The kitchen is told nothing of it; pressing on revives ticket and order.
* `away`, `flaky`: what is told while the screen is offline is not told again; an
  entry of the queue whose request fails is dropped.
* `ticket_number` is `MAX + 1` and can be given twice; an order whose ticket was
  merged while being prepared never becomes ready by itself; the first station
  that is ready sets the whole order ready; `order-kitchen.service.ts:1-4` says
  that lines join tickets waiting or in preparation, the code joins waiting ones.

**Service calls**
* `WithinReach` with two absent waiters: a call is handed over once, and may go to
  a waiter who is not there, since only breaks are looked at; no other list then
  shows it.
* Bill requests are never handed over and are listed for their target only.
* Answering has no guard on the status, and drops from every screen whatever it
  shows of the table; a call without a table is dropped from no other screen.

**Wallets**
* `BonusIsBooked` in `Wallet.cfg` as it is: the bonus of a deposit raises the wallet
  and is never booked (`services/billing.service.ts:2534`: 6 placeholders, 7
  parameters, after the wallet, the row and the deposit's movement have been
  written); the request ends with an error and the money is there.
* What the reseller pays for a restaurant lowers the reseller's wallet and leaves no
  row of the reseller (`controllers/billing.controller.ts:619`). The handler looks at
  the row's status and not at its type: a pending deposit that it pays never reaches
  the restaurant's wallet.
* `OncePerRow` with `Apart = {}`: two ways to pay one bill that overlap both take
  the money.
* `LedgerSpec`, `BalanceIsBooked` with `Apart = {}`: handlers that set what they
  have read lose what others wrote (`services/billing.service.ts:2690`); a reseller
  can be overdrawn.
* `LedgerSpec` with every handler `Mortal`: a restart between two statements of a
  transfer takes from one wallet and gives to none.
* A top-up that is rejected while its customer pays is paid and not credited;
  re-cancelling the payment of an old plan purchase puts back the plan before it;
  a plan bought by card adds its licences again when the webhook is repeated.

**Not modelled, seen nearby**: `reverseLoyaltyPoints` takes points of orders that
never earned any, and again at each cancel; two payments of one ready takeaway
order both read it unpaid; voiding a payment twice writes two negative ones; a
waiter's payment between `SUM` and `UPDATE` is settled and not handed over;
completing a delivery writes no payment; the product form saves the stock it had
read; `adjustProductStock` stops at 0 and books the whole change.

## 6. Proofs

TLAPS proves, for every value of the constants that the named assumptions allow:

| theorem | assumes | inductive invariant |
|---|---|---|
| `OfflineSyncProofs!TypeCorrect`: `[]TypeOK` | - | itself |
| `NothingLost`: `[]NoLostOrder`; `SyncedApplied`: `[]SyncedIsApplied` | - | `IInv` |
| `SerialAtMostOnce`: `[]AtMostOnce` | one request at a time | `AtMostOnce /\ StillMissing` |
| `SerialSyncedStays`: `SyncedStays`; `SerialDeletes`: `DeletedOnlyIfApplied` | one request at a time | `IInv /\ RunInv` |
| `DineInProofs!OverlapTableSession`: `[]TableSession` | no `transferTable`, `mergeTables` in `Calls` | `OverlapInv` |
| `SerialLinked`: `[]TablesLinked` | one request at a time, `~Stale` | `SerialInv` |
| `TypeCorrect`: `[]TypeOK`; `OverlapBill`: `[]BillConserved` | - | `BillInv` |
| `SerialBill`: `PaidInFull`, `[](PaidIsCovered /\ ChargedOnce)` | one request at a time, `~Stale`, `Careful`, no `payment`, `split` in `Calls` | `MoneyInv` |
| `StockProofs!TypeCorrect`: `[]TypeOK` | - | itself |
| `NoDeadlock`: `[]NoWaitCycle` | - | `LockInv` |
| `ServedKept`: `ServedIsKept` | - | `ServeInv` |
| `StockAccounted`: `[]StockAccounts` | - | `AccountInv` |
| `IsInventory`: `InventorySpec` | - | `AccountInv /\ LockInv` |
| `SerialGivesBack`: `CancelGivesBack` | one request at a time, no `kitchenCancel` | `GiveInv` |
| `DeliveryProofs!TypeCorrect`: `[]TypeOK` | - | `Typed` |
| `OneCourier`: `[]TakenOnce`; `OverStaysOver`: `FinalIsFinal` | `InTime` | `SafeInv` |
| `CarrierOwes`: `[]CashOwner` | `InTime`, `InSight` | `CashInv` |
| `CashOnce`: `[]HandedOver` | `InTime`, `InSight`, one desk | `HandInv` |
| `ServiceCallsProofs!TypeCorrect`: `[]TypeOK`; `HandedOverOnce`: `[]PassedOnce`; `AnsweredKept`: `AnsweredStays` | - | `CallInv` |
| `InReach`: `[]WithinReach` | one absent waiter, whose the tables are, and no other is called by name | `CallInv /\ HisFirst` |
| `KitchenProofs!TypeCorrect`: `[]TypeOK` | - | `Typed` |
| `Unlost`: `[]LinesKept`; `OneAtATime`: `[]OnePreparing` | `InTurn` | `KitchenInv` |
| `WalletProofs!TypeCorrect`: `[]TypeOK` | - | `Typed` |
| `BooksBalance`: `[]BalanceIsBooked`; `RowsOnce`: `[]OncePerRow`; `StaysCovered`: `[]NeverOverdrawn` | `InOrder`, `MortalFew` | `WalletInv` |
| `IsLedger`: `LedgerSpec` | `InOrder`, `MortalFew` | `WalletInv` |

"One request at a time" is `Worker = {w0}` (in `OfflineSync`, that any two are the
same); `InTime` is no `late kitchen`,
`InSight` no `hasty desk` and no `grab` among the `Slips`; `InTurn` no `overlap` and
no `stale items`; `InOrder` is
`Conflict \subseteq Apart`, `MortalFew` that only `credit`, `payInvoice`, `payCard`
and `purchase`, which commit once, are `Mortal`. The assumptions on the constants are
those the modules name, and TLC evaluates them in every run. Among them are that
the orders of a history are finitely many (`Stock!OrderAssumption`,
`DineIn!RowAssumption`): a sum over them is otherwise not a number. How many is
left open.

**Nothing lost.** `NoLostOrder` is not inductive: a till deletes the rows of the
push it waits on, and only the push's request knows that they are in
`sync_queue`. `IInv` adds that (`PushCovered`), that the answer a till takes is
of the one request it waits on (`OneRequestPerPush`), that a request that is about
to say "taken" or to mark a row synced has the order before it (`KnownApplied`),
and that queue rows are handled by pushes and retries only (`RunsAreSync`).

**What a push leaves behind.** `SyncedStays` and `DeletedOnlyIfApplied` speak about one
step, and what makes that step right happened many steps before: the row a push
is about to write was found unsynced, and the rows a run holds were read as
pending (`StillUnsynced`); of the rows of the push a till waits on, each is still to
be written, or pending, or held by the run, or behind it as an order, or a failure has
been counted (`PushAccounted`). Both survive because no other request comes between.
With two requests each half has its own counterexample (section 5).

**Tables and sessions.** The handlers are first reduced to what they do to tables
and sessions: nothing (`Same`), open one (`Opened`), or end one and free some
tables (`Closed`), each by a lemma on the operator. In `OverlapInv` a request
that has read keeps a fact about its view that later commits cannot spoil
(`Pending`, `Later`): as no session moves, a session the view knew at a table is,
while it is active, still of that table. `SerialInv` needs no history: the view
is the present (`view = db`), and the calls of a till name the session its table
has (`Asked`).

**Sums.** Bills and stock are sums over sets of orders, and `SumFunctionOnSet` is a
fold. The library's induction over finite sets takes an operator as its parameter
and cannot be used; `SumTheorems` goes by the smallest counterexample instead
(`SmallestOf`: strict inclusion among the subsets of a finite set is well founded,
and that theorem takes a set). It shows that the fold's recursive function exists
and is unique (`AddsExists`, `AddsAgree`), so that a sum is what any element adds to
the sum of the rest (`SumTake`), whichever the fold's CHOOSE takes first. What the
modules need follows: sums are natural numbers, monotonic, additive, change by what
one element changes (`SumChange`), and stay when two elements trade (`SumMove`).

**Bills add up.** `BillInv` is about any overlap. Each handler writes rows of which its
own UPDATE reads the total again, so the sum is kept against the rows as they are
now (`Balanced`), not as the request saw them; what a request keeps from its view is
only which rows exist (`Waiting`: rows are never deleted, and an order that a
request is about to place is placed by no other). Rows that do not exist carry
nothing (`Blank`), which makes a split's new row an addition and a removal.

**Charged what it costs.** The three properties rest on one invariant. `ChargedOnce`
alone is not kept: a checkout charges one order for the whole bill, so order by
order nothing holds; and a session's sum says nothing about the order that an item
is moved from. `Money` therefore distinguishes (`SessOK`): while a session is active
no order in it is charged more than it costs (`Within`). `PaidInFull` is about
steps, as sessions may owe something already: `Money(d, R)` lets those of `R` owe, a
handler that keeps `Money` for the sessions owing now adds none to them, and a
kitchen's press adds at most the session whose order it revives (`Revives`). Orders
that exist cost something and belong to a session that was opened (`RowOK`), so a
session can be opened anew without inheriting any. `Wary` carries what careful staff
saw when they asked (the bill not begun, the status of an order); with one request
at a time it is still so when the handler runs, and each handler has a lemma that it
keeps `Money` (`CheckoutMoney`, `PayAllMoney`, `PaySharesMoney`, `MoveItemsMoney`,
`MergeMoney`...). `SerialInv` is needed too: that a session can be paid only at a
table that has it.

**No circle of waits.** `LockInv`: a transaction for one order has only rows below
those it still wants (`Ascends`), and a row is held by a transaction that wrote
it. In a circle, take the one that waits for the greatest row (`HasGreatest`, by
well-foundedness of strict inclusion on the finite sets of ingredients): its
holder has passed that row and waits for a greater one.

**Nothing taken twice, nothing lost.** A transaction's sum is not in the rows before it
commits, so `AccountInv` follows it: a row a transaction wrote is locked by it and its
copy differs from the committed quantity by exactly what the orders in its hands
moved (`Copy`); an order goes through `todo`, `now` and `done` once (`InTurn`), and is
created by one transaction (`Exists`). At the commit the copy becomes the row and
what was moved becomes `taken` or `given`; a rollback, a deadlock's victim included,
leaves both alone. The refinement follows: a commit changes every quantity by the sum
over the orders it is done with (`MovedIsNeed`), which for a creation is one order
that was not taken before (`LockInv`, `Exists`), and for the other calls orders that
were; and everything before the commit leaves the inventory as it is.

**Nothing back of what was served.** That an order is not completed is read before the
`ALTER` waits, so the theorem is about what can happen in between. `ServeInv`: who
alters the table has it alone (`Exclusive`), so nobody who has read is left behind,
and what a transaction knows of its orders when it begins to reverse is still so; any
other call that would complete one waits for it (`Fresh`, `FreshOthers`).

**Given back when cancelled.** With one request at a time (`SerialInv`), what a
transaction has read of its orders is still so. `GiveInv` adds that existing orders
have taken their ingredients and that no order a transaction must reverse has been
passed over (`Complete`). How often, it does not say: see `stock_twice`.

**One courier.** `TakenOnce` is not inductive, since a second request may have
passed its check. `Saw` says that what a request has read of the status is still
so, because everything that would change it waits for the table lock the request
holds; the exception is the kitchen, whose ticket changes run no ALTER, and which
therefore must not touch an order that has left. With `Untaken` (an order that is
early was never picked up) a second pickup finds the lock or the status.

**Whose cash.** A pickup that is asked for may be answered after the package has
gone, so `CashInv` carries who wants what: while an order is early, whoever has
asked for it finds the package in the kitchen or carries it (`Wanted`), and what a
phone keeps to send as picked up its courier carries (`KeptIsMine`), through
appending, taking the head, and dropping the queue. `HandInv`: what a desk has
summed and not yet marked is what the courier still owes (`SumHolds`), as
completing an order needs the table lock that the desk's transaction shares.

**Calls.** `Marked` ties the number of handovers to the flag that the UPDATE tests,
so that two ticks that read the same call cannot both pass. `HisFirst`: as long as
only the absent waiter's calls are handed over, they go to somebody present; the
assumption is needed, for a call of a present waiter can be handed to him.

**Lines.** `LinesKept` and `OnePreparing` are proved together in `KitchenInv`. `Kept`
says that what a request has found is still there when it writes, with the lines it
has read; `Turns`, that no two requests of one session have read, so whoever writes
disturbs nobody (`OthersKept`, from `Within`: only tickets of its session change).
`Origin`, an order has one ticket of its own per station, is what keeps two tickets of
one order without a session from being prepared at once. The other slips are allowed:
they lose time or whole tickets, not lines.

**The ledger.** `WalletInv` says of every request what is true between its
statements: what it saw of a wallet it is going to set is still there (`Fresh`),
there is enough for what it has checked (`Funded`), the books differ from the
balance by `Unrowed` and exactly what its owner owes them (`Books`, `Due`: a deposit
that is marked has its bonus in `Unrowed` and is yet to be booked), a row has had its
money if and only if it says that a wallet was concerned or a payment is between
wallet and mark (`TopupRows`, `BillRows`, `Unpaid`: nobody who has found a bill unpaid
finds it paid later). `Allowed` is what makes this inductive: of two requests in
conflict one is not there. The handlers being data, the proof does not go through
them by hand: `Shapes` computes each sequence once, `StepTable` says of every step
which shape it is, and `RunEffect` what a step of that shape does; the refinement
reads off the same table that a step changes one wallet by a due amount, or none.

### Only model-checked

`QueuedIsApplied`, `EveryRequestEnds`, `RoadEnds`, `CallsEnd`, `PaidIsSettled` and
`SentIsCooked`: liveness under fairness, which needs ENABLED. Every invariant and every
action property of the passing runs is proved. `CancelGivesBack` is proved and has no
run: it was checked by TLC with one request at a time, 3 orders and every call but
`kitchenCancel` (96 k states).

## 7. Not modelled

* **Loyalty.** Points are a by-product of orders, earned and taken by handlers that
  `DineIn` and `Stock` model without them. Their own errors (section 5) are
  visible without interleaving, but for points redeemed twice by overlapping
  orders, which is the pattern of `ChargedOnce` again.
* **Payment of takeaway orders at the till, the waiters' cash, voids and restores.**
  Each is one read and one write of `payments`: what can go wrong is listed in
  section 5 and has the form of `Delivery`'s `Sum` and `Settle`.
* **Coupons, device reset quota.** One row, checked and written by one request,
  the quota under a row lock.
* **Claims and releases of deliveries.** The routes exist; no screen calls them.
* **Plans bought by card, licences, withdrawals that are cancelled, currencies,
  corrections by administrators.** They repeat what `Wallet` has, or are single
  increments.
* **The cache of tenant schemas.** One process, one map and a clock: a suspended
  tenant is served until its entry is as old as the TTL.
* **Stock by hand.** One statement on one row, which takes its turn at the row lock;
  what its clamp does to the books is in section 5.
* **Guests' membership and sessions, menu, floor plan, settings, reports,
  authentication, tenants and their billing.** Edits of single rows, decisions over
  one row, and reads.
* **Input and output with the outside** (fiscal device, printers, caller id,
  invoices, integrations, hosting panel, backups) and user interfaces beyond the
  calls they can make. Socket events keep no state: which screens hear of
  something is a choice in `ServiceCalls` and `Kitchen`, and elsewhere a screen
  that missed one is a till with a stale view.

Much of `src/` is text, forms, reports and administration of that kind: the share
of its lines that is modelled is small, and what the modules cover is where
requests, screens and money meet.

## 8. What could follow

* `OrderIntake` (an `offlineId` is taken once, and stays taken) as the abstract
  specification of serial `OfflineSync`; `Bill` (a session is open, then paid or
  cancelled) of `DineIn`.
* One module that composes `Kitchen` with `DineIn`, for orders whose session closes
  while their tickets wait.
* Loyalty, with the two orders of section 7, and the waiters' cash.
