-------------------------------- MODULE Wallet --------------------------------
(***************************************************************************)
(* The wallets of a reseller and of a restaurant: card and transfer        *)
(* top-ups, deposits, transfers, charges, withdrawals, invoices and plans  *)
(* paid from them or by card, by requests of the API that overlap.         *)
(*                                                                         *)
(*   balance[w]  saas_admins.wallet_balance, tenants.wallet_balance        *)
(*   booked[w]   sum of the rows written about w to payment_history and    *)
(*               tenant_wallet_transactions                                *)
(*   topup[t]    status of a row of reseller_wallet_topup_requests         *)
(*   bill[b]     a row of payment_history, a deposit a restaurant has      *)
(*               asked for or an invoice of it: pending, or paid by card   *)
(*               or bank transfer, from the reseller's wallet or from the  *)
(*               restaurant's own (status, payment_method, created_by)     *)
(*   plan        the reseller's plan                                       *)
(*   times[r]    how often money has moved for the row r                   *)
(*   page[t]     the gateway's payment page of t: open, paid by the        *)
(*               customer, and whether the API has answered its notice     *)
(*   req[k]      the request API worker k is in                            *)
(*   asked, died requests and deaths so far (bounds of the model)          *)
(*                                                                         *)
(* Most handlers are statements that commit one by one.  A handler is the  *)
(* sequence of its steps, a step the set of statements that commit         *)
(* together: a wallet is seen, set (to what was seen, plus the change),    *)
(* moved (by an increment) and booked; a row is looked at and marked.      *)
(***************************************************************************)
EXTENDS Integers, Sequences, FiniteSets

CONSTANTS Topup, Deposit, Invoice,
          Worker,
          Price,       \* every amount but the next two
          Bonus,       \* added to a deposit
          Commission,  \* the reseller's part of a charge
          Opening,     \* what the reseller has at first
          Apart,       \* pairs of handlers that do not run at the same time
          Mortal,      \* the handlers whose request may die half way
          MaxAsked, MaxDied

Wallets == {"reseller", "tenant"}
Bill == Deposit \cup Invoice
Row == Topup \cup Bill
NoRow == "no row"

ASSUME AmountAssumption ==
  /\ Price \in Nat \ {0} /\ Bonus \in Nat /\ Commission \in Nat /\ Opening \in Nat
ASSUME RowAssumption ==
  /\ NoRow \notin Row
  /\ Topup \cap Bill = {} /\ Deposit \cap Invoice = {}
  /\ IsFiniteSet(Bill)

-----------------------------------------------------------------------------
(* Handlers *)

See(w) == <<"see", w>>
Set(w) == <<"set", w>>
Move(w) == <<"move", w>>
Book(w) == <<"book", w>>
Look == <<"look", NoRow>>
Mark == <<"mark", NoRow>>

\* Mutant of Transfer: the restaurant's side is not booked.
TransferOneSided == << {See("reseller")}, {See("tenant")}, {Set("reseller")},
                       {Set("tenant")}, {Book("reseller")} >>

\* transferResellerWalletToTenant: both balances are written as numbers.
Transfer == << {See("reseller")}, {See("tenant")}, {Set("reseller")}, {Set("tenant")},
               {Book("reseller")}, {Book("tenant")} >>

\* processTenantWalletCharge, with the reseller's commission.
Charge == << {See("tenant")}, {Set("tenant")}, {Book("tenant")},
             {See("reseller")}, {Set("reseller")}, {Book("reseller")} >>

\* A deposit is confirmed by the gateway's return page or by an administrator.
\* After its row comes the bonus's, whose INSERT has one parameter too many: it
\* fails, and the request with it, when all this has been committed.
Put == << {Look}, {See("tenant")}, {Set("tenant")}, {Mark}, {Book("tenant")} >>

\* createResellerWithdrawal: the payout request, then the wallet, then its row.
Withdraw == << {See("reseller")}, {}, {Move("reseller")}, {Book("reseller")} >>

\* postPayWithResellerWallet, for a row of any type: checks first, then one
\* transaction, which writes no row of the reseller.
PayInvoice == << {Look}, {See("reseller")}, {Move("reseller"), Mark} >>

\* payTenantInvoiceWithWallet: the restaurant pays, statement by statement.
PayOwn == << {Look}, {See("tenant")}, {Set("tenant")}, {Book("tenant")}, {Mark} >>

\* getCheckoutCallback of an invoice: no wallet is concerned.
PayCard == << {Look}, {Mark} >>

\* purchaseResellerPlan from the wallet: one transaction that reads, then sets.
Purchase == << {Look, See("reseller")}, {Set("reseller"), Mark, Book("reseller")} >>

\* The handlers that pay a bill, and all.
Settling == {"put", "payInvoice", "payOwn", "payCard"}
Op == {"transfer", "charge", "withdraw", "purchase"} \cup Settling
Handler == Op \cup {"credit"}

Program == [op \in Op |->
  CASE op = "transfer" -> Transfer
    [] op = "charge" -> Charge
    [] op = "put" -> Put
    [] op = "withdraw" -> Withdraw
    [] op = "payInvoice" -> PayInvoice
    [] op = "payOwn" -> PayOwn
    [] op = "payCard" -> PayCard
    [] op = "purchase" -> Purchase]

Delta(op, w) ==
  CASE op = "transfer" -> IF w = "reseller" THEN -Price ELSE Price
    [] op = "charge" -> IF w = "reseller" THEN Commission ELSE -Price
    [] op = "put" -> IF w = "tenant" THEN Price + Bonus ELSE 0
    [] op = "payOwn" -> IF w = "tenant" THEN -Price ELSE 0
    [] op = "payCard" -> 0
    [] OTHER -> IF w = "reseller" THEN -Price ELSE 0

\* What is booked of it: of a deposit, what was paid in and not the bonus.
Booked(op, w) == IF op = "put" /\ w = "tenant" THEN Price ELSE Delta(op, w)

\* The handlers that look whether the balance is enough, the reseller's but for one.
Spends == {"transfer", "withdraw", "payInvoice", "purchase"}
Payer(op) == IF op = "payOwn" THEN "tenant" ELSE "reseller"

ASSUME ApartAssumption ==
  /\ Apart \subseteq Handler \X Handler
  /\ \A p \in Apart : <<p[2], p[1]>> \in Apart
ASSUME BoundAssumption == Mortal \subseteq Handler /\ MaxAsked \in Nat /\ MaxDied \in Nat

-----------------------------------------------------------------------------
VARIABLES balance, booked, topup, bill, plan, times, page, req, asked, died

money == <<balance, booked, bill, plan>>
vars == <<balance, booked, topup, bill, plan, times, page, req, asked, died>>

TopupStatus == {"none", "pending", "awaiting_card", "approved", "rejected", "checkout_failed"}

\* pc counts the steps; a request that is not there has pc 0.
Req == [op : Handler, row : Row \cup {NoRow}, pc : Nat, saw : [Wallets -> Int]]

NoReq == [op |-> "credit", row |-> NoRow, pc |-> 0, saw |-> [w \in Wallets |-> 0]]

TypeOK ==
  /\ balance \in [Wallets -> Int] /\ booked \in [Wallets -> Int]
  /\ topup \in [Topup -> TopupStatus]
  /\ bill \in [Bill -> {"pending", "card", "reseller", "own"}]
  /\ plan \in {"old", "new"}
  /\ times \in [Row -> Nat]
  /\ page \in [Topup -> {"none", "open", "paid", "answered"}]
  /\ req \in [Worker -> Req]
  /\ asked \in Nat /\ died \in Nat

Init ==
  /\ balance = [w \in Wallets |-> IF w = "reseller" THEN Opening ELSE 0]
  /\ booked = balance
  /\ topup = [t \in Topup |-> "none"]
  /\ bill = [b \in Bill |-> "pending"]
  /\ plan = "old"
  /\ times = [r \in Row |-> 0]
  /\ page = [t \in Topup |-> "none"]
  /\ req = [k \in Worker |-> NoReq]
  /\ asked = 0 /\ died = 0

Active(k) == req[k].pc > 0
MayRun(op) == \A k \in Worker : Active(k) => <<op, req[k].op>> \notin Apart
Starts(k, op, row) ==
  /\ ~Active(k) /\ MayRun(op)
  /\ req' = [req EXCEPT ![k] = [NoReq EXCEPT !.op = op, !.row = row, !.pc = 1]]
Ends(k) == req' = [req EXCEPT ![k] = NoReq]

-----------------------------------------------------------------------------
(* Top-ups of the reseller's wallet *)

\* By bank transfer or cash: an administrator decides.
AskTransfer(t) ==
  /\ topup[t] = "none"
  /\ topup' = [topup EXCEPT ![t] = "pending"]
  /\ UNCHANGED <<money, times, page, req, asked, died>>

\* By card: the row, then the gateway's checkout page, which may fail.
AskCard(t) ==
  /\ topup[t] = "none"
  /\ \/ /\ topup' = [topup EXCEPT ![t] = "awaiting_card"]
        /\ page' = [page EXCEPT ![t] = "open"]
     \/ topup' = [topup EXCEPT ![t] = "checkout_failed"] /\ UNCHANGED page
  /\ UNCHANGED <<money, times, req, asked, died>>

\* The customer pays at the gateway, whatever has become of the row.
CardPaid(t) ==
  /\ page[t] = "open"
  /\ page' = [page EXCEPT ![t] = "paid"]
  /\ UNCHANGED <<money, topup, times, req, asked, died>>

\* One transaction adds to the wallet and writes the row about it.
Approved(t) ==
  /\ topup' = [topup EXCEPT ![t] = "approved"]
  /\ times' = [times EXCEPT ![t] = @ + 1]
  /\ balance' = [balance EXCEPT !["reseller"] = @ + Price]
  /\ booked' = [booked EXCEPT !["reseller"] = @ + Price]
  /\ UNCHANGED <<bill, plan>>

\* Its UPDATE looks at the status again.
Approve(t) ==
  /\ topup[t] = "pending" /\ MayRun("credit")
  /\ Approved(t)
  /\ UNCHANGED <<page, req, asked, died>>

Reject(t) ==
  /\ topup[t] \in {"pending", "awaiting_card"}
  /\ topup' = [topup EXCEPT ![t] = "rejected"]
  /\ UNCHANGED <<money, times, page, req, asked, died>>

\* The gateway notifies until it is answered, and sometimes once more; the
\* customer's return page asks for the same.
Notify(k, t) ==
  /\ page[t] \in {"paid", "answered"}
  /\ Starts(k, "credit", t)
  /\ UNCHANGED <<money, topup, times, page, asked, died>>

\* The gateway is answered with success whether the top-up was credited or not.
Answered(k) ==
  /\ page' = [page EXCEPT ![req[k].row] = "answered"]
  /\ Ends(k)

\* Mutant of Fulfil: takes every top-up that is not pending for settled.
FulfilPending(k) ==
  /\ req[k].op = "credit" /\ req[k].pc = 1
  /\ IF topup[req[k].row] # "pending"
       THEN Answered(k)
       ELSE req' = [req EXCEPT ![k].pc = 2] /\ UNCHANGED page
  /\ UNCHANGED <<money, topup, times, asked, died>>

\* fulfillResellerWalletTopupFromStripeSession reads without a lock.
Fulfil(k) ==
  /\ req[k].op = "credit" /\ req[k].pc = 1
  /\ IF topup[req[k].row] = "approved"
       THEN Answered(k)
       ELSE req' = [req EXCEPT ![k].pc = 2] /\ UNCHANGED page
  /\ UNCHANGED <<money, topup, times, asked, died>>

\* Mutant of Creditable: relies on what fulfil has read.
CreditableUnchecked(t) == topup[t] # "rejected"

\* creditResellerTopupAfterCardPayment reads it again, FOR UPDATE.
Creditable(t) == topup[t] = "awaiting_card"

Credit(k) ==
  /\ req[k].op = "credit" /\ req[k].pc = 2
  /\ IF Creditable(req[k].row)
       THEN Approved(req[k].row)
       ELSE UNCHANGED <<money, topup, times>>
  /\ Answered(k)
  /\ UNCHANGED <<asked, died>>

-----------------------------------------------------------------------------
(* The other handlers *)

Begin(k, op, row) ==
  /\ asked < MaxAsked /\ asked' = asked + 1
  /\ row \in CASE op = "put" -> Deposit
              [] op = "payInvoice" -> Bill
              [] op \in {"payOwn", "payCard"} -> Invoice
              [] OTHER -> {NoRow}
  /\ Starts(k, op, row)
  /\ UNCHANGED <<money, topup, times, page, died>>

Step(k) == Program[req[k].op][req[k].pc]
AtStep(k) == Active(k) /\ req[k].op \in Op
Does(k, s) == s \in Step(k)

Settled(k) == IF req[k].op = "purchase" THEN plan = "new" ELSE bill[req[k].row] # "pending"

\* Mutant of Short: trusts what the screen shows.
ShortNever(k) == FALSE

Short(k) == req[k].op \in Spends \cup {"payOwn"} /\ balance[Payer(req[k].op)] < Price

Checks(k) == Does(k, See(Payer(req[k].op)))

\* A check fails: the request ends with an error.
Refuse(k) ==
  /\ AtStep(k)
  /\ \/ Does(k, Look) /\ Settled(k)
     \/ Checks(k) /\ Short(k)
  /\ Ends(k)
  /\ UNCHANGED <<money, topup, times, page, asked, died>>

After(k, w) ==
  IF Does(k, Set(w)) THEN req[k].saw[w] + Delta(req[k].op, w)
  ELSE IF Does(k, Move(w)) THEN balance[w] + Delta(req[k].op, w)
  ELSE balance[w]

\* What the row says then.  The gateway's return leaves the means as it is.
Paid(k) ==
  CASE req[k].op = "payInvoice" -> "reseller"
    [] req[k].op = "payOwn" -> "own"
    [] req[k].op = "payCard" /\ bill[req[k].row] \in {"reseller", "own"} -> bill[req[k].row]
    [] OTHER -> "card"

\* The money of a row has moved: a deposit's when the wallet is set.
Moves(k) ==
  /\ req[k].row # NoRow
  /\ \/ Does(k, Set("tenant"))
     \/ Does(k, Move("reseller"))

Run(k) ==
  /\ AtStep(k)
  /\ ~(Does(k, Look) /\ Settled(k))
  /\ ~(Checks(k) /\ Short(k))
  /\ balance' = [w \in Wallets |-> After(k, w)]
  /\ booked' = [w \in Wallets |->
       IF Does(k, Book(w)) THEN booked[w] + Booked(req[k].op, w) ELSE booked[w]]
  /\ bill' = IF Does(k, Mark) /\ req[k].op # "purchase"
               THEN [bill EXCEPT ![req[k].row] = Paid(k)] ELSE bill
  /\ plan' = IF Does(k, Mark) /\ req[k].op = "purchase" THEN "new" ELSE plan
  /\ times' = IF Moves(k) THEN [times EXCEPT ![req[k].row] = @ + 1] ELSE times
  /\ IF req[k].pc = Len(Program[req[k].op])
       THEN Ends(k)
       ELSE req' = [req EXCEPT
              ![k].pc = @ + 1,
              ![k].saw = [w \in Wallets |-> IF Does(k, See(w)) THEN balance[w] ELSE @[w]]]
  /\ UNCHANGED <<topup, page, asked, died>>

\* The API restarts: what has committed stays.
Die(k) ==
  /\ Active(k) /\ req[k].op \in Mortal
  /\ died < MaxDied /\ died' = died + 1
  /\ Ends(k)
  /\ UNCHANGED <<money, topup, times, page, asked>>

Next ==
  \/ \E t \in Topup : AskTransfer(t) \/ AskCard(t) \/ CardPaid(t) \/ Approve(t) \/ Reject(t)
  \/ \E k \in Worker :
       \/ \E t \in Topup : Notify(k, t)
       \/ Fulfil(k) \/ Credit(k) \/ Refuse(k) \/ Run(k) \/ Die(k)
       \/ \E op \in Op, row \in Row \cup {NoRow} : Begin(k, op, row)

\* A gateway that was not answered notifies again, however often the API is
\* busy or dies; a request that has begun goes on.
Fairness ==
  /\ \A k \in Worker : WF_vars(Fulfil(k) \/ Credit(k) \/ Refuse(k) \/ Run(k))
  /\ \A t \in Topup : SF_vars(page[t] = "paid" /\ \E k \in Worker : Notify(k, t))

Spec == Init /\ [][Next]_vars /\ Fairness

-----------------------------------------------------------------------------
(* Properties *)

\* Two handlers must not overlap when one sets a wallet that the other changes
\* in whatever way, when both look whether the reseller has enough, or when both
\* may pay the same bill.
Sets(op, w) == \E i \in 1 .. Len(Program[op]) : Set(w) \in Program[op][i]
Changes(op, w) ==
  IF op = "credit" THEN w = "reseller"
  ELSE \E i \in 1 .. Len(Program[op]) : Set(w) \in Program[op][i] \/ Move(w) \in Program[op][i]
Conflict ==
  {p \in Handler \X Handler :
     \/ p[1] \in Spends /\ p[2] \in Spends
     \/ p[1] \in Settling /\ p[2] \in Settling
     \/ \E w \in Wallets :
          \/ p[1] \in Op /\ Sets(p[1], w) /\ Changes(p[2], w)
          \/ p[2] \in Op /\ Sets(p[2], w) /\ Changes(p[1], w)}

\* k has changed w and has not booked it yet.
Unbooked(k, w) ==
  /\ AtStep(k)
  /\ \E i \in 1 .. req[k].pc - 1 :
       /\ Set(w) \in Program[req[k].op][i] \/ Move(w) \in Program[req[k].op][i]
       /\ \A j \in i .. req[k].pc - 1 : Book(w) \notin Program[req[k].op][j]

\* Of the two changes without a row of the wallet, what the bills still tell: the
\* bonus of a deposit, and what the reseller has paid for the restaurant.
Unrowed(w) ==
  IF w = "tenant"
    THEN Bonus * Cardinality({d \in Deposit : bill[d] = "card"})
    ELSE -(Price * Cardinality({b \in Bill : bill[b] = "reseller"}))

\* The balance of a wallet can be told from the rows, whatever tops it up and
\* spends from it: it is what they add up to, but for a bonus for every deposit
\* that was paid in and the price of every bill the reseller has paid, once nobody
\* is between the two statements: transferResellerWalletToTenant and the like
\* write what they have read.
BalanceIsBooked ==
  \A w \in Wallets :
    (\A k \in Worker : ~Unbooked(k, w)) => balance[w] = booked[w] + Unrowed(w)

\* What depositTenantWallet announces: a bonus is booked like the rest.  It is
\* not, and no run has this property; BalanceIsBooked says what is left out.
BonusIsBooked ==
  (\A k \in Worker : ~Unbooked(k, "tenant")) => balance["tenant"] = booked["tenant"]

\* A reseller never spends more than the wallet holds.
NeverOverdrawn == balance["reseller"] >= 0

\* Money moves once for a top-up, a deposit or an invoice, however often it is
\* confirmed and by whom; not for a top-up that was rejected; and of no wallet for
\* an invoice that was paid by card.
OncePerRow ==
  /\ \A r \in Row : times[r] <= 1
  /\ \A t \in Topup : times[t] = 1 <=> topup[t] = "approved"
  /\ \A b \in Bill : bill[b] # "pending" =>
       times[b] = IF b \in Invoice /\ bill[b] = "card" THEN 0 ELSE 1

\* Statement by statement, the wallets are the ledger: no handler writes over
\* what another has just written, pays out what is not there, or credits a
\* top-up or a deposit but for its row, once.
L == INSTANCE Ledger WITH
       settled <- {r \in Row : times[r] > 0},
       Amounts <- {Price, Price + Bonus, Commission},
       Plain <- [w \in Wallets |-> IF w = "reseller" THEN {Commission} ELSE {Price}]
LedgerSpec == L!Spec

\* A card payment the gateway has taken ends in the wallet, unless an
\* administrator has rejected the top-up meanwhile.
PaidIsSettled == \A t \in Topup : page[t] = "paid" ~> topup[t] \in {"approved", "rejected"}
=============================================================================
