----------------------------- MODULE WalletProofs -----------------------------
(***************************************************************************)
(* Proofs about Wallet: types for every run; and, where handlers that      *)
(* conflict do not overlap (InOrder) and no request dies between changing  *)
(* a wallet and booking it (MortalFew), that a balance is what its rows    *)
(* add up to, that money moves once for a row, that the reseller is never  *)
(* overdrawn, and that Wallet implements Ledger.                           *)
(*                                                                         *)
(* The handlers are data, sequences of steps: the tables say what step i   *)
(* of a handler does, the lemmas Shapes and StepTable that they are right, *)
(* and from there on a proof looks at the tables only.                     *)
(***************************************************************************)
EXTENDS Wallet, FiniteSetTheorems, TLAPS

-----------------------------------------------------------------------------
(* The handlers, step by step *)

Last(op) ==
  CASE op \in {"transfer", "charge"} -> 6
    [] op \in {"put", "payOwn"} -> 5
    [] op = "withdraw" -> 4
    [] op = "payInvoice" -> 3
    [] op \in {"purchase", "payCard"} -> 2

SeesAt(op, i, w) ==
  \/ w = "reseller" /\ op \in {"transfer", "withdraw", "purchase"} /\ i = 1
  \/ w = "reseller" /\ op = "payInvoice" /\ i = 2
  \/ w = "reseller" /\ op = "charge" /\ i = 4
  \/ w = "tenant" /\ op \in {"transfer", "put", "payOwn"} /\ i = 2
  \/ w = "tenant" /\ op = "charge" /\ i = 1

SetsAt(op, i, w) ==
  \/ w = "reseller" /\ op = "transfer" /\ i = 3
  \/ w = "reseller" /\ op = "charge" /\ i = 5
  \/ w = "reseller" /\ op = "purchase" /\ i = 2
  \/ w = "tenant" /\ op = "transfer" /\ i = 4
  \/ w = "tenant" /\ op = "charge" /\ i = 2
  \/ w = "tenant" /\ op \in {"put", "payOwn"} /\ i = 3

MovesAt(op, i, w) == w = "reseller" /\ op \in {"withdraw", "payInvoice"} /\ i = 3

BooksAt(op, i, w) ==
  \/ w = "reseller" /\ op = "transfer" /\ i = 5
  \/ w = "reseller" /\ op = "charge" /\ i = 6
  \/ w = "reseller" /\ op = "withdraw" /\ i = 4
  \/ w = "reseller" /\ op = "purchase" /\ i = 2
  \/ w = "tenant" /\ op = "transfer" /\ i = 6
  \/ w = "tenant" /\ op = "charge" /\ i = 3
  \/ w = "tenant" /\ op = "put" /\ i = 5
  \/ w = "tenant" /\ op = "payOwn" /\ i = 4

LooksAt(op, i) == op \in Settling \cup {"purchase"} /\ i = 1

MarksAt(op, i) ==
  \/ op = "put" /\ i = 4
  \/ op = "payInvoice" /\ i = 3
  \/ op = "payOwn" /\ i = 5
  \/ op \in {"purchase", "payCard"} /\ i = 2

Shape(op, p) ==
  /\ Len(p) = Last(op)
  /\ \A i \in 1 .. Last(op) :
       /\ Look \in p[i] <=> LooksAt(op, i)
       /\ Mark \in p[i] <=> MarksAt(op, i)
       /\ \A w \in Wallets :
            /\ See(w) \in p[i] <=> SeesAt(op, i, w)
            /\ Set(w) \in p[i] <=> SetsAt(op, i, w)
            /\ Move(w) \in p[i] <=> MovesAt(op, i, w)
            /\ Book(w) \in p[i] <=> BooksAt(op, i, w)

\* The statements are different ones.
LEMMA Distinct ==
  \A v, w \in Wallets :
    /\ Look # Mark
    /\ Look # See(w) /\ Look # Set(w) /\ Look # Move(w) /\ Look # Book(w)
    /\ Mark # See(w) /\ Mark # Set(w) /\ Mark # Move(w) /\ Mark # Book(w)
    /\ See(v) # Set(w) /\ See(v) # Move(w) /\ See(v) # Book(w)
    /\ Set(v) # Move(w) /\ Set(v) # Book(w) /\ Move(v) # Book(w)
    /\ v # w => See(v) # See(w) /\ Set(v) # Set(w) /\ Move(v) # Move(w) /\ Book(v) # Book(w)
BY DEF Look, Mark, See, Set, Move, Book, Wallets, NoRow

LEMMA TransferShape == Shape("transfer", Transfer)
<1>1. /\ Len(Transfer) = 6
      /\ Transfer[1] = {See("reseller")} /\ Transfer[2] = {See("tenant")}
      /\ Transfer[3] = {Set("reseller")} /\ Transfer[4] = {Set("tenant")}
      /\ Transfer[5] = {Book("reseller")} /\ Transfer[6] = {Book("tenant")}
  BY DEF Transfer
<1> QED
  BY <1>1, Distinct DEF Shape, Last, SeesAt, SetsAt, MovesAt, BooksAt, LooksAt, MarksAt, Settling, Wallets

LEMMA ChargeShape == Shape("charge", Charge)
<1>1. /\ Len(Charge) = 6
      /\ Charge[1] = {See("tenant")}
      /\ Charge[2] = {Set("tenant")}
      /\ Charge[3] = {Book("tenant")}
      /\ Charge[4] = {See("reseller")}
      /\ Charge[5] = {Set("reseller")}
      /\ Charge[6] = {Book("reseller")}
  BY DEF Charge
<1> QED
  BY <1>1, Distinct DEF Shape, Last, SeesAt, SetsAt, MovesAt, BooksAt, LooksAt, MarksAt, Settling, Wallets

LEMMA PutShape == Shape("put", Put)
<1>1. /\ Len(Put) = 5
      /\ Put[1] = {Look}
      /\ Put[2] = {See("tenant")}
      /\ Put[3] = {Set("tenant")}
      /\ Put[4] = {Mark}
      /\ Put[5] = {Book("tenant")}
  BY DEF Put
<1> QED
  BY <1>1, Distinct DEF Shape, Last, SeesAt, SetsAt, MovesAt, BooksAt, LooksAt, MarksAt, Settling, Wallets

LEMMA WithdrawShape == Shape("withdraw", Withdraw)
<1>1. /\ Len(Withdraw) = 4
      /\ Withdraw[1] = {See("reseller")}
      /\ Withdraw[2] = {}
      /\ Withdraw[3] = {Move("reseller")}
      /\ Withdraw[4] = {Book("reseller")}
  BY DEF Withdraw
<1> QED
  BY <1>1, Distinct DEF Shape, Last, SeesAt, SetsAt, MovesAt, BooksAt, LooksAt, MarksAt, Settling, Wallets

LEMMA PayInvoiceShape == Shape("payInvoice", PayInvoice)
<1>1. /\ Len(PayInvoice) = 3
      /\ PayInvoice[1] = {Look}
      /\ PayInvoice[2] = {See("reseller")}
      /\ PayInvoice[3] = {Move("reseller"), Mark}
  BY DEF PayInvoice
<1> QED
  BY <1>1, Distinct DEF Shape, Last, SeesAt, SetsAt, MovesAt, BooksAt, LooksAt, MarksAt, Settling, Wallets

LEMMA PayOwnShape == Shape("payOwn", PayOwn)
<1>1. /\ Len(PayOwn) = 5
      /\ PayOwn[1] = {Look}
      /\ PayOwn[2] = {See("tenant")}
      /\ PayOwn[3] = {Set("tenant")}
      /\ PayOwn[4] = {Book("tenant")}
      /\ PayOwn[5] = {Mark}
  BY DEF PayOwn
<1> QED
  BY <1>1, Distinct DEF Shape, Last, SeesAt, SetsAt, MovesAt, BooksAt, LooksAt, MarksAt, Settling, Wallets

LEMMA PayCardShape == Shape("payCard", PayCard)
<1>1. /\ Len(PayCard) = 2
      /\ PayCard[1] = {Look}
      /\ PayCard[2] = {Mark}
  BY DEF PayCard
<1> QED
  BY <1>1, Distinct DEF Shape, Last, SeesAt, SetsAt, MovesAt, BooksAt, LooksAt, MarksAt, Settling, Wallets

LEMMA PurchaseShape == Shape("purchase", Purchase)
<1>1. /\ Len(Purchase) = 2
      /\ Purchase[1] = {Look, See("reseller")}
      /\ Purchase[2] = {Set("reseller"), Mark, Book("reseller")}
  BY DEF Purchase
<1> QED
  BY <1>1, Distinct DEF Shape, Last, SeesAt, SetsAt, MovesAt, BooksAt, LooksAt, MarksAt, Settling, Wallets

LEMMA Shapes == \A op \in Op : Shape(op, Program[op]) /\ Last(op) \in 2 .. 6
<1>1. /\ Program["transfer"] = Transfer /\ Program["charge"] = Charge /\ Program["put"] = Put
      /\ Program["withdraw"] = Withdraw /\ Program["payInvoice"] = PayInvoice
      /\ Program["payOwn"] = PayOwn /\ Program["payCard"] = PayCard
      /\ Program["purchase"] = Purchase
  BY DEF Program, Op, Settling
<1>2. \A op \in Op : Last(op) \in 2 .. 6
  BY DEF Op, Settling, Last
<1> QED
  BY <1>1, <1>2, TransferShape, ChargeShape, PutShape, WithdrawShape, PayInvoiceShape, PayOwnShape,
     PayCardShape, PurchaseShape
  DEF Op, Settling

\* What a step does, by the table.
LEMMA StepTable ==
  ASSUME NEW op \in Op, NEW i \in 1 .. Last(op)
  PROVE  /\ Len(Program[op]) = Last(op)
         /\ Look \in Program[op][i] <=> LooksAt(op, i)
         /\ Mark \in Program[op][i] <=> MarksAt(op, i)
         /\ \A w \in Wallets :
              /\ See(w) \in Program[op][i] <=> SeesAt(op, i, w)
              /\ Set(w) \in Program[op][i] <=> SetsAt(op, i, w)
              /\ Move(w) \in Program[op][i] <=> MovesAt(op, i, w)
              /\ Book(w) \in Program[op][i] <=> BooksAt(op, i, w)
BY Shapes DEF Shape

-----------------------------------------------------------------------------
(* Handlers that do not overlap *)

SetsOf(w) ==
  IF w = "reseller" THEN {"transfer", "charge", "purchase"}
  ELSE {"transfer", "charge", "put", "payOwn"}

ChangesOf(w) ==
  IF w = "reseller" THEN {"transfer", "charge", "purchase", "withdraw", "payInvoice", "credit"}
  ELSE {"transfer", "charge", "put", "payOwn"}

\* Those that conflict are kept apart.
InOrder == Conflict \subseteq Apart

LEMMA SetsTable ==
  ASSUME NEW op \in Op, NEW w \in Wallets
  PROVE  Sets(op, w) <=> op \in SetsOf(w)
<1>1. Sets(op, w) <=> \E i \in 1 .. Last(op) : SetsAt(op, i, w)
  BY StepTable, Shapes DEF Sets
<1>2. CASE op \in {"transfer", "charge", "purchase"} /\ w = "reseller"
  <2>1. (3 \in 1 .. Last("transfer")) /\ (5 \in 1 .. Last("charge")) /\ (2 \in 1 .. Last("purchase"))
    BY DEF Last
  <2>2. SetsAt("transfer", 3, w) /\ SetsAt("charge", 5, w) /\ SetsAt("purchase", 2, w)
    BY <1>2 DEF SetsAt
  <2> QED
    BY <1>1, <1>2, <2>1, <2>2 DEF SetsOf
<1>3. CASE op \in {"transfer", "charge", "put", "payOwn"} /\ w = "tenant"
  <2>1. /\ (4 \in 1 .. Last("transfer")) /\ (2 \in 1 .. Last("charge"))
        /\ (3 \in 1 .. Last("put")) /\ (3 \in 1 .. Last("payOwn"))
    BY DEF Last
  <2>2. SetsAt("transfer", 4, w) /\ SetsAt("charge", 2, w) /\ SetsAt("put", 3, w) /\ SetsAt("payOwn", 3, w)
    BY <1>3 DEF SetsAt
  <2> QED
    BY <1>1, <1>3, <2>1, <2>2 DEF SetsOf
<1>4. CASE op \notin SetsOf(w)
  BY <1>1, <1>4 DEF SetsAt, SetsOf, Op, Settling, Wallets
<1> QED
  BY <1>2, <1>3, <1>4 DEF SetsOf, Wallets

LEMMA ChangesTable ==
  ASSUME NEW op \in Handler, NEW w \in Wallets, op \in ChangesOf(w)
  PROVE  Changes(op, w)
<1>1. CASE op = "credit"
  BY <1>1 DEF Changes, ChangesOf, Wallets
<1>2. CASE op \in SetsOf(w) /\ op \in Op
  <2>1. PICK i \in 1 .. Len(Program[op]) : Set(w) \in Program[op][i]
    BY <1>2, SetsTable DEF Sets
  <2> QED
    BY <1>2, <2>1 DEF Changes, Op, Settling
<1>3. CASE op \in {"withdraw", "payInvoice"} /\ w = "reseller"
  <2>1. op \in Op /\ 3 \in 1 .. Last(op) /\ MovesAt(op, 3, w) /\ op # "credit"
    BY <1>3 DEF Op, Settling, Last, MovesAt
  <2>2. Len(Program[op]) = Last(op) /\ Move(w) \in Program[op][3]
    BY <2>1, StepTable
  <2> QED
    BY <2>1, <2>2 DEF Changes
<1> QED
  BY <1>1, <1>2, <1>3 DEF ChangesOf, SetsOf, Wallets, Op, Settling

LEMMA Excluded ==
  ASSUME InOrder, NEW p \in Handler, NEW q \in Handler, <<p, q>> \notin Apart
  PROVE  /\ ~(p \in Spends /\ q \in Spends)
         /\ ~(p \in Settling /\ q \in Settling)
         /\ \A w \in Wallets : /\ ~(p \in SetsOf(w) /\ q \in ChangesOf(w))
                               /\ ~(q \in SetsOf(w) /\ p \in ChangesOf(w))
<1>1. <<p, q>> \in Handler \X Handler /\ <<p, q>> \notin Conflict /\ <<p, q>>[1] = p /\ <<p, q>>[2] = q
  BY DEF InOrder
<1>2. ~(p \in Spends /\ q \in Spends) /\ ~(p \in Settling /\ q \in Settling)
  BY <1>1 DEF Conflict
<1>3. ASSUME NEW w \in Wallets
      PROVE  /\ ~(p \in SetsOf(w) /\ q \in ChangesOf(w))
             /\ ~(q \in SetsOf(w) /\ p \in ChangesOf(w))
  <2>1. ~(p \in Op /\ Sets(p, w) /\ Changes(q, w)) /\ ~(q \in Op /\ Sets(q, w) /\ Changes(p, w))
    BY <1>1 DEF Conflict
  <2>2. SetsOf(w) \subseteq Op
    BY DEF SetsOf, Op, Settling
  <2> QED
    BY <2>1, <2>2, SetsTable, ChangesTable
<1> QED
  BY <1>2, <1>3

-----------------------------------------------------------------------------
(* Types *)

RowsOf(op) ==
  CASE op = "credit" -> Topup
    [] op = "put" -> Deposit
    [] op = "payInvoice" -> Bill
    [] op \in {"payOwn", "payCard"} -> Invoice
    [] OTHER -> {NoRow}

\* A request is at a step of its handler, about a row that the handler is for.
WellFormed ==
  \A k \in Worker : req[k].pc > 0 =>
    /\ req[k].row \in RowsOf(req[k].op)
    /\ req[k].op \in Op => req[k].pc \in 1 .. Last(req[k].op)

Typed == TypeOK /\ WellFormed

LEMMA NoReqFields == NoReq \in Req /\ NoReq.pc = 0 /\ NoReq.op = "credit"
BY DEF NoReq, Req, Handler

LEMMA ReqFields ==
  ASSUME NEW r \in Req
  PROVE  r.op \in Handler /\ r.row \in Row \cup {NoRow} /\ r.pc \in Nat /\ r.saw \in [Wallets -> Int]
BY DEF Req

LEMMA ReqWith ==
  ASSUME NEW r \in Req
  PROVE  /\ \A op \in Handler : [r EXCEPT !.op = op] \in Req
         /\ \A x \in Row \cup {NoRow} : [r EXCEPT !.row = x] \in Req
         /\ \A i \in Nat : [r EXCEPT !.pc = i] \in Req
         /\ \A f \in [Wallets -> Int] : [r EXCEPT !.saw = f] \in Req
BY DEF Req

LEMMA Started ==
  ASSUME req \in [Worker -> Req], NEW k \in Worker, NEW op \in Handler, NEW x \in Row \cup {NoRow},
         Starts(k, op, x)
  PROVE  /\ req' \in [Worker -> Req]
         /\ req'[k].op = op /\ req'[k].row = x /\ req'[k].pc = 1
         /\ \A j \in Worker \ {k} : req'[j] = req[j]
<1> DEFINE q == [NoReq EXCEPT !.op = op]
           u == [q EXCEPT !.row = x]
           r == [u EXCEPT !.pc = 1]
<1>1. req' = [req EXCEPT ![k] = r]
  BY DEF Starts
<1>2. q \in Req
  BY NoReqFields, ReqWith
<1>3. u \in Req
  <2> HIDE DEF q
  <2> QED
    BY <1>2, ReqWith
<1>4. r \in Req
  <2> HIDE DEF u
  <2> QED
    BY <1>3, ReqWith
<1>5. r.op = op /\ r.row = x /\ r.pc = 1
  BY DEF NoReq
<1> HIDE DEF r
<1> QED
  BY <1>1, <1>4, <1>5

LEMMA Ended ==
  ASSUME req \in [Worker -> Req], NEW k \in Worker, Ends(k)
  PROVE  /\ req' \in [Worker -> Req]
         /\ req'[k].pc = 0 /\ req'[k].op = "credit"
         /\ \A j \in Worker \ {k} : req'[j] = req[j]
BY NoReqFields DEF Ends

\* The next step, with what was seen at this one.
LEMMA Advanced ==
  ASSUME req \in [Worker -> Req], NEW k \in Worker, NEW f \in [Wallets -> Int],
         req' = [req EXCEPT ![k].pc = @ + 1, ![k].saw = f]
  PROVE  /\ req' \in [Worker -> Req]
         /\ req'[k].op = req[k].op /\ req'[k].row = req[k].row
         /\ req'[k].pc = req[k].pc + 1 /\ req'[k].saw = f
         /\ \A j \in Worker \ {k} : req'[j] = req[j]
<1> DEFINE u == [req[k] EXCEPT !.pc = req[k].pc + 1]
           r == [u EXCEPT !.saw = f]
<1>1. req[k] \in Req /\ req[k].pc + 1 \in Nat
  BY ReqFields
<1>2. u \in Req
  BY <1>1, ReqWith
<1>3. r \in Req
  <2> HIDE DEF u
  <2> QED
    BY <1>2, ReqWith
<1>4. r.op = req[k].op /\ r.row = req[k].row /\ r.pc = req[k].pc + 1 /\ r.saw = f
  BY <1>1 DEF Req
<1>5. req' = [req EXCEPT ![k] = r]
  OBVIOUS
<1> HIDE DEF r
<1> QED
  BY <1>3, <1>4, <1>5

-----------------------------------------------------------------------------
(* What a step of a handler does to the rest, by the table *)

\* The step changes the wallet w, by a number or by an increment.
ChangesAt(op, i, w) == SetsAt(op, i, w) \/ MovesAt(op, i, w)

LEMMA RunEffect ==
  ASSUME Typed, NEW k \in Worker, Run(k)
  PROVE  LET op == req[k].op
             i == req[k].pc
         IN  /\ op \in Op /\ i \in 1 .. Last(op)
             /\ balance' \in [Wallets -> Int] /\ booked' \in [Wallets -> Int]
             /\ \A w \in Wallets :
                  /\ balance'[w] = IF SetsAt(op, i, w) THEN req[k].saw[w] + Delta(op, w)
                                   ELSE IF MovesAt(op, i, w) THEN balance[w] + Delta(op, w)
                                   ELSE balance[w]
                  /\ booked'[w] = IF BooksAt(op, i, w) THEN booked[w] + Booked(op, w) ELSE booked[w]
             /\ SeesAt(op, i, "reseller") /\ op \in Spends => balance["reseller"] >= Price
             /\ LooksAt(op, i) /\ op # "purchase" => bill[req[k].row] = "pending"
             /\ bill' = IF MarksAt(op, i) /\ op # "purchase" THEN [bill EXCEPT ![req[k].row] = Paid(k)] ELSE bill
             /\ plan' \in {"old", "new"}
             /\ times' = IF req[k].row # NoRow /\ (SetsAt(op, i, "tenant") \/ MovesAt(op, i, "reseller"))
                           THEN [times EXCEPT ![req[k].row] = @ + 1] ELSE times
             /\ topup' = topup /\ page' = page /\ asked' = asked /\ died' = died
             /\ req' \in [Worker -> Req]
             /\ \A j \in Worker \ {k} : req'[j] = req[j]
             /\ IF i = Last(op) THEN req'[k].pc = 0 /\ req'[k].op = "credit"
                ELSE /\ req'[k].op = op /\ req'[k].row = req[k].row /\ req'[k].pc = i + 1
                     /\ \A w \in Wallets :
                          req'[k].saw[w] = IF SeesAt(op, i, w) THEN balance[w] ELSE req[k].saw[w]
<1> DEFINE op == req[k].op
           i == req[k].pc
<1>1. /\ op \in Op /\ i \in 1 .. Last(op) /\ req[k] \in Req /\ req[k].saw \in [Wallets -> Int]
      /\ req \in [Worker -> Req] /\ balance \in [Wallets -> Int] /\ booked \in [Wallets -> Int]
      /\ plan \in {"old", "new"} /\ Last(op) \in Nat
  <2>1. /\ req \in [Worker -> Req] /\ balance \in [Wallets -> Int] /\ booked \in [Wallets -> Int]
        /\ plan \in {"old", "new"}
    BY DEF Typed, TypeOK
  <2>2. req[k] \in Req /\ req[k].saw \in [Wallets -> Int]
    BY <2>1, ReqFields
  <2>3. op \in Op /\ req[k].pc > 0
    BY DEF Run, AtStep, Active
  <2>4. i \in 1 .. Last(op)
    BY <2>3 DEF Typed, WellFormed
  <2>5. Last(op) \in Nat
    BY <2>3, Shapes
  <2> QED
    BY <2>1, <2>2, <2>3, <2>4, <2>5
<1>2. \A w \in Wallets : Delta(op, w) \in Int /\ Booked(op, w) \in Int
  <2>1. \A w \in Wallets : Delta(op, w) \in Int
    BY AmountAssumption DEF Delta
  <2> QED
    BY <2>1, AmountAssumption DEF Booked
<1>3. /\ Len(Program[op]) = Last(op)
      /\ Does(k, Look) <=> LooksAt(op, i)
      /\ Does(k, Mark) <=> MarksAt(op, i)
      /\ \A w \in Wallets :
           /\ Does(k, See(w)) <=> SeesAt(op, i, w)
           /\ Does(k, Set(w)) <=> SetsAt(op, i, w)
           /\ Does(k, Move(w)) <=> MovesAt(op, i, w)
           /\ Does(k, Book(w)) <=> BooksAt(op, i, w)
  BY <1>1, StepTable DEF Does, Step
<1>4. "reseller" \in Wallets /\ "tenant" \in Wallets
  BY DEF Wallets
<1>5. \A w \in Wallets :
        After(k, w) = IF SetsAt(op, i, w) THEN req[k].saw[w] + Delta(op, w)
                      ELSE IF MovesAt(op, i, w) THEN balance[w] + Delta(op, w)
                      ELSE balance[w]
  BY <1>3 DEF After
<1>6. balance' = [w \in Wallets |-> After(k, w)]
  BY DEF Run
<1>7. booked' = [w \in Wallets |-> IF BooksAt(op, i, w) THEN booked[w] + Booked(op, w) ELSE booked[w]]
  <2>1. booked' = [w \in Wallets |-> IF Does(k, Book(w)) THEN booked[w] + Booked(op, w) ELSE booked[w]]
    BY DEF Run
  <2> QED
    BY <1>3, <2>1
<1>8. balance' \in [Wallets -> Int] /\ booked' \in [Wallets -> Int]
  <2>1. \A w \in Wallets : req[k].saw[w] \in Int /\ balance[w] \in Int /\ booked[w] \in Int
    BY <1>1
  <2>2. \A w \in Wallets : After(k, w) \in Int
    BY <1>2, <1>5, <2>1
  <2>3. \A w \in Wallets : (IF BooksAt(op, i, w) THEN booked[w] + Booked(op, w) ELSE booked[w]) \in Int
    BY <1>2, <2>1
  <2> QED
    BY <1>6, <1>7, <2>2, <2>3
<1>9. SeesAt(op, i, "reseller") /\ op \in Spends => balance["reseller"] >= Price
  <2>1. op \in Spends => Payer(op) = "reseller" /\ ~(Does(k, See("reseller")) /\ Short(k))
    BY DEF Run, Checks, Payer, Spends
  <2>2. balance["reseller"] \in Int /\ Price \in Int
    BY <1>1, <1>4, AmountAssumption
  <2> QED
    BY <1>3, <1>4, <2>1, <2>2 DEF Short
<1>10. LooksAt(op, i) /\ op # "purchase" => bill[req[k].row] = "pending"
  <2>1. ~(Does(k, Look) /\ Settled(k))
    BY DEF Run
  <2> QED
    BY <1>3, <2>1 DEF Settled
<1>11. bill' = IF MarksAt(op, i) /\ op # "purchase" THEN [bill EXCEPT ![req[k].row] = Paid(k)] ELSE bill
  BY <1>3 DEF Run
<1>12. plan' \in {"old", "new"}
  BY <1>1 DEF Run
<1>13. times' = IF req[k].row # NoRow /\ (SetsAt(op, i, "tenant") \/ MovesAt(op, i, "reseller"))
                  THEN [times EXCEPT ![req[k].row] = @ + 1] ELSE times
  BY <1>3, <1>4 DEF Run, Moves
<1>14. topup' = topup /\ page' = page /\ asked' = asked /\ died' = died
  BY DEF Run
<1>15. CASE i = Last(op)
  <2>1. Ends(k)
    BY <1>3, <1>15 DEF Run
  <2> QED
    BY <1>1, <1>5, <1>6, <1>7, <1>8, <1>9, <1>10, <1>11, <1>12, <1>13, <1>14, <1>15, <2>1, Ended
<1>16. CASE i # Last(op)
  <2> DEFINE f == [w \in Wallets |-> IF SeesAt(op, i, w) THEN balance[w] ELSE req[k].saw[w]]
  <2>1. req' = [req EXCEPT ![k].pc = @ + 1,
                           ![k].saw = [w \in Wallets |-> IF Does(k, See(w)) THEN balance[w] ELSE @[w]]]
    BY <1>3, <1>16 DEF Run
  <2>2. [w \in Wallets |-> IF Does(k, See(w)) THEN balance[w] ELSE req[k].saw[w]] = f
    BY <1>3
  <2>3. req' = [req EXCEPT ![k].pc = @ + 1, ![k].saw = f]
    BY <2>1, <2>2
  <2>4. f \in [Wallets -> Int] /\ \A w \in Wallets : f[w] = IF SeesAt(op, i, w) THEN balance[w] ELSE req[k].saw[w]
    BY <1>1
  <2> HIDE DEF f
  <2>5. /\ req' \in [Worker -> Req]
        /\ req'[k].op = op /\ req'[k].row = req[k].row /\ req'[k].pc = i + 1 /\ req'[k].saw = f
        /\ \A j \in Worker \ {k} : req'[j] = req[j]
    BY <1>1, <2>3, <2>4, Advanced
  <2> QED
    BY <1>1, <1>5, <1>6, <1>7, <1>8, <1>9, <1>10, <1>11, <1>12, <1>13, <1>14, <1>16, <2>4, <2>5
<1> QED
  BY <1>15, <1>16

-----------------------------------------------------------------------------
(* Types are kept *)

LEMMA InitTyped == Init => Typed
<1> SUFFICES ASSUME Init PROVE Typed
  OBVIOUS
<1>1. balance \in [Wallets -> Int] /\ booked \in [Wallets -> Int]
  BY AmountAssumption DEF Init
<1>2. req \in [Worker -> Req] /\ \A k \in Worker : req[k].pc = 0
  BY NoReqFields DEF Init
<1>3. TypeOK
  BY <1>1, <1>2 DEF Init, TypeOK, TopupStatus
<1> QED
  BY <1>2, <1>3 DEF Typed, WellFormed

\* A request that ends, and whatever does not concern requests.
LEMMA KeptWell ==
  ASSUME Typed, req' \in [Worker -> Req],
         \A j \in Worker : req'[j] = req[j] \/ req'[j].pc = 0
  PROVE  WellFormed'
BY DEF Typed, WellFormed

LEMMA RunTyped ==
  ASSUME Typed, NEW k \in Worker, Run(k)
  PROVE  Typed'
<1> DEFINE op == req[k].op
           i == req[k].pc
<1>1. /\ op \in Op /\ i \in 1 .. Last(op) /\ Last(op) \in Nat /\ req[k].row \in RowsOf(op)
      /\ req[k].row \in Row \cup {NoRow}
  <2>1. op \in Op /\ i \in 1 .. Last(op)
    BY RunEffect
  <2>2. req[k].row \in RowsOf(op) /\ req[k].row \in Row \cup {NoRow}
    BY <2>1, ReqFields DEF Typed, WellFormed, TypeOK
  <2> QED
    BY <2>1, <2>2, Shapes
<1>2. /\ balance' \in [Wallets -> Int] /\ booked' \in [Wallets -> Int] /\ plan' \in {"old", "new"}
      /\ req' \in [Worker -> Req]
      /\ topup' = topup /\ page' = page /\ asked' = asked /\ died' = died
  BY RunEffect
<1>3. bill' \in [Bill -> {"pending", "card", "reseller", "own"}]
  <2>1. Paid(k) \in {"card", "reseller", "own"}
    BY DEF Paid
  <2> QED
    BY <2>1, RunEffect DEF Typed, TypeOK
<1>4. times' \in [Row -> Nat]
  <2>1. times \in [Row -> Nat]
    BY DEF Typed, TypeOK
  <2>2. times' = times \/ (req[k].row \in Row /\ times' = [times EXCEPT ![req[k].row] = @ + 1])
    BY <1>1, RunEffect
  <2> QED
    BY <2>1, <2>2
<1>5. TypeOK'
  BY <1>2, <1>3, <1>4 DEF Typed, TypeOK
<1>6. WellFormed'
  <2>1. ASSUME NEW j \in Worker, req'[j].pc > 0
        PROVE  /\ req'[j].row \in RowsOf(req'[j].op)
               /\ req'[j].op \in Op => req'[j].pc \in 1 .. Last(req'[j].op)
    <3>1. CASE j # k
      <4>1. req'[j] = req[j]
        BY <3>1, RunEffect
      <4> QED
        BY <2>1, <4>1 DEF Typed, WellFormed
    <3>2. CASE j = k /\ i = Last(op)
      <4>1. req'[k].pc = 0
        BY <3>2, RunEffect
      <4> QED
        BY <2>1, <3>2, <4>1
    <3>3. CASE j = k /\ i # Last(op)
      <4>1. req'[k].op = op /\ req'[k].row = req[k].row /\ req'[k].pc = i + 1
        BY <3>3, RunEffect
      <4>2. i + 1 \in 1 .. Last(op)
        BY <1>1, <3>3
      <4> HIDE DEF op, i
      <4> QED
        BY <1>1, <3>3, <4>1, <4>2
    <3> QED
      BY <3>1, <3>2, <3>3
  <2> QED
    BY <2>1 DEF WellFormed
<1> QED
  BY <1>5, <1>6 DEF Typed

LEMMA TopupTyped ==
  ASSUME Typed, NEW t \in Topup, AskTransfer(t) \/ AskCard(t) \/ CardPaid(t) \/ Approve(t) \/ Reject(t)
  PROVE  Typed'
<1>1. req' = req /\ t \in Row
  BY DEF AskTransfer, AskCard, CardPaid, Approve, Reject, Row
<1>2. WellFormed'
  BY <1>1 DEF Typed, WellFormed
<1>3. CASE AskTransfer(t) \/ AskCard(t) \/ CardPaid(t) \/ Reject(t)
  <2>1. TypeOK'
    BY <1>3 DEF AskTransfer, AskCard, CardPaid, Reject, money, Typed, TypeOK, TopupStatus
  <2> QED
    BY <1>2, <2>1 DEF Typed
<1>4. CASE Approve(t)
  <2>1. balance' \in [Wallets -> Int] /\ booked' \in [Wallets -> Int]
    BY <1>4, AmountAssumption DEF Approve, Approved, Typed, TypeOK, Wallets
  <2>2. times' \in [Row -> Nat] /\ topup' \in [Topup -> TopupStatus]
    BY <1>1, <1>4 DEF Approve, Approved, Typed, TypeOK, TopupStatus
  <2>3. TypeOK'
    BY <1>4, <2>1, <2>2 DEF Approve, Approved, Typed, TypeOK
  <2> QED
    BY <1>2, <2>3 DEF Typed
<1> QED
  BY <1>3, <1>4

LEMMA StartTyped ==
  ASSUME Typed, NEW k \in Worker,
         \/ \E t \in Topup : Notify(k, t)
         \/ \E op \in Op, x \in Row \cup {NoRow} : Begin(k, op, x)
  PROVE  Typed'
<1>1. PICK op \in Handler, x \in Row \cup {NoRow} :
        /\ Starts(k, op, x) /\ x \in RowsOf(op)
        /\ UNCHANGED <<money, topup, times, page, died>> /\ asked' \in Nat
  <2>1. ASSUME NEW t \in Topup, Notify(k, t)
        PROVE  Starts(k, "credit", t) /\ t \in RowsOf("credit") /\ t \in Row /\ "credit" \in Handler
               /\ UNCHANGED <<money, topup, times, page, died>> /\ asked' \in Nat
    BY <2>1 DEF Notify, RowsOf, Row, Handler, Typed, TypeOK
  <2>2. ASSUME NEW op \in Op, NEW x \in Row \cup {NoRow}, Begin(k, op, x)
        PROVE  Starts(k, op, x) /\ x \in RowsOf(op) /\ op \in Handler
               /\ UNCHANGED <<money, topup, times, page, died>> /\ asked' \in Nat
    BY <2>2 DEF Begin, RowsOf, Op, Settling, Handler, Typed, TypeOK
  <2> QED
    BY <2>1, <2>2
<1>2. /\ req' \in [Worker -> Req]
      /\ req'[k].op = op /\ req'[k].row = x /\ req'[k].pc = 1
      /\ \A j \in Worker \ {k} : req'[j] = req[j]
  BY <1>1, Started DEF Typed, TypeOK
<1>3. TypeOK'
  BY <1>1, <1>2 DEF money, Typed, TypeOK
<1>4. WellFormed'
  <2>1. op \in Op => 1 \in 1 .. Last(op)
    BY Shapes
  <2> QED
    BY <1>1, <1>2, <2>1 DEF Typed, WellFormed
<1> QED
  BY <1>3, <1>4 DEF Typed

LEMMA FulfilTyped ==
  ASSUME Typed, NEW k \in Worker, Fulfil(k)
  PROVE  Typed'
<1>1. req \in [Worker -> Req] /\ req[k] \in Req /\ req[k].op = "credit" /\ req[k].pc = 1
  BY DEF Typed, TypeOK, Fulfil
<1>2. UNCHANGED <<money, topup, times, asked, died>>
  BY DEF Fulfil
<1>3. CASE Answered(k)
  <2>1. /\ req' \in [Worker -> Req] /\ \A j \in Worker : req'[j] = req[j] \/ req'[j].pc = 0
        /\ page' \in [Topup -> {"none", "open", "paid", "answered"}]
    <3>1. Ends(k)
      BY <1>3 DEF Answered
    <3>2. page' = [page EXCEPT ![req[k].row] = "answered"]
      BY <1>3 DEF Answered
    <3> QED
      BY <1>1, <3>1, <3>2, Ended DEF Typed, TypeOK
  <2>2. WellFormed'
    BY <2>1, KeptWell
  <2>3. TypeOK'
    BY <1>2, <2>1 DEF money, Typed, TypeOK
  <2> QED
    BY <2>2, <2>3 DEF Typed
<1>4. CASE req' = [req EXCEPT ![k].pc = 2] /\ page' = page
  <2> DEFINE r == [req[k] EXCEPT !.pc = 2]
  <2>1. r \in Req /\ r.op = "credit" /\ r.row = req[k].row /\ r.pc = 2
    BY <1>1, ReqWith DEF Req
  <2>2. req' = [req EXCEPT ![k] = r]
    BY <1>4
  <2> HIDE DEF r
  <2>3. req' \in [Worker -> Req] /\ req'[k] = r /\ \A j \in Worker \ {k} : req'[j] = req[j]
    BY <1>1, <2>1, <2>2
  <2>4. WellFormed'
    BY <1>1, <2>1, <2>3 DEF Typed, WellFormed, Op, Settling
  <2>5. TypeOK'
    BY <1>2, <1>4, <2>3 DEF money, Typed, TypeOK
  <2> QED
    BY <2>4, <2>5 DEF Typed
<1> QED
  BY <1>3, <1>4 DEF Fulfil

LEMMA CreditTyped ==
  ASSUME Typed, NEW k \in Worker, Credit(k)
  PROVE  Typed'
<1>1. req \in [Worker -> Req] /\ req[k].row \in Topup /\ req[k].row \in Row
  <2>1. req[k].op = "credit" /\ req[k].pc > 0
    BY DEF Credit
  <2> QED
    BY <2>1 DEF Typed, TypeOK, WellFormed, RowsOf, Row
<1>2. /\ req' \in [Worker -> Req] /\ \A j \in Worker : req'[j] = req[j] \/ req'[j].pc = 0
      /\ page' \in [Topup -> {"none", "open", "paid", "answered"}]
  <2>1. Ends(k) /\ page' = [page EXCEPT ![req[k].row] = "answered"]
    BY DEF Credit, Answered
  <2> QED
    BY <1>1, <2>1, Ended DEF Typed, TypeOK
<1>3. WellFormed'
  BY <1>2, KeptWell
<1>4. UNCHANGED <<asked, died>> /\ (Approved(req[k].row) \/ UNCHANGED <<money, topup, times>>)
  BY DEF Credit
<1>5. CASE Approved(req[k].row)
  <2>1. balance' \in [Wallets -> Int] /\ booked' \in [Wallets -> Int]
    BY <1>5, AmountAssumption DEF Approved, Typed, TypeOK, Wallets
  <2>2. times' \in [Row -> Nat] /\ topup' \in [Topup -> TopupStatus]
    BY <1>1, <1>5 DEF Approved, Typed, TypeOK, TopupStatus
  <2>3. TypeOK'
    BY <1>2, <1>4, <1>5, <2>1, <2>2 DEF Approved, Typed, TypeOK
  <2> QED
    BY <1>3, <2>3 DEF Typed
<1>6. CASE UNCHANGED <<money, topup, times>>
  <2>1. TypeOK'
    BY <1>2, <1>4, <1>6 DEF money, Typed, TypeOK
  <2> QED
    BY <1>3, <2>1 DEF Typed
<1> QED
  BY <1>4, <1>5, <1>6

LEMMA StopTyped ==
  ASSUME Typed, NEW k \in Worker, Refuse(k) \/ Die(k)
  PROVE  Typed'
<1>1. Ends(k) /\ UNCHANGED <<money, topup, times, page, asked>> /\ died' \in Nat
  BY DEF Refuse, Die, Typed, TypeOK
<1>2. req' \in [Worker -> Req] /\ \A j \in Worker : req'[j] = req[j] \/ req'[j].pc = 0
  BY <1>1, Ended DEF Typed, TypeOK
<1>3. TypeOK'
  BY <1>1, <1>2 DEF money, Typed, TypeOK
<1> QED
  BY <1>2, <1>3, KeptWell DEF Typed

LEMMA NextTyped == Typed /\ [Next]_vars => Typed'
<1> SUFFICES ASSUME Typed, [Next]_vars PROVE Typed'
  OBVIOUS
<1>1. CASE UNCHANGED vars
  BY <1>1 DEF vars, Typed, TypeOK, WellFormed
<1>2. CASE Next
  BY <1>2, RunTyped, TopupTyped, StartTyped, FulfilTyped, CreditTyped, StopTyped DEF Next
<1> QED
  BY <1>1, <1>2

\* Every variable keeps its type, whatever overlaps, repeats or dies.
THEOREM TypeCorrect == Spec => []TypeOK
<1>1. Typed => TypeOK
  BY DEF Typed
<1> QED
  BY InitTyped, NextTyped, <1>1, PTL DEF Spec

-----------------------------------------------------------------------------
(* What a request stands for between two steps *)

\* It is to set w to what it has seen of it, plus its change.
HasSeen(r, w) ==
  \/ w = "reseller" /\ r.op = "transfer" /\ r.pc \in {2, 3}
  \/ w = "reseller" /\ r.op = "charge" /\ r.pc = 5
  \/ w = "reseller" /\ r.op = "purchase" /\ r.pc = 2
  \/ w = "tenant" /\ r.op = "transfer" /\ r.pc \in {3, 4}
  \/ w = "tenant" /\ r.op = "charge" /\ r.pc = 2
  \/ w = "tenant" /\ r.op \in {"put", "payOwn"} /\ r.pc = 3

\* It has found that the reseller has enough, and has not spent it yet.
CanPay(r) ==
  \/ r.op \in {"transfer", "withdraw"} /\ r.pc \in {2, 3}
  \/ r.op = "payInvoice" /\ r.pc = 3
  \/ r.op = "purchase" /\ r.pc = 2

\* It has changed w and has not booked it yet.
Owing(r, w) ==
  \/ w = "reseller" /\ r.op = "transfer" /\ r.pc \in {4, 5}
  \/ w = "reseller" /\ r.op = "charge" /\ r.pc = 6
  \/ w = "reseller" /\ r.op = "withdraw" /\ r.pc = 4
  \/ w = "tenant" /\ r.op = "transfer" /\ r.pc \in {5, 6}
  \/ w = "tenant" /\ r.op = "charge" /\ r.pc = 3
  \/ w = "tenant" /\ r.op = "put" /\ r.pc \in {4, 5}
  \/ w = "tenant" /\ r.op = "payOwn" /\ r.pc = 4

\* What it is to book then: a deposit that is marked counts with its bonus.
Due(r, w) == IF r.op = "put" /\ r.pc = 5 THEN Price ELSE Delta(r.op, w)

\* It has found its bill unpaid, and has not marked it yet.
Looked(r) ==
  \/ r.op = "put" /\ r.pc \in {2, 3, 4}
  \/ r.op = "payInvoice" /\ r.pc \in {2, 3}
  \/ r.op = "payOwn" /\ r.pc \in 2 .. 5
  \/ r.op = "payCard" /\ r.pc = 2

\* It has moved the money of the bill b, which still looks unpaid.
Between(op, i) == (op = "put" /\ i = 4) \/ (op = "payOwn" /\ i \in {4, 5})
Putting(r, b) == Between(r.op, r.pc) /\ r.row = b

\* Handlers that run at the same time may.
Allowed ==
  \A j, k \in Worker : j # k /\ Active(j) /\ Active(k) => <<req[j].op, req[k].op>> \notin Apart

Fresh == \A k \in Worker, w \in Wallets : HasSeen(req[k], w) => req[k].saw[w] = balance[w]

Funded ==
  /\ balance["reseller"] >= 0
  /\ \A k \in Worker : CanPay(req[k]) => balance["reseller"] >= Price

Books ==
  \A w \in Wallets :
    /\ (\A k \in Worker : ~Owing(req[k], w)) => balance[w] = booked[w] + Unrowed(w)
    /\ \A k \in Worker : Owing(req[k], w) => balance[w] = booked[w] + Unrowed(w) + Due(req[k], w)

TopupRows == \A t \in Topup : times[t] = IF topup[t] = "approved" THEN 1 ELSE 0

\* A bill that is paid so has cost a wallet something, or put something in.
ByWallet(b, status) == status \in {"reseller", "own"} \/ (b \in Deposit /\ status = "card")

BillRows ==
  \A b \in Bill :
    times[b] = IF ByWallet(b, bill[b]) \/ (\E k \in Worker : Putting(req[k], b)) THEN 1 ELSE 0

Unpaid == \A k \in Worker : Looked(req[k]) => bill[req[k].row] = "pending"

WalletInv == Typed /\ Allowed /\ Fresh /\ Funded /\ Books /\ TopupRows /\ BillRows /\ Unpaid

\* Requests may die only where the books are not open.
MortalFew == Mortal \subseteq {"credit", "payInvoice", "payCard", "purchase"}

-----------------------------------------------------------------------------
(* Handlers that overlap do not conflict *)

LEMMA InitAllowed == Init => Allowed
BY NoReqFields DEF Init, Allowed, Active

\* A request that goes on is the one it was.
LEMMA StayAllowed ==
  ASSUME Allowed, \A j \in Worker : Active(j)' => Active(j) /\ req'[j].op = req[j].op
  PROVE  Allowed'
BY DEF Allowed

LEMMA StartAllowed ==
  ASSUME Typed, Allowed, NEW k \in Worker, NEW op \in Handler, NEW x \in Row \cup {NoRow}, Starts(k, op, x)
  PROVE  Allowed'
<1>1. /\ req'[k].op = op /\ \A j \in Worker \ {k} : req'[j] = req[j]
  BY Started DEF Typed, TypeOK
<1>2. \A j \in Worker : Active(j) => <<op, req[j].op>> \notin Apart
  BY DEF Starts, MayRun
<1>3. \A j \in Worker : Active(j) => <<req[j].op, op>> \notin Apart
  <2> SUFFICES ASSUME NEW j \in Worker, <<req[j].op, op>> \in Apart
               PROVE  <<op, req[j].op>> \in Apart
    BY <1>2
  <2> DEFINE p == <<req[j].op, op>>
  <2>1. p[1] = req[j].op /\ p[2] = op /\ p \in Apart
    OBVIOUS
  <2> HIDE DEF p
  <2> QED
    BY <2>1, ApartAssumption
<1> QED
  BY <1>1, <1>2, <1>3 DEF Allowed, Active

LEMMA NextAllowed == Typed /\ Allowed /\ [Next]_vars => Allowed'
<1> SUFFICES ASSUME Typed, Allowed, [Next]_vars PROVE Allowed'
  OBVIOUS
<1>1. req \in [Worker -> Req]
  BY DEF Typed, TypeOK
<1>2. ASSUME req' = req PROVE Allowed'
  BY <1>2 DEF Allowed, Active
<1>3. ASSUME NEW k \in Worker, Ends(k) PROVE Allowed'
  <2>1. \A j \in Worker : Active(j)' => Active(j) /\ req'[j].op = req[j].op
    BY <1>1, <1>3, Ended DEF Active
  <2> QED
    BY <2>1, StayAllowed
<1>4. ASSUME NEW t \in Topup, AskTransfer(t) \/ AskCard(t) \/ CardPaid(t) \/ Approve(t) \/ Reject(t)
      PROVE Allowed'
  BY <1>2, <1>4 DEF AskTransfer, AskCard, CardPaid, Approve, Reject
<1>5. ASSUME NEW k \in Worker, NEW t \in Topup, Notify(k, t) PROVE Allowed'
  <2>1. Starts(k, "credit", t) /\ "credit" \in Handler /\ t \in Row \cup {NoRow}
    BY <1>5 DEF Notify, Handler, Row
  <2> QED
    BY <2>1, StartAllowed
<1>6. ASSUME NEW k \in Worker, NEW op \in Op, NEW x \in Row \cup {NoRow}, Begin(k, op, x) PROVE Allowed'
  <2>1. Starts(k, op, x) /\ op \in Handler
    BY <1>6 DEF Begin, Handler
  <2> QED
    BY <2>1, StartAllowed
<1>7. ASSUME NEW k \in Worker, Fulfil(k) PROVE Allowed'
  <2>1. CASE Ends(k)
    BY <2>1, <1>3
  <2>2. CASE req' = [req EXCEPT ![k].pc = 2]
    <3>1. \A j \in Worker : req'[j].op = req[j].op /\ (j # k => req'[j] = req[j])
      BY <1>1, <2>2 DEF Req
    <3>2. Active(k)
      BY <1>7 DEF Fulfil, Active
    <3>3. \A j \in Worker : Active(j)' => Active(j) /\ req'[j].op = req[j].op
      BY <3>1, <3>2 DEF Active
    <3> QED
      BY <3>3, StayAllowed
  <2> QED
    BY <1>7, <2>1, <2>2 DEF Fulfil, Answered
<1>8. ASSUME NEW k \in Worker, Credit(k) \/ Refuse(k) \/ Die(k) PROVE Allowed'
  <2>1. Ends(k)
    BY <1>8 DEF Credit, Answered, Refuse, Die
  <2> QED
    BY <2>1, <1>3
<1>9. ASSUME NEW k \in Worker, Run(k) PROVE Allowed'
  <2>1. \A j \in Worker \ {k} : req'[j] = req[j]
    BY <1>9, RunEffect
  <2>2. req'[k].pc = 0 \/ req'[k].op = req[k].op
    BY <1>9, RunEffect
  <2>3. Active(k)
    BY <1>9 DEF Run, AtStep
  <2>4. \A j \in Worker : Active(j)' => Active(j) /\ req'[j].op = req[j].op
    BY <2>1, <2>2, <2>3 DEF Active
  <2> QED
    BY <2>4, StayAllowed
<1>10. CASE UNCHANGED vars
  BY <1>2, <1>10 DEF vars
<1> QED
  BY <1>4, <1>5, <1>6, <1>7, <1>8, <1>9, <1>10 DEF Next

\* Who is at work at once: at most one that spends; who sets a wallet is alone.
LEMMA Alone ==
  ASSUME InOrder, Typed, Allowed, NEW j \in Worker, NEW k \in Worker, j # k, Active(j), Active(k)
  PROVE  /\ ~(req[j].op \in Spends /\ req[k].op \in Spends)
         /\ ~(req[j].op \in Settling /\ req[k].op \in Settling)
         /\ \A w \in Wallets : /\ ~(req[j].op \in SetsOf(w) /\ req[k].op \in ChangesOf(w))
                               /\ ~(req[k].op \in SetsOf(w) /\ req[j].op \in ChangesOf(w))
<1>1. req[j].op \in Handler /\ req[k].op \in Handler
  BY ReqFields DEF Typed, TypeOK
<1>2. <<req[j].op, req[k].op>> \notin Apart
  BY DEF Allowed
<1> QED
  BY <1>1, <1>2, Excluded

-----------------------------------------------------------------------------
(* Steps outside the handlers' programs *)

\* Nothing hangs on a request that has not begun, or that credits a card;
\* nothing is lost with one that has yet to change something.
Blank(r) == r.pc \in {0, 1} \/ r.op = "credit"
Careless(r) == Blank(r) \/ r.op \in {"payInvoice", "payCard", "purchase"} \/ (r.op = "payOwn" /\ r.pc = 2)

Standing == Fresh /\ Funded /\ Books /\ BillRows /\ Unpaid

LEMMA BlankFacts ==
  ASSUME NEW r, Blank(r)
  PROVE  /\ \A w : ~HasSeen(r, w) /\ ~Owing(r, w)
         /\ \A b : ~Putting(r, b)
         /\ ~CanPay(r) /\ ~Looked(r)
BY DEF Blank, HasSeen, Owing, Putting, Between, CanPay, Looked

LEMMA CarelessFacts ==
  ASSUME NEW r, Careless(r)
  PROVE  (\A w : ~Owing(r, w)) /\ (\A b : ~Putting(r, b))
BY BlankFacts DEF Careless, Owing, Putting, Between

\* How many bills the rows tell of.
LEMMA Counted ==
  /\ IsFiniteSet({d \in Deposit : bill[d] = "card"})
  /\ IsFiniteSet({b \in Bill : bill[b] = "reseller"})
  /\ Cardinality({d \in Deposit : bill[d] = "card"}) \in Nat
  /\ Cardinality({b \in Bill : bill[b] = "reseller"}) \in Nat
<1>1. /\ {d \in Deposit : bill[d] = "card"} \subseteq Bill
      /\ {b \in Bill : bill[b] = "reseller"} \subseteq Bill
      /\ IsFiniteSet(Bill)
  BY RowAssumption DEF Bill
<1> QED
  BY <1>1, FS_Subset, FS_CardinalityType

\* One more of them.
LEMMA OneMore == \A a \in Int, n \in Nat : a * n \in Int /\ a * (n + 1) = a * n + a
OBVIOUS

LEMMA UnrowedType == ASSUME NEW w \in Wallets PROVE Unrowed(w) \in Int
<1> DEFINE c == Cardinality({d \in Deposit : bill[d] = "card"})
           n == Cardinality({b \in Bill : bill[b] = "reseller"})
<1>1. c \in Nat /\ n \in Nat
  BY Counted
<1>2. Unrowed(w) = IF w = "tenant" THEN Bonus * c ELSE -(Price * n)
  BY DEF Unrowed
<1> HIDE DEF c, n
<1>3. Bonus * c \in Int /\ Price * n \in Int
  BY <1>1, AmountAssumption
<1> QED
  BY <1>2, <1>3

\* A request begins or stops, and money and rows stay.
LEMMA QuietStanding ==
  ASSUME Standing, balance' = balance, booked' = booked, bill' = bill,
         \A b \in Bill : times'[b] = times[b],
         \A j \in Worker : req'[j] = req[j] \/ (Blank(req'[j]) /\ Careless(req[j]))
  PROVE  Standing'
<1>1. Fresh'
  BY BlankFacts DEF Standing, Fresh
<1>2. Funded'
  BY BlankFacts DEF Standing, Funded
<1>3. \A j \in Worker :
        /\ \A w \in Wallets : Owing(req'[j], w) <=> Owing(req[j], w)
        /\ \A w \in Wallets : Owing(req[j], w) => req'[j] = req[j]
        /\ \A b \in Bill : Putting(req'[j], b) <=> Putting(req[j], b)
  BY BlankFacts, CarelessFacts
<1>4. Books'
  <2>1. \A w \in Wallets : Unrowed(w)' = Unrowed(w)
    BY DEF Unrowed
  <2> QED
    BY <1>3, <2>1 DEF Standing, Books
<1>5. BillRows'
  BY <1>3 DEF Standing, BillRows
<1>6. Unpaid'
  BY BlankFacts DEF Standing, Unpaid
<1> QED
  BY <1>1, <1>2, <1>4, <1>5, <1>6 DEF Standing

\* A top-up is credited, while nobody is to set the reseller's wallet.
LEMMA ReceiptStanding ==
  ASSUME Typed, Standing, NEW t \in Topup, Approved(t),
         \A j \in Worker : Active(j) => req[j].op \notin SetsOf("reseller"),
         \A j \in Worker : req'[j] = req[j] \/ (Blank(req'[j]) /\ Careless(req[j]))
  PROVE  Standing'
<1>0. /\ balance \in [Wallets -> Int] /\ booked \in [Wallets -> Int] /\ times \in [Row -> Nat]
      /\ Price \in Nat /\ "reseller" \in Wallets /\ balance["reseller"] \in Int /\ bill' = bill
      /\ \A w \in Wallets : balance[w] \in Int /\ booked[w] \in Int
  BY AmountAssumption DEF Typed, TypeOK, Wallets, Approved
<1>1. /\ \A w \in Wallets : w # "reseller" => balance'[w] = balance[w] /\ booked'[w] = booked[w]
      /\ balance'["reseller"] = balance["reseller"] + Price
      /\ booked'["reseller"] = booked["reseller"] + Price
  BY <1>0 DEF Approved
<1>2. \A b \in Bill : times'[b] = times[b]
  <2>1. \A b \in Bill : b # t /\ b \in Row
    BY RowAssumption DEF Row
  <2> QED
    BY <1>0, <2>1 DEF Approved
<1>3. \A j \in Worker :
        /\ \A w \in Wallets : Owing(req'[j], w) <=> Owing(req[j], w)
        /\ \A w \in Wallets : Owing(req[j], w) => req'[j] = req[j]
        /\ \A b \in Bill : Putting(req'[j], b) <=> Putting(req[j], b)
  BY BlankFacts, CarelessFacts
<1>4. Fresh'
  <2> SUFFICES ASSUME NEW j \in Worker, NEW w \in Wallets, HasSeen(req'[j], w)
               PROVE  req'[j].saw[w] = balance'[w]
    BY DEF Fresh
  <2>1. req'[j] = req[j] /\ HasSeen(req[j], w)
    BY BlankFacts
  <2>2. Active(j)
    BY <2>1 DEF HasSeen, Active
  <2>3. w # "reseller"
    BY <2>1, <2>2 DEF HasSeen, SetsOf
  <2> QED
    BY <1>1, <2>1, <2>3 DEF Standing, Fresh
<1>5. Funded'
  <2>1. \A j \in Worker : CanPay(req'[j]) => CanPay(req[j])
    BY BlankFacts
  <2>2. balance'["reseller"] >= balance["reseller"]
    BY <1>0, <1>1
  <2>3. balance'["reseller"] \in Int /\ (\A j \in Worker : CanPay(req'[j]) => balance["reseller"] >= Price)
    BY <1>0, <1>1, <2>1 DEF Standing, Funded
  <2>4. \A j \in Worker : CanPay(req'[j]) => balance'["reseller"] >= Price
    BY <1>0, <2>2, <2>3
  <2>5. balance'["reseller"] >= 0
    BY <1>0, <2>2, <2>3 DEF Standing, Funded
  <2> QED
    BY <2>4, <2>5 DEF Funded
<1>6. Books'
  <2> SUFFICES ASSUME NEW w \in Wallets
               PROVE  /\ (\A k \in Worker : ~Owing(req'[k], w)) => balance'[w] = booked'[w] + Unrowed(w)'
                      /\ \A k \in Worker : Owing(req'[k], w) =>
                           balance'[w] = booked'[w] + Unrowed(w)' + Due(req'[k], w)
    BY DEF Books
  <2>1. \A k \in Worker : Owing(req'[k], w) => Due(req'[k], w) \in Int
    BY AmountAssumption DEF Due, Delta
  <2>2. /\ (\A k \in Worker : ~Owing(req'[k], w)) => balance[w] = booked[w] + Unrowed(w)
        /\ \A k \in Worker : Owing(req'[k], w) => balance[w] = booked[w] + Unrowed(w) + Due(req'[k], w)
    BY <1>3 DEF Standing, Books
  <2>3. Unrowed(w)' = Unrowed(w) /\ Unrowed(w) \in Int
    BY <1>0, UnrowedType DEF Unrowed
  <2>4. CASE w = "reseller"
    BY <1>0, <1>1, <2>1, <2>2, <2>3, <2>4
  <2>5. CASE w # "reseller"
    BY <1>1, <2>2, <2>3, <2>5
  <2> QED
    BY <2>4, <2>5
<1>7. BillRows'
  BY <1>0, <1>2, <1>3 DEF Standing, BillRows
<1>8. Unpaid'
  BY <1>0, BlankFacts DEF Standing, Unpaid
<1> QED
  BY <1>4, <1>5, <1>6, <1>7, <1>8 DEF Standing

LEMMA InitStanding == Init => Standing /\ TopupRows
<1> SUFFICES ASSUME Init PROVE Standing /\ TopupRows
  OBVIOUS
<1>1. \A k \in Worker : Blank(req[k])
  BY NoReqFields DEF Init, Blank
<1>2. Fresh /\ Books /\ Unpaid
  <2>1. {d \in Deposit : bill[d] = "card"} = {} /\ {b \in Bill : bill[b] = "reseller"} = {}
    BY DEF Init, Bill
  <2>2. \A w \in Wallets : Unrowed(w) = 0 /\ balance[w] \in Int
    BY <2>1, FS_EmptySet, AmountAssumption DEF Unrowed, Init
  <2>3. Books
    BY <1>1, <2>2, BlankFacts DEF Init, Books
  <2> QED
    BY <1>1, <2>3, BlankFacts DEF Init, Fresh, Unpaid
<1>3. Funded
  BY <1>1, BlankFacts, AmountAssumption DEF Init, Funded, Wallets
<1>4. BillRows
  BY <1>1, BlankFacts DEF Init, BillRows, ByWallet, Row
<1>5. TopupRows
  BY DEF Init, TopupRows, Row
<1> QED
  BY <1>2, <1>3, <1>4, <1>5 DEF Standing

\* Requests that begin, stop or look at a top-up.
LEMMA OtherStanding ==
  ASSUME InOrder, MortalFew, Typed, Allowed, Standing, TopupRows, [Next]_vars,
         \A k \in Worker : ~Run(k)
  PROVE  Standing' /\ TopupRows'
<1>0. /\ req \in [Worker -> Req] /\ times \in [Row -> Nat] /\ topup \in [Topup -> TopupStatus]
      /\ "credit" \in ChangesOf("reseller") /\ "reseller" \in Wallets /\ "credit" \in Handler
  BY DEF Typed, TypeOK, ChangesOf, Wallets, Handler
<1>1. ASSUME UNCHANGED <<balance, booked, bill, times>>,
             \A t \in Topup : topup[t] = "approved" <=> topup'[t] = "approved",
             \A j \in Worker : req'[j] = req[j] \/ (Blank(req'[j]) /\ Careless(req[j]))
      PROVE  Standing' /\ TopupRows'
  <2>1. Standing'
    BY <1>1, QuietStanding
  <2>2. TopupRows'
    BY <1>1 DEF TopupRows
  <2> QED
    BY <2>1, <2>2
<1>2. ASSUME NEW t \in Topup, Approved(t), topup[t] # "approved",
             \A j \in Worker : Active(j) => req[j].op \notin SetsOf("reseller"),
             \A j \in Worker : req'[j] = req[j] \/ (Blank(req'[j]) /\ Careless(req[j]))
      PROVE  Standing' /\ TopupRows'
  <2>1. Standing'
    BY <1>2, ReceiptStanding
  <2>2. TopupRows'
    <3>1. t \in Row /\ times[t] = 0
      BY <1>2 DEF TopupRows, Row
    <3>2. \A u \in Topup : u \in Row
      BY DEF Row
    <3>3. times'[t] = 1 /\ topup'[t] = "approved" /\ \A u \in Topup \ {t} : times'[u] = times[u] /\ topup'[u] = topup[u]
      BY <1>0, <1>2, <3>1, <3>2 DEF Approved
    <3> QED
      BY <3>3 DEF TopupRows
  <2> QED
    BY <2>1, <2>2
<1>3. ASSUME NEW t \in Topup, AskTransfer(t) \/ AskCard(t) \/ CardPaid(t) \/ Reject(t)
      PROVE  Standing' /\ TopupRows'
  <2>1. UNCHANGED <<balance, booked, bill, times>> /\ req' = req
    BY <1>3 DEF AskTransfer, AskCard, CardPaid, Reject, money
  <2>2. \A u \in Topup : topup[u] = "approved" <=> topup'[u] = "approved"
    BY <1>0, <1>3 DEF AskTransfer, AskCard, CardPaid, Reject
  <2> QED
    BY <1>1, <2>1, <2>2
<1>4. ASSUME NEW t \in Topup, Approve(t)
      PROVE  Standing' /\ TopupRows'
  <2>1. Approved(t) /\ topup[t] # "approved" /\ req' = req
    BY <1>4 DEF Approve
  <2>2. ASSUME NEW j \in Worker, Active(j) PROVE req[j].op \notin SetsOf("reseller")
    <3>1. <<"credit", req[j].op>> \notin Apart /\ req[j].op \in Handler
      BY <1>0, <1>4, <2>2, ReqFields DEF Approve, MayRun
    <3> QED
      BY <1>0, <3>1, Excluded
  <2> QED
    BY <1>2, <2>1, <2>2
<1>5. ASSUME NEW k \in Worker, NEW op \in Handler, NEW x \in Row \cup {NoRow}, Starts(k, op, x),
             UNCHANGED <<balance, booked, bill, times, topup>>
      PROVE  Standing' /\ TopupRows'
  <2>1. req'[k].pc = 1 /\ req[k].pc \in Nat /\ ~(req[k].pc > 0) /\ \A j \in Worker \ {k} : req'[j] = req[j]
    BY <1>0, <1>5, Started, ReqFields DEF Starts, Active
  <2>2. \A j \in Worker : req'[j] = req[j] \/ (Blank(req'[j]) /\ Careless(req[j]))
    BY <2>1 DEF Blank, Careless
  <2> QED
    BY <1>1, <1>5, <2>2
<1>6. ASSUME NEW k \in Worker, Careless(req[k]), Ends(k), UNCHANGED <<balance, booked, bill, times, topup>>
      PROVE  Standing' /\ TopupRows'
  <2>1. \A j \in Worker : req'[j] = req[j] \/ (Blank(req'[j]) /\ Careless(req[j]))
    BY <1>0, <1>6, Ended DEF Blank
  <2> QED
    BY <1>1, <1>6, <2>1
<1>7. ASSUME NEW k \in Worker, NEW t \in Topup, Notify(k, t)
      PROVE  Standing' /\ TopupRows'
  <2>1. Starts(k, "credit", t) /\ t \in Row \cup {NoRow} /\ UNCHANGED <<balance, booked, bill, times, topup>>
    BY <1>7 DEF Notify, Row, money
  <2> QED
    BY <1>0, <1>5, <2>1
<1>8. ASSUME NEW k \in Worker, NEW op \in Op, NEW x \in Row \cup {NoRow}, Begin(k, op, x)
      PROVE  Standing' /\ TopupRows'
  <2>1. Starts(k, op, x) /\ op \in Handler /\ UNCHANGED <<balance, booked, bill, times, topup>>
    BY <1>8 DEF Begin, Handler, money
  <2> QED
    BY <1>5, <2>1
<1>9. ASSUME NEW k \in Worker, Fulfil(k)
      PROVE  Standing' /\ TopupRows'
  <2>1. UNCHANGED <<balance, booked, bill, times, topup>> /\ Careless(req[k]) /\ req[k].op = "credit"
    BY <1>9 DEF Fulfil, money, Careless, Blank
  <2>2. CASE Ends(k)
    BY <1>6, <2>1, <2>2
  <2>3. CASE req' = [req EXCEPT ![k].pc = 2]
    <3>1. req'[k].op = "credit" /\ \A j \in Worker \ {k} : req'[j] = req[j]
      BY <1>0, <2>1, <2>3 DEF Req
    <3>2. \A j \in Worker : req'[j] = req[j] \/ (Blank(req'[j]) /\ Careless(req[j]))
      BY <2>1, <3>1 DEF Blank
    <3> QED
      BY <1>1, <2>1, <3>2
  <2> QED
    BY <1>9, <2>2, <2>3 DEF Fulfil, Answered
<1>10. ASSUME NEW k \in Worker, Credit(k)
       PROVE  Standing' /\ TopupRows'
  <2>1. Careless(req[k]) /\ req[k].op = "credit" /\ req[k].pc = 2 /\ Ends(k) /\ Active(k)
    BY <1>10 DEF Credit, Answered, Careless, Blank, Active
  <2>2. CASE UNCHANGED <<money, topup, times>>
    BY <1>6, <2>1, <2>2 DEF money
  <2>3. CASE Creditable(req[k].row) /\ Approved(req[k].row)
    <3>1. req[k].row \in Topup /\ topup[req[k].row] # "approved"
      BY <2>1, <2>3 DEF Typed, WellFormed, RowsOf, Creditable
    <3>2. \A j \in Worker : req'[j] = req[j] \/ (Blank(req'[j]) /\ Careless(req[j]))
      BY <1>0, <2>1, Ended DEF Blank
    <3>3. ASSUME NEW j \in Worker, Active(j) PROVE req[j].op \notin SetsOf("reseller")
      <4>1. CASE j = k
        BY <2>1, <4>1 DEF SetsOf
      <4>2. CASE j # k
        BY <1>0, <2>1, <3>3, <4>2, Alone
      <4> QED
        BY <4>1, <4>2
    <3> QED
      BY <1>2, <2>3, <3>1, <3>2, <3>3
  <2> QED
    BY <1>10, <2>2, <2>3 DEF Credit
<1>11. ASSUME NEW k \in Worker, Refuse(k)
       PROVE  Standing' /\ TopupRows'
  <2>1. Ends(k) /\ UNCHANGED <<balance, booked, bill, times, topup>>
    BY <1>11 DEF Refuse, money
  <2>2. req[k].op \in Op /\ req[k].pc \in 1 .. Last(req[k].op)
    BY <1>11 DEF Refuse, AtStep, Active, Typed, WellFormed
  <2>3. \/ LooksAt(req[k].op, req[k].pc)
        \/ SeesAt(req[k].op, req[k].pc, "reseller") /\ req[k].op \in Spends
        \/ SeesAt(req[k].op, req[k].pc, "tenant") /\ req[k].op = "payOwn"
    <3>1. CASE Does(k, Look)
      BY <2>2, <3>1, StepTable DEF Does, Step
    <3>2. CASE Checks(k) /\ Short(k)
      <4>1. Payer(req[k].op) \in Wallets /\ (req[k].op \in Spends => Payer(req[k].op) = "reseller")
        BY DEF Payer, Wallets, Spends
      <4>2. SeesAt(req[k].op, req[k].pc, Payer(req[k].op))
        BY <2>2, <3>2, <4>1, StepTable DEF Checks, Does, Step
      <4>3. req[k].op \in Spends \cup {"payOwn"}
        BY <3>2 DEF Short
      <4> QED
        BY <4>1, <4>2, <4>3 DEF Payer
    <3> QED
      BY <1>11, <3>1, <3>2 DEF Refuse
  <2>4. Careless(req[k])
    BY <2>3 DEF LooksAt, SeesAt, Spends, Careless, Blank
  <2> QED
    BY <1>6, <2>1, <2>4
<1>12. ASSUME NEW k \in Worker, Die(k)
       PROVE  Standing' /\ TopupRows'
  <2>1. Ends(k) /\ UNCHANGED <<balance, booked, bill, times, topup>> /\ Careless(req[k])
    BY <1>12 DEF Die, money, MortalFew, Careless, Blank
  <2> QED
    BY <1>6, <2>1
<1>13. CASE UNCHANGED vars
  BY <1>1, <1>13 DEF vars
<1> QED
  BY <1>3, <1>4, <1>7, <1>8, <1>9, <1>10, <1>11, <1>12, <1>13 DEF Next

-----------------------------------------------------------------------------
(* Steps of the handlers' programs *)

LEMMA StandsTable ==
  ASSUME NEW r, NEW w \in Wallets
  PROVE  /\ HasSeen(r, w) => r.op \in SetsOf(w) /\ r.pc \in 2 .. 5
         /\ Owing(r, w) => r.op \in ChangesOf(w) /\ r.op # "credit" /\ r.pc \in 3 .. 6
         /\ Owing(r, w) => r.op \in SetsOf(w) \/ r.op = "withdraw"
         /\ CanPay(r) => r.op \in Spends /\ r.pc \in 2 .. 3
         /\ Looked(r) => r.op \in Settling /\ r.pc \in 2 .. 5
BY DEF HasSeen, Owing, CanPay, Looked, SetsOf, ChangesOf, Spends, Settling, Wallets

\* The step leaves nothing to book of w.
ClosesAt(op, i, w) == BooksAt(op, i, w) \/ (w = "reseller" /\ op = "payInvoice" /\ i = 3)

\* The amount of w that the step puts on a bill and not on a row of w.
UnrowedAt(op, i, w) ==
  IF op = "put" /\ i = 4 /\ w = "tenant" THEN Bonus
  ELSE IF op = "payInvoice" /\ i = 3 /\ w = "reseller" THEN -Price ELSE 0

LEMMA ChangeTable ==
  ASSUME NEW r, r.op \in Op, r.pc \in 1 .. Last(r.op), NEW w \in Wallets
  PROVE  /\ SetsAt(r.op, r.pc, w) => HasSeen(r, w)
         /\ ChangesAt(r.op, r.pc, w) => r.op \in ChangesOf(w)
         /\ ChangesAt(r.op, r.pc, w) => ~Owing(r, w) /\ ~SeesAt(r.op, r.pc, w)
         /\ ChangesAt(r.op, r.pc, "reseller") /\ r.op \in Spends => CanPay(r)
         /\ ChangesAt(r.op, r.pc, "reseller") /\ r.op \notin Spends => r.op = "charge"
         /\ ClosesAt(r.op, r.pc, w) => ChangesAt(r.op, r.pc, w) \/ Owing(r, w)
         /\ UnrowedAt(r.op, r.pc, w) # 0 => ChangesAt(r.op, r.pc, w) \/ Owing(r, w)
         /\ r.pc = Last(r.op) /\ (ChangesAt(r.op, r.pc, w) \/ Owing(r, w)) => ClosesAt(r.op, r.pc, w)
BY DEF SetsAt, MovesAt, ChangesAt, BooksAt, ClosesAt, UnrowedAt, SeesAt, HasSeen, CanPay, Owing, ChangesOf,
       Spends, Wallets, Last, Op, Settling

\* What is due after a step, in amounts.
DueAfter(r, w) ==
  (IF Owing(r, w) THEN Due(r, w) ELSE 0)
    + (IF ChangesAt(r.op, r.pc, w) THEN Delta(r.op, w) ELSE 0)
    - (IF BooksAt(r.op, r.pc, w) THEN Booked(r.op, w) ELSE 0)
    - UnrowedAt(r.op, r.pc, w)

LEMMA DueTable ==
  ASSUME NEW r, r.op \in Op, r.pc \in 1 .. Last(r.op), NEW w \in Wallets
  PROVE  DueAfter(r, w) =
           IF (Owing(r, w) \/ ChangesAt(r.op, r.pc, w)) /\ ~ClosesAt(r.op, r.pc, w)
             THEN IF r.op = "put" /\ r.pc = 4 THEN Price ELSE Delta(r.op, w)
             ELSE 0
<1>1. Price \in Int /\ Bonus \in Int /\ Commission \in Int /\ r.pc \in Int
  BY AmountAssumption, Shapes
<1>2. CASE r.op = "put"
  BY <1>1, <1>2 DEF DueAfter, Due, Owing, SetsAt, MovesAt, ChangesAt, BooksAt, ClosesAt, UnrowedAt, Delta,
                    Booked, Wallets
<1>3. CASE r.op = "payInvoice"
  BY <1>1, <1>3 DEF DueAfter, Due, Owing, SetsAt, MovesAt, ChangesAt, BooksAt, ClosesAt, UnrowedAt, Delta,
                    Booked, Wallets
<1>4. CASE r.op \notin {"put", "payInvoice"}
  <2>1. /\ UnrowedAt(r.op, r.pc, w) = 0 /\ Due(r, w) = Delta(r.op, w) /\ Booked(r.op, w) = Delta(r.op, w)
        /\ ClosesAt(r.op, r.pc, w) <=> BooksAt(r.op, r.pc, w)
    BY <1>4 DEF UnrowedAt, Due, Booked, ClosesAt
  <2>2. Delta(r.op, w) \in Int
    BY <1>1 DEF Delta
  <2>3. /\ ChangesAt(r.op, r.pc, w) => ~Owing(r, w)
        /\ BooksAt(r.op, r.pc, w) => ChangesAt(r.op, r.pc, w) \/ Owing(r, w)
    BY <2>1, ChangeTable
  <2> QED
    BY <1>4, <2>1, <2>2, <2>3 DEF DueAfter
<1> QED
  BY <1>2, <1>3, <1>4

\* The request r one step later is q.
LEMMA NextTable ==
  ASSUME NEW r, r.op \in Op, r.pc \in 1 .. Last(r.op), NEW w \in Wallets,
         NEW q, q.op = r.op, q.pc = r.pc + 1
  PROVE  /\ HasSeen(q, w) => (SeesAt(r.op, r.pc, w) \/ HasSeen(r, w)) /\ ~ChangesAt(r.op, r.pc, w)
         /\ CanPay(q) => /\ (SeesAt(r.op, r.pc, "reseller") /\ r.op \in Spends) \/ CanPay(r)
                         /\ ~ChangesAt(r.op, r.pc, "reseller")
         /\ r.pc < Last(r.op) =>
              (Owing(q, w) <=> /\ Owing(r, w) \/ ChangesAt(r.op, r.pc, w)
                               /\ ~ClosesAt(r.op, r.pc, w))
         /\ Looked(q) => /\ Looked(r) \/ (LooksAt(r.op, r.pc) /\ r.op # "purchase")
                         /\ ~MarksAt(r.op, r.pc)
         /\ Between(q.op, q.pc) <=> (r.op = "put" /\ r.pc = 3) \/ (r.op = "payOwn" /\ r.pc \in {3, 4})
<1>1. Last(r.op) \in 2 .. 6 /\ r.pc \in Int
  BY Shapes
<1>2. HasSeen(q, w) => (SeesAt(r.op, r.pc, w) \/ HasSeen(r, w)) /\ ~ChangesAt(r.op, r.pc, w)
  BY <1>1 DEF HasSeen, SeesAt, SetsAt, MovesAt, ChangesAt
<1>3. CanPay(q) => /\ (SeesAt(r.op, r.pc, "reseller") /\ r.op \in Spends) \/ CanPay(r)
                   /\ ~ChangesAt(r.op, r.pc, "reseller")
  BY <1>1 DEF CanPay, SeesAt, SetsAt, MovesAt, ChangesAt, Spends
<1>4. ASSUME r.pc < Last(r.op)
      PROVE  Owing(q, w) <=> /\ Owing(r, w) \/ ChangesAt(r.op, r.pc, w)
                             /\ ~ClosesAt(r.op, r.pc, w)
  BY <1>1, <1>4 DEF Owing, SetsAt, MovesAt, ChangesAt, BooksAt, ClosesAt, Last
<1>5. Looked(q) => /\ Looked(r) \/ (LooksAt(r.op, r.pc) /\ r.op # "purchase")
                   /\ ~MarksAt(r.op, r.pc)
  BY <1>1 DEF Looked, LooksAt, MarksAt, Settling
<1>6. Between(q.op, q.pc) <=> (r.op = "put" /\ r.pc = 3) \/ (r.op = "payOwn" /\ r.pc \in {3, 4})
  BY <1>1 DEF Between
<1> QED
  BY <1>2, <1>3, <1>4, <1>5, <1>6

LEMMA DeltaTable ==
  /\ \A op \in Op, w \in Wallets : Delta(op, w) \in Int
  /\ \A op \in Spends : Delta(op, "reseller") = -Price
  /\ Delta("charge", "reseller") = Commission
BY AmountAssumption DEF Delta, Op, Settling, Wallets, Spends

\* Whoever is at work beside k: what k changes, nobody else has seen or owes.
LEMMA BesideRun ==
  ASSUME InOrder, Typed, Allowed, NEW k \in Worker, NEW j \in Worker, j # k, Run(k), NEW w \in Wallets
  PROVE  /\ HasSeen(req[j], w) => ~ChangesAt(req[k].op, req[k].pc, w)
         /\ Owing(req[j], w) => /\ ~ChangesAt(req[k].op, req[k].pc, w)
                                /\ ~Owing(req[k], w) /\ ~ClosesAt(req[k].op, req[k].pc, w)
         /\ CanPay(req[j]) => req[k].op \notin Spends
         /\ req[j].op \in Settling /\ Active(j) => req[k].op \notin Settling
<1>1. req[k].op \in Op /\ req[k].pc \in 1 .. Last(req[k].op) /\ Active(k)
  BY RunEffect DEF Run, AtStep
<1>2. Active(j) => /\ ~(req[j].op \in Spends /\ req[k].op \in Spends)
                   /\ ~(req[j].op \in Settling /\ req[k].op \in Settling)
                   /\ \A v \in Wallets : /\ ~(req[j].op \in SetsOf(v) /\ req[k].op \in ChangesOf(v))
                                         /\ ~(req[k].op \in SetsOf(v) /\ req[j].op \in ChangesOf(v))
  BY <1>1, Alone
<1>3. HasSeen(req[j], w) => ~ChangesAt(req[k].op, req[k].pc, w)
  BY <1>1, <1>2, StandsTable, ChangeTable DEF Active
<1>4. ASSUME Owing(req[j], w) PROVE req[k].op \notin ChangesOf(w)
  <2>1. Active(j) /\ req[j].op \in ChangesOf(w) /\ (req[j].op \in SetsOf(w) \/ req[j].op = "withdraw")
    BY <1>4, StandsTable DEF Active
  <2>2. CASE req[j].op \in SetsOf(w)
    BY <1>2, <2>1, <2>2
  <2>3. CASE req[j].op = "withdraw"
    <3>1. req[k].op \notin Spends /\ req[k].op \notin SetsOf(w) /\ w = "reseller"
      BY <1>2, <2>1, <2>3 DEF Spends, ChangesOf, Wallets
    <3> QED
      BY <1>1, <3>1 DEF Spends, ChangesOf, SetsOf, Op, Settling
  <2> QED
    BY <2>1, <2>2, <2>3
<1>5. Owing(req[j], w) => /\ ~ChangesAt(req[k].op, req[k].pc, w)
                          /\ ~Owing(req[k], w) /\ ~ClosesAt(req[k].op, req[k].pc, w)
  BY <1>1, <1>4, StandsTable, ChangeTable
<1>6. CanPay(req[j]) => req[k].op \notin Spends
  BY <1>2, StandsTable DEF Active
<1>7. req[j].op \in Settling /\ Active(j) => req[k].op \notin Settling
  BY <1>2
<1> QED
  BY <1>3, <1>5, <1>6, <1>7

\* A wallet that is set was not changed since it was seen.
LEMMA RunBalance ==
  ASSUME Typed, Fresh, NEW k \in Worker, Run(k), NEW w \in Wallets
  PROVE  /\ balance[w] \in Int /\ booked[w] \in Int /\ Delta(req[k].op, w) \in Int /\ Booked(req[k].op, w) \in Int
         /\ balance'[w] = IF ChangesAt(req[k].op, req[k].pc, w) THEN balance[w] + Delta(req[k].op, w)
                          ELSE balance[w]
         /\ booked'[w] = IF BooksAt(req[k].op, req[k].pc, w) THEN booked[w] + Booked(req[k].op, w)
                         ELSE booked[w]
<1>1. req[k].op \in Op /\ req[k].pc \in 1 .. Last(req[k].op)
  BY RunEffect
<1>2. SetsAt(req[k].op, req[k].pc, w) => req[k].saw[w] = balance[w]
  BY <1>1, ChangeTable DEF Fresh
<1>3. /\ balance'[w] = IF SetsAt(req[k].op, req[k].pc, w) THEN req[k].saw[w] + Delta(req[k].op, w)
                       ELSE IF MovesAt(req[k].op, req[k].pc, w) THEN balance[w] + Delta(req[k].op, w)
                       ELSE balance[w]
      /\ booked'[w] = IF BooksAt(req[k].op, req[k].pc, w) THEN booked[w] + Booked(req[k].op, w)
                      ELSE booked[w]
  BY RunEffect
<1>4. balance[w] \in Int /\ booked[w] \in Int /\ Delta(req[k].op, w) \in Int /\ Booked(req[k].op, w) \in Int
  BY <1>1, DeltaTable, AmountAssumption DEF Booked, Typed, TypeOK
<1> QED
  BY <1>2, <1>3, <1>4 DEF ChangesAt

LEMMA RunFresh ==
  ASSUME InOrder, Typed, Allowed, Fresh, NEW k \in Worker, Run(k)
  PROVE  Fresh'
<1> SUFFICES ASSUME NEW j \in Worker, NEW w \in Wallets, HasSeen(req'[j], w)
             PROVE  req'[j].saw[w] = balance'[w]
  BY DEF Fresh
<1>1. req[k].op \in Op /\ req[k].pc \in 1 .. Last(req[k].op)
  BY RunEffect
<1>2. CASE j # k
  <2>1. req'[j] = req[j]
    BY <1>2, RunEffect
  <2>2. ~ChangesAt(req[k].op, req[k].pc, w)
    BY <1>2, <2>1, BesideRun
  <2> QED
    BY <2>1, <2>2, RunBalance DEF Fresh
<1>3. CASE j = k
  <2>1. req[k].pc # Last(req[k].op)
    <3> SUFFICES ASSUME req[k].pc = Last(req[k].op) PROVE FALSE
      OBVIOUS
    <3>1. req'[k].pc = 0
      BY RunEffect
    <3> QED
      BY <1>3, <3>1, BlankFacts DEF Blank
  <2>2. /\ req'[k].op = req[k].op /\ req'[k].pc = req[k].pc + 1
        /\ req'[k].saw[w] = IF SeesAt(req[k].op, req[k].pc, w) THEN balance[w] ELSE req[k].saw[w]
    BY <2>1, RunEffect
  <2>3. (SeesAt(req[k].op, req[k].pc, w) \/ HasSeen(req[k], w)) /\ ~ChangesAt(req[k].op, req[k].pc, w)
    BY <1>1, <1>3, <2>2, NextTable
  <2> QED
    BY <1>3, <2>2, <2>3, RunBalance DEF Fresh
<1> QED
  BY <1>2, <1>3

LEMMA RunFunded ==
  ASSUME InOrder, Typed, Allowed, Fresh, Funded, NEW k \in Worker, Run(k)
  PROVE  Funded'
<1> DEFINE b == balance["reseller"]
           changes == ChangesAt(req[k].op, req[k].pc, "reseller")
<1>1. req[k].op \in Op /\ req[k].pc \in 1 .. Last(req[k].op) /\ "reseller" \in Wallets
  BY RunEffect DEF Wallets
<1>2. /\ b \in Int /\ Price \in Nat /\ Commission \in Nat
      /\ balance'["reseller"] = IF changes THEN b + Delta(req[k].op, "reseller") ELSE b
  BY <1>1, RunBalance, AmountAssumption
<1>3. changes /\ req[k].op \in Spends => b >= Price /\ balance'["reseller"] = b - Price
  BY <1>1, <1>2, ChangeTable, DeltaTable DEF Funded
<1>4. ~(changes /\ req[k].op \in Spends) => balance'["reseller"] \in Int /\ balance'["reseller"] >= b
  BY <1>1, <1>2, ChangeTable, DeltaTable
<1>5. balance'["reseller"] >= 0
  BY <1>2, <1>3, <1>4 DEF Funded
<1>6. ASSUME NEW j \in Worker, CanPay(req'[j])
      PROVE  balance'["reseller"] >= Price
  <2>1. CASE j # k
    <3>1. req'[j] = req[j]
      BY <2>1, RunEffect
    <3>2. req[k].op \notin Spends
      BY <1>1, <1>6, <2>1, <3>1, BesideRun
    <3>3. b >= Price
      BY <1>6, <3>1 DEF Funded
    <3> QED
      BY <1>2, <1>4, <3>2, <3>3
  <2>2. CASE j = k
    <3>1. req[k].pc # Last(req[k].op)
      <4> SUFFICES ASSUME req[k].pc = Last(req[k].op) PROVE FALSE
        OBVIOUS
      <4>1. req'[k].pc = 0
        BY RunEffect
      <4> QED
        BY <1>6, <2>2, <4>1, BlankFacts DEF Blank
    <3>2. req'[k].op = req[k].op /\ req'[k].pc = req[k].pc + 1
      BY <3>1, RunEffect
    <3>3. /\ (SeesAt(req[k].op, req[k].pc, "reseller") /\ req[k].op \in Spends) \/ CanPay(req[k])
          /\ ~changes
      BY <1>1, <1>6, <2>2, <3>2, NextTable
    <3>4. b >= Price
      BY <3>3, RunEffect DEF Funded
    <3> QED
      BY <1>2, <3>3, <3>4
  <2> QED
    BY <2>1, <2>2
<1> QED
  BY <1>5, <1>6 DEF Funded

\* What k owes after the step.
LEMMA RunOwing ==
  ASSUME Typed, NEW k \in Worker, Run(k), NEW w \in Wallets
  PROVE  /\ Owing(req'[k], w) <=> /\ Owing(req[k], w) \/ ChangesAt(req[k].op, req[k].pc, w)
                                  /\ ~ClosesAt(req[k].op, req[k].pc, w)
         /\ DueAfter(req[k], w) = IF Owing(req'[k], w) THEN Due(req'[k], w) ELSE 0
<1>1. req[k].op \in Op /\ req[k].pc \in 1 .. Last(req[k].op) /\ Last(req[k].op) \in Int
  BY RunEffect, Shapes
<1>2. CASE req[k].pc = Last(req[k].op)
  <2>1. req'[k].pc = 0
    BY <1>2, RunEffect
  <2>2. ~Owing(req'[k], w)
    BY <2>1, BlankFacts DEF Blank
  <2> QED
    BY <1>1, <1>2, <2>2, ChangeTable, DueTable
<1>3. CASE req[k].pc # Last(req[k].op)
  <2>1. req'[k].op = req[k].op /\ req'[k].pc = req[k].pc + 1 /\ req[k].pc < Last(req[k].op)
    BY <1>1, <1>3, RunEffect
  <2>2. Owing(req'[k], w) <=> /\ Owing(req[k], w) \/ ChangesAt(req[k].op, req[k].pc, w)
                              /\ ~ClosesAt(req[k].op, req[k].pc, w)
    BY <1>1, <2>1, NextTable
  <2>3. Due(req'[k], w) = IF req[k].op = "put" /\ req[k].pc = 4 THEN Price ELSE Delta(req[k].op, w)
    BY <1>1, <2>1 DEF Due
  <2> QED
    BY <1>1, <2>2, <2>3, DueTable
<1> QED
  BY <1>2, <1>3

\* What the bills tell of, after a step that marks one, or none.
LEMMA RunUnrowed ==
  ASSUME Typed, Unpaid, NEW k \in Worker, Run(k), NEW w \in Wallets
  PROVE  /\ Unrowed(w) \in Int
         /\ Unrowed(w)' = Unrowed(w) + UnrowedAt(req[k].op, req[k].pc, w)
<1> DEFINE x == req[k].row
           cards == {d \in Deposit : bill[d] = "card"}
           sold == {b \in Bill : bill[b] = "reseller"}
<1>1. /\ bill \in [Bill -> {"pending", "card", "reseller", "own"}]
      /\ Deposit \subseteq Bill /\ Invoice \subseteq Bill
      /\ \A y \in Deposit : y \notin Invoice
      /\ Price \in Int /\ Bonus \in Int /\ Unrowed(w) \in Int
  BY UnrowedType, RowAssumption, AmountAssumption DEF Typed, TypeOK, Bill
<1>2. /\ IsFiniteSet(cards) /\ IsFiniteSet(sold) /\ Cardinality(cards) \in Nat /\ Cardinality(sold) \in Nat
  BY Counted
<1>3. /\ Unrowed(w) = IF w = "tenant" THEN Bonus * Cardinality(cards) ELSE -(Price * Cardinality(sold))
      /\ Unrowed(w)' = IF w = "tenant" THEN Bonus * Cardinality(cards') ELSE -(Price * Cardinality(sold'))
  BY DEF Unrowed
<1>4. /\ bill' = IF MarksAt(req[k].op, req[k].pc) /\ req[k].op # "purchase" THEN [bill EXCEPT ![x] = Paid(k)] ELSE bill
      /\ req[k].op \in Op /\ req[k].pc \in Int /\ req[k].row \in RowsOf(req[k].op)
  <2>1. req[k].op \in Op /\ req[k].pc \in 1 .. Last(req[k].op)
    BY RunEffect
  <2> QED
    BY <2>1, RunEffect, Shapes DEF Typed, WellFormed
<1>5. CASE ~(MarksAt(req[k].op, req[k].pc) /\ req[k].op # "purchase")
  <2>1. bill' = bill /\ UnrowedAt(req[k].op, req[k].pc, w) = 0
    BY <1>4, <1>5 DEF MarksAt, UnrowedAt
  <2> QED
    BY <1>1, <1>3, <2>1
<1>6. CASE MarksAt(req[k].op, req[k].pc) /\ req[k].op # "purchase"
  <2>1. bill[x] = "pending" /\ x \in Bill /\ bill' = [bill EXCEPT ![x] = Paid(k)]
    BY <1>1, <1>4, <1>6 DEF MarksAt, Unpaid, Looked, RowsOf
  <2>2. CASE req[k].op = "put" /\ req[k].pc = 4
    <3>1. Paid(k) = "card" /\ x \in Deposit
      BY <1>4, <2>2 DEF Paid, RowsOf
    <3>2. cards' = cards \cup {x} /\ x \notin cards /\ sold' = sold
      BY <1>1, <2>1, <3>1
    <3>3. Cardinality(cards') = Cardinality(cards) + 1
      BY <1>2, <3>2, FS_AddElement
    <3>4. UnrowedAt(req[k].op, req[k].pc, w) = IF w = "tenant" THEN Bonus ELSE 0
      BY <2>2 DEF UnrowedAt
    <3>5. Bonus * Cardinality(cards') = Bonus * Cardinality(cards) + Bonus
      BY <1>1, <1>2, <3>3, OneMore
    <3>6. CASE w = "tenant"
      BY <1>1, <1>3, <3>4, <3>5, <3>6
    <3>7. CASE w # "tenant"
      <4>1. Unrowed(w)' = Unrowed(w)
        BY <1>3, <3>2, <3>7, Zenon
      <4> QED
        BY <1>1, <3>4, <3>7, <4>1
    <3> QED
      BY <3>6, <3>7
  <2>3. CASE req[k].op = "payInvoice" /\ req[k].pc = 3
    <3>1. Paid(k) = "reseller"
      BY <2>3 DEF Paid
    <3>2. sold' = sold \cup {x} /\ x \notin sold /\ cards' = cards
      BY <1>1, <2>1, <3>1
    <3>3. Cardinality(sold') = Cardinality(sold) + 1
      BY <1>2, <3>2, FS_AddElement
    <3>4. UnrowedAt(req[k].op, req[k].pc, w) = IF w = "reseller" THEN -Price ELSE 0
      BY <2>3 DEF UnrowedAt
    <3>5. Price * Cardinality(sold') = Price * Cardinality(sold) + Price /\ Price * Cardinality(sold) \in Int
      BY <1>1, <1>2, <3>3, OneMore
    <3>6. CASE w = "reseller"
      BY <1>1, <1>3, <3>4, <3>5, <3>6
    <3>7. CASE w = "tenant"
      <4>1. Unrowed(w)' = Unrowed(w)
        BY <1>3, <3>2, <3>7, Zenon
      <4> QED
        BY <1>1, <3>4, <3>7, <4>1
    <3> QED
      BY <3>6, <3>7 DEF Wallets
  <2>4. CASE (req[k].op = "payOwn" /\ req[k].pc = 5) \/ (req[k].op = "payCard" /\ req[k].pc = 2)
    <3>1. Paid(k) # "reseller" /\ x \notin Deposit
      BY <1>1, <1>4, <2>1, <2>4 DEF Paid, RowsOf
    <3>2. sold' = sold /\ cards' = cards
      BY <1>1, <2>1, <3>1
    <3>3. UnrowedAt(req[k].op, req[k].pc, w) = 0
      BY <2>4 DEF UnrowedAt
    <3>4. Unrowed(w)' = Unrowed(w)
      <4>1. CASE w = "tenant"
        BY <1>3, <3>2, <4>1, Zenon
      <4>2. CASE w # "tenant"
        BY <1>3, <3>2, <4>2, Zenon
      <4> QED
        BY <4>1, <4>2
    <3> QED
      BY <1>1, <3>3, <3>4
  <2> QED
    BY <1>6, <2>2, <2>3, <2>4 DEF MarksAt
<1> QED
  BY <1>1, <1>5, <1>6

LEMMA RunBooks ==
  ASSUME InOrder, Typed, Allowed, Fresh, Unpaid, Books, NEW k \in Worker, Run(k)
  PROVE  Books'
<1> SUFFICES ASSUME NEW w \in Wallets
             PROVE  /\ (\A j \in Worker : ~Owing(req'[j], w)) => balance'[w] = booked'[w] + Unrowed(w)'
                    /\ \A j \in Worker : Owing(req'[j], w) =>
                         balance'[w] = booked'[w] + Unrowed(w)' + Due(req'[j], w)
  BY DEF Books
<1> DEFINE d == Delta(req[k].op, w)
           e == Booked(req[k].op, w)
           u == UnrowedAt(req[k].op, req[k].pc, w)
           changes == ChangesAt(req[k].op, req[k].pc, w)
           books == BooksAt(req[k].op, req[k].pc, w)
           closes == ClosesAt(req[k].op, req[k].pc, w)
           owes == Owing(req[k], w)
<1>1. /\ balance[w] \in Int /\ booked[w] \in Int /\ d \in Int /\ e \in Int /\ u \in Int
      /\ balance'[w] = IF changes THEN balance[w] + d ELSE balance[w]
      /\ booked'[w] = IF books THEN booked[w] + e ELSE booked[w]
      /\ Unrowed(w) \in Int /\ Unrowed(w)' = Unrowed(w) + u
      /\ Due(req[k], w) \in Int
  BY RunBalance, RunUnrowed, AmountAssumption DEF UnrowedAt, Due
<1>2. /\ req[k].op \in Op /\ req[k].pc \in 1 .. Last(req[k].op)
      /\ closes => changes \/ owes
      /\ books => closes
      /\ u # 0 => changes \/ owes
  BY RunEffect, ChangeTable DEF ClosesAt
<1>3. Owing(req'[k], w) <=> (owes \/ changes) /\ ~closes
  BY RunOwing
<1>4. DueAfter(req[k], w) = IF Owing(req'[k], w) THEN Due(req'[k], w) ELSE 0
  BY RunOwing
<1>5. \A j \in Worker \ {k} : req'[j] = req[j]
  BY RunEffect
<1>6. \A j \in Worker \ {k} : Owing(req[j], w) => ~changes /\ ~owes /\ ~closes
  BY BesideRun
<1>7. owes => balance[w] = booked[w] + Unrowed(w) + Due(req[k], w)
  BY DEF Books
<1>8. (\A j \in Worker : ~Owing(req[j], w)) => balance[w] = booked[w] + Unrowed(w)
  BY DEF Books
<1>9. CASE \E j \in Worker \ {k} : Owing(req[j], w)
  <2>1. ~changes /\ ~owes /\ ~closes /\ ~books /\ u = 0
    BY <1>2, <1>6, <1>9
  <2>2. ~Owing(req'[k], w)
    BY <1>3, <2>1
  <2>3. balance'[w] = balance[w] /\ booked'[w] = booked[w] /\ Unrowed(w)' = Unrowed(w)
    BY <1>1, <2>1
  <2>4. \A j \in Worker \ {k} : Owing(req[j], w) => balance[w] = booked[w] + Unrowed(w) + Due(req[j], w)
    BY DEF Books
  <2> QED
    BY <1>5, <1>9, <2>2, <2>3, <2>4
<1>10. CASE \A j \in Worker \ {k} : ~Owing(req[j], w)
  <2>1. ~owes => balance[w] = booked[w] + Unrowed(w)
    BY <1>8, <1>10
  <2>2. \A j \in Worker : Owing(req'[j], w) => j = k
    BY <1>5, <1>10
  <2>3. balance'[w] = booked'[w] + Unrowed(w)' + DueAfter(req[k], w)
    BY <1>1, <1>7, <2>1 DEF DueAfter
  <2>4. booked'[w] \in Int /\ Unrowed(w)' \in Int
    BY <1>1
  <2>5. ~Owing(req'[k], w) => balance'[w] = booked'[w] + Unrowed(w)'
    BY <1>4, <2>3, <2>4
  <2>6. Owing(req'[k], w) => balance'[w] = booked'[w] + Unrowed(w)' + Due(req'[k], w)
    BY <1>4, <2>3
  <2> QED
    BY <2>2, <2>5, <2>6
<1> QED
  BY <1>9, <1>10

\* The handlers that move the money of a bill.
Pays == {"put", "payInvoice", "payOwn"}

\* The rows of a step: which row k is about, what is paid and marked.
LEMMA RunRow ==
  ASSUME Typed, NEW k \in Worker, Run(k)
  PROVE  LET op == req[k].op
             i == req[k].pc
             x == req[k].row
         IN  /\ x \in RowsOf(op) /\ op \in Op /\ i \in 1 .. Last(op)
             /\ op \in Settling => x \in Bill
             /\ op = "put" => x \in Deposit
             /\ op \in {"payOwn", "payCard"} => x \in Invoice
             /\ times' = IF op \in Pays /\ i = 3 THEN [times EXCEPT ![x] = @ + 1] ELSE times
             /\ bill' = IF op \in Settling /\ MarksAt(op, i) THEN [bill EXCEPT ![x] = Paid(k)] ELSE bill
             /\ \A b : Putting(req'[k], b) <=>
                        x = b /\ ((op = "put" /\ i = 3) \/ (op = "payOwn" /\ i \in {3, 4}))
<1>1. /\ req[k].op \in Op /\ req[k].pc \in 1 .. Last(req[k].op) /\ req[k].pc > 0 /\ req[k].pc \in Int
      /\ Last(req[k].op) \in 2 .. 6
  BY RunEffect, Shapes
<1>2. req[k].row \in RowsOf(req[k].op)
  BY <1>1 DEF Typed, WellFormed
<1>3. /\ req[k].op = "put" => req[k].row \in Deposit
      /\ req[k].op \in {"payOwn", "payCard"} => req[k].row \in Invoice
      /\ req[k].op \in Settling => req[k].row \in Bill
      /\ req[k].op \notin Settling => req[k].row = NoRow
      /\ req[k].op \in Settling => req[k].row # NoRow
  BY <1>1, <1>2, RowAssumption DEF RowsOf, Op, Settling, Row, Bill
<1>4. times' = IF req[k].row # NoRow /\ (SetsAt(req[k].op, req[k].pc, "tenant") \/ MovesAt(req[k].op, req[k].pc, "reseller"))
                 THEN [times EXCEPT ![req[k].row] = @ + 1] ELSE times
  BY RunEffect
<1>5. (req[k].row # NoRow /\ (SetsAt(req[k].op, req[k].pc, "tenant") \/ MovesAt(req[k].op, req[k].pc, "reseller")))
        <=> (req[k].op \in Pays /\ req[k].pc = 3)
  BY <1>3 DEF SetsAt, MovesAt, Pays, Settling
<1>6. times' = IF req[k].op \in Pays /\ req[k].pc = 3
                 THEN [times EXCEPT ![req[k].row] = @ + 1] ELSE times
  BY <1>4, <1>5
<1>7. bill' = IF MarksAt(req[k].op, req[k].pc) /\ req[k].op # "purchase"
                THEN [bill EXCEPT ![req[k].row] = Paid(k)] ELSE bill
  BY RunEffect
<1>8. (MarksAt(req[k].op, req[k].pc) /\ req[k].op # "purchase")
        <=> (req[k].op \in Settling /\ MarksAt(req[k].op, req[k].pc))
  BY DEF MarksAt, Settling
<1>9. bill' = IF req[k].op \in Settling /\ MarksAt(req[k].op, req[k].pc)
                THEN [bill EXCEPT ![req[k].row] = Paid(k)] ELSE bill
  BY <1>7, <1>8
<1>10. \A b : Putting(req'[k], b) <=>
         req[k].row = b /\ ((req[k].op = "put" /\ req[k].pc = 3) \/ (req[k].op = "payOwn" /\ req[k].pc \in {3, 4}))
  <2>1. CASE req[k].pc = Last(req[k].op)
    <3>1. req'[k].pc = 0
      BY <2>1, RunEffect
    <3>2. ~((req[k].op = "put" /\ req[k].pc = 3) \/ (req[k].op = "payOwn" /\ req[k].pc \in {3, 4}))
      BY <2>1 DEF Last
    <3> QED
      BY <3>1, <3>2, BlankFacts DEF Blank
  <2>2. CASE req[k].pc # Last(req[k].op)
    <3>1. req'[k].op = req[k].op /\ req'[k].pc = req[k].pc + 1 /\ req'[k].row = req[k].row
      BY <2>2, RunEffect
    <3> QED
      BY <1>1, <3>1 DEF Putting, Between
  <2> QED
    BY <2>1, <2>2
<1> QED
  BY <1>1, <1>2, <1>3, <1>6, <1>9, <1>10

LEMMA RunTopupRows ==
  ASSUME Typed, TopupRows, NEW k \in Worker, Run(k)
  PROVE  TopupRows'
<1>1. topup' = topup /\ times \in [Row -> Nat]
  BY RunEffect DEF Typed, TypeOK
<1>2. \A t \in Topup : t \in Row /\ t \notin Bill
  BY RowAssumption DEF Row
<1>3. \A t \in Topup : times'[t] = times[t]
  BY <1>1, <1>2, RunRow DEF Pays, Settling
<1> QED
  BY <1>1, <1>3 DEF TopupRows

LEMMA RunUnpaid ==
  ASSUME InOrder, Typed, Allowed, Unpaid, NEW k \in Worker, Run(k)
  PROVE  Unpaid'
<1> SUFFICES ASSUME NEW j \in Worker, Looked(req'[j])
             PROVE  bill'[req'[j].row] = "pending"
  BY DEF Unpaid
<1>1. "reseller" \in Wallets
  BY DEF Wallets
<1>2. CASE j # k
  <2>1. req'[j] = req[j] /\ bill[req[j].row] = "pending"
    BY <1>2, RunEffect DEF Unpaid
  <2>2. Active(j) /\ req[j].op \in Settling
    BY <2>1, <1>1, StandsTable DEF Active
  <2>3. req[k].op \notin Settling
    BY <1>1, <1>2, <2>2, BesideRun
  <2>4. bill' = bill
    BY <2>3, RunRow
  <2> QED
    BY <2>1, <2>4
<1>3. CASE j = k
  <2>1. req[k].pc # Last(req[k].op)
    <3> SUFFICES ASSUME req[k].pc = Last(req[k].op) PROVE FALSE
      OBVIOUS
    <3>1. req'[k].pc = 0
      BY RunEffect
    <3> QED
      BY <1>3, <3>1, BlankFacts DEF Blank
  <2>2. req'[k].op = req[k].op /\ req'[k].pc = req[k].pc + 1 /\ req'[k].row = req[k].row
    BY <2>1, RunEffect
  <2>3. /\ Looked(req[k]) \/ (LooksAt(req[k].op, req[k].pc) /\ req[k].op # "purchase")
        /\ ~MarksAt(req[k].op, req[k].pc)
    BY <1>1, <1>3, <2>2, RunRow, NextTable
  <2>4. bill[req[k].row] = "pending"
    BY <2>3, RunEffect DEF Unpaid
  <2>5. bill' = bill
    BY <2>3, RunEffect
  <2> QED
    BY <1>3, <2>2, <2>4, <2>5
<1> QED
  BY <1>2, <1>3

LEMMA RunBillRows ==
  ASSUME InOrder, Typed, Allowed, Unpaid, BillRows, NEW k \in Worker, Run(k)
  PROVE  BillRows'
<1> SUFFICES ASSUME NEW b \in Bill
             PROVE  times'[b] = IF ByWallet(b, bill'[b]) \/ (\E j \in Worker : Putting(req'[j], b)) THEN 1 ELSE 0
  BY DEF BillRows
<1> DEFINE op == req[k].op
           i == req[k].pc
           x == req[k].row
<1>1. /\ bill \in [Bill -> {"pending", "card", "reseller", "own"}] /\ times \in [Row -> Nat] /\ b \in Row
      /\ \A y \in Deposit : y \notin Invoice
      /\ \A y \in Bill : y \in Row
      /\ "reseller" \in Wallets
  BY RowAssumption DEF Typed, TypeOK, Row, Bill, Wallets
<1>2. times[b] = IF ByWallet(b, bill[b]) \/ (\E j \in Worker : Putting(req[j], b)) THEN 1 ELSE 0
  BY DEF BillRows
<1>3. \A j \in Worker \ {k} : req'[j] = req[j]
  BY RunEffect
<1>4. \A j \in Worker \ {k} : Putting(req[j], b) => op \notin Settling
  <2>1. \A j \in Worker : Putting(req[j], b) => Active(j) /\ req[j].op \in Settling
    BY DEF Putting, Between, Active, Settling
  <2> QED
    BY <1>1, <2>1, BesideRun
<1>5. /\ op \in Settling => x \in Bill
      /\ op = "put" => x \in Deposit
      /\ op \in {"payOwn", "payCard"} => x \in Invoice
      /\ Putting(req'[k], b) <=> x = b /\ ((op = "put" /\ i = 3) \/ (op = "payOwn" /\ i \in {3, 4}))
      /\ times' = IF op \in Pays /\ i = 3 THEN [times EXCEPT ![x] = @ + 1] ELSE times
      /\ bill' = IF op \in Settling /\ MarksAt(op, i) THEN [bill EXCEPT ![x] = Paid(k)] ELSE bill
  BY RunRow
<1>6. Putting(req[k], b) <=> x = b /\ ((op = "put" /\ i = 4) \/ (op = "payOwn" /\ i \in {4, 5}))
  BY DEF Putting, Between
<1>7. CASE op \notin Settling \/ x # b
  <2>1. times'[b] = times[b] /\ bill'[b] = bill[b]
    BY <1>1, <1>5, <1>7 DEF Pays, Settling
  <2>2. \A j \in Worker : Putting(req'[j], b) <=> Putting(req[j], b)
    BY <1>3, <1>5, <1>6, <1>7 DEF Settling
  <2> QED
    BY <1>2, <2>1, <2>2
<1>8. CASE op \in Settling /\ x = b
  <2>1. /\ (\E j \in Worker : Putting(req[j], b)) <=> Putting(req[k], b)
        /\ (\E j \in Worker : Putting(req'[j], b)) <=> Putting(req'[k], b)
    BY <1>3, <1>4, <1>8
  <2>2. /\ times'[b] = IF op \in Pays /\ i = 3 THEN times[b] + 1 ELSE times[b]
        /\ bill'[b] = IF MarksAt(op, i) THEN Paid(k) ELSE bill[b]
    BY <1>1, <1>5, <1>8
  <2>3. CASE i = 3 /\ op \in Pays
    <3>1. bill[b] = "pending"
      BY <1>8, <2>3 DEF Unpaid, Looked, Pays
    <3>2. times[b] = 0
      BY <1>2, <1>6, <2>1, <2>3, <3>1 DEF ByWallet, Pays
    <3>3. times'[b] = 1
      BY <2>2, <2>3, <3>2
    <3>4. ByWallet(b, bill'[b]) \/ Putting(req'[k], b)
      BY <1>5, <1>8, <2>2, <2>3 DEF MarksAt, Paid, ByWallet, Pays
    <3> QED
      BY <2>1, <3>3, <3>4
  <2>4. CASE ~(i = 3 /\ op \in Pays) /\ MarksAt(op, i)
    <3>1. bill[b] = "pending"
      BY <1>8, <2>4 DEF Unpaid, Looked, Pays, MarksAt, Settling
    <3>2. times'[b] = times[b] /\ bill'[b] = Paid(k) /\ ~Putting(req'[k], b)
      BY <1>5, <2>2, <2>4 DEF MarksAt
    <3>3. CASE op = "put" /\ i = 4
      BY <1>2, <1>5, <1>6, <1>8, <2>1, <3>2, <3>3 DEF Paid, ByWallet
    <3>4. CASE op = "payOwn" /\ i = 5
      BY <1>2, <1>6, <1>8, <2>1, <3>2, <3>4 DEF Paid, ByWallet
    <3>5. CASE op = "payCard" /\ i = 2
      <4>1. b \notin Deposit /\ ~Putting(req[k], b)
        BY <1>1, <1>5, <1>6, <1>8, <3>5
      <4> QED
        BY <1>2, <1>8, <2>1, <3>1, <3>2, <3>5, <4>1 DEF Paid, ByWallet
    <3> QED
      BY <1>8, <2>4, <3>3, <3>4, <3>5 DEF MarksAt, Pays, Settling
  <2>5. CASE ~(i = 3 /\ op \in Pays) /\ ~MarksAt(op, i)
    <3>1. times'[b] = times[b] /\ bill'[b] = bill[b]
      BY <2>2, <2>5
    <3>2. Putting(req'[k], b) <=> Putting(req[k], b)
      BY <1>5, <1>6, <2>5 DEF MarksAt, Pays
    <3> QED
      BY <1>2, <2>1, <3>1, <3>2
  <2> QED
    BY <2>3, <2>4, <2>5
<1> QED
  BY <1>7, <1>8

-----------------------------------------------------------------------------
(* The invariant *)

LEMMA InitInv == Init => WalletInv
BY InitTyped, InitAllowed, InitStanding DEF WalletInv, Standing

LEMMA NextInv == InOrder /\ MortalFew /\ WalletInv /\ [Next]_vars => WalletInv'
<1> SUFFICES ASSUME InOrder, MortalFew, WalletInv, [Next]_vars PROVE WalletInv'
  OBVIOUS
<1>1. Typed /\ Allowed /\ Standing /\ TopupRows
  BY DEF WalletInv, Standing
<1>2. Typed' /\ Allowed'
  BY <1>1, NextTyped, NextAllowed
<1>3. ASSUME NEW k \in Worker, Run(k) PROVE Standing' /\ TopupRows'
  <2>1. Fresh' /\ Funded' /\ Books' /\ BillRows' /\ Unpaid' /\ TopupRows'
    BY <1>1, <1>3, RunFresh, RunFunded, RunBooks, RunBillRows, RunUnpaid, RunTopupRows DEF Standing
  <2> QED
    BY <2>1 DEF Standing
<1>4. Standing' /\ TopupRows'
  BY <1>1, <1>3, OtherStanding
<1> QED
  BY <1>2, <1>4 DEF WalletInv, Standing

LEMMA InvKept ==
  ASSUME InOrder, MortalFew
  PROVE  Spec => []WalletInv
<1>1. WalletInv /\ [Next]_vars => WalletInv'
  BY NextInv
<1> QED
  BY InitInv, <1>1, PTL DEF Spec

\* Whoever owes has changed the wallet and not booked it.
LEMMA OwingUnbooked ==
  ASSUME Typed, NEW k \in Worker, NEW w \in Wallets, Owing(req[k], w)
  PROVE  Unbooked(k, w)
<1> DEFINE op == req[k].op
           c == req[k].pc
<1>1. req[k] \in Req /\ op \in Handler /\ c \in 3 .. 6 /\ op # "credit"
  BY StandsTable, ReqFields DEF Typed, TypeOK
<1>2. op \in Op /\ c \in 1 .. Last(op) /\ AtStep(k)
  BY <1>1 DEF Handler, Op, Typed, WellFormed, AtStep, Active
<1>3. PICK i \in 1 .. c - 1 :
        ChangesAt(op, i, w) /\ \A j \in i .. c - 1 : ~BooksAt(op, j, w)
  <2>1. CASE op = "transfer" /\ w = "reseller"
    <3>1. ChangesAt(op, 3, w) /\ c \in {4, 5}
      BY <2>1 DEF ChangesAt, SetsAt, Owing
    <3>2. 3 \in 1 .. c - 1 /\ \A j \in 3 .. c - 1 : ~BooksAt(op, j, w)
      BY <2>1, <3>1 DEF BooksAt
    <3> QED
      BY <3>1, <3>2
  <2>2. CASE op = "transfer" /\ w = "tenant"
    <3>1. ChangesAt(op, 4, w) /\ c \in {5, 6}
      BY <2>2 DEF ChangesAt, SetsAt, Owing
    <3>2. 4 \in 1 .. c - 1 /\ \A j \in 4 .. c - 1 : ~BooksAt(op, j, w)
      BY <2>2, <3>1 DEF BooksAt
    <3> QED
      BY <3>1, <3>2
  <2>3. CASE op = "charge" /\ w = "reseller"
    <3>1. ChangesAt(op, 5, w) /\ c = 6
      BY <2>3 DEF ChangesAt, SetsAt, Owing
    <3>2. 5 \in 1 .. c - 1 /\ \A j \in 5 .. c - 1 : ~BooksAt(op, j, w)
      BY <2>3, <3>1 DEF BooksAt
    <3> QED
      BY <3>1, <3>2
  <2>4. CASE op = "charge" /\ w = "tenant"
    <3>1. ChangesAt(op, 2, w) /\ c = 3
      BY <2>4 DEF ChangesAt, SetsAt, Owing
    <3>2. 2 \in 1 .. c - 1 /\ \A j \in 2 .. c - 1 : ~BooksAt(op, j, w)
      BY <2>4, <3>1 DEF BooksAt
    <3> QED
      BY <3>1, <3>2
  <2>5. CASE op = "put"
    <3>1. ChangesAt(op, 3, w) /\ c \in {4, 5} /\ w = "tenant"
      BY <2>5 DEF ChangesAt, SetsAt, Owing
    <3>2. 3 \in 1 .. c - 1 /\ \A j \in 3 .. c - 1 : ~BooksAt(op, j, w)
      BY <2>5, <3>1 DEF BooksAt
    <3> QED
      BY <3>1, <3>2
  <2>6. CASE op = "payOwn"
    <3>1. ChangesAt(op, 3, w) /\ c = 4 /\ w = "tenant"
      BY <2>6 DEF ChangesAt, SetsAt, Owing
    <3>2. 3 \in 1 .. c - 1 /\ \A j \in 3 .. c - 1 : ~BooksAt(op, j, w)
      BY <2>6, <3>1 DEF BooksAt
    <3> QED
      BY <3>1, <3>2
  <2>7. CASE op = "withdraw"
    <3>1. ChangesAt(op, 3, w) /\ c = 4
      BY <2>7 DEF ChangesAt, MovesAt, Owing
    <3>2. 3 \in 1 .. c - 1 /\ \A j \in 3 .. c - 1 : ~BooksAt(op, j, w)
      BY <2>7, <3>1 DEF BooksAt
    <3> QED
      BY <3>1, <3>2
  <2> QED
    BY <2>1, <2>2, <2>3, <2>4, <2>5, <2>6, <2>7 DEF Owing
<1>4. Last(op) \in 2 .. 6
  BY <1>2, Shapes
<1>5. \A j \in 1 .. c - 1 : j \in 1 .. Last(op)
  BY <1>2, <1>4
<1>6. Set(w) \in Program[op][i] \/ Move(w) \in Program[op][i]
  BY <1>2, <1>3, <1>5, StepTable DEF ChangesAt
<1>7. \A j \in i .. c - 1 : Book(w) \notin Program[op][j]
  <2> SUFFICES ASSUME NEW j \in i .. c - 1 PROVE Book(w) \notin Program[op][j]
    OBVIOUS
  <2>1. j \in 1 .. Last(op) /\ ~BooksAt(op, j, w)
    BY <1>1, <1>3, <1>5
  <2> QED
    BY <1>2, <2>1, StepTable
<1> QED
  BY <1>2, <1>3, <1>6, <1>7 DEF Unbooked

\* Where conflicting handlers do not overlap and none dies with open books,
\* the balance of a wallet is what its rows add up to, but for the bonuses of the
\* deposits that were paid in and the bills that the reseller has paid.
THEOREM BooksBalance ==
  ASSUME InOrder, MortalFew
  PROVE  Spec => []BalanceIsBooked
<1>1. WalletInv => BalanceIsBooked
  <2> SUFFICES ASSUME WalletInv, NEW w \in Wallets, \A k \in Worker : ~Unbooked(k, w)
               PROVE  balance[w] = booked[w] + Unrowed(w)
    BY DEF BalanceIsBooked
  <2>1. \A k \in Worker : ~Owing(req[k], w)
    BY OwingUnbooked DEF WalletInv
  <2> QED
    BY <2>1 DEF WalletInv, Books
<1>2. Spec => []WalletInv
  BY InvKept
<1> QED
  BY <1>1, <1>2, PTL

\* Money moves once for a row, whatever confirms it, and how often.
THEOREM RowsOnce ==
  ASSUME InOrder, MortalFew
  PROVE  Spec => []OncePerRow
<1>1. WalletInv => OncePerRow
  <2> SUFFICES ASSUME WalletInv PROVE OncePerRow
    OBVIOUS
  <2>1. \A r \in Row : r \in Topup \/ r \in Bill
    BY DEF Row
  <2>2. TopupRows /\ BillRows /\ Typed
    BY DEF WalletInv
  <2>3. \A r \in Row : times[r] \in {0, 1}
    BY <2>1, <2>2 DEF TopupRows, BillRows
  <2>4. ASSUME NEW b \in Bill, bill[b] # "pending"
        PROVE  times[b] = IF b \in Invoice /\ bill[b] = "card" THEN 0 ELSE 1
    <3>1. /\ bill[b] \in {"card", "reseller", "own"}
          /\ b \in Deposit <=> b \notin Invoice
      BY <2>2, <2>4, RowAssumption DEF Typed, TypeOK, Bill
    <3>2. \A k \in Worker : ~Putting(req[k], b)
      <4> SUFFICES ASSUME NEW k \in Worker, Putting(req[k], b) PROVE FALSE
        OBVIOUS
      <4>1. Looked(req[k]) /\ req[k].row = b
        BY DEF Putting, Between, Looked
      <4> QED
        BY <2>4, <4>1 DEF WalletInv, Unpaid
    <3>3. times[b] = IF ByWallet(b, bill[b]) THEN 1 ELSE 0
      BY <2>2, <3>2 DEF BillRows
    <3> QED
      BY <3>1, <3>3 DEF ByWallet
  <2> QED
    BY <2>2, <2>3, <2>4 DEF OncePerRow, TopupRows
<1>2. Spec => []WalletInv
  BY InvKept
<1> QED
  BY <1>1, <1>2, PTL

\* A reseller never spends more than the wallet holds.
THEOREM StaysCovered ==
  ASSUME InOrder, MortalFew
  PROVE  Spec => []NeverOverdrawn
<1>1. WalletInv => NeverOverdrawn
  BY DEF WalletInv, Funded, NeverOverdrawn
<1>2. Spec => []WalletInv
  BY InvKept
<1> QED
  BY <1>1, <1>2, PTL

-----------------------------------------------------------------------------
(* Statement by statement, the wallets are the ledger *)

SettledRows == {r \in Row : times[r] > 0}

LEMMA LedgerInit == Init => L!Init
BY DEF Init, L!Init

\* Only one wallet changes at a step.
LEMMA OneAtATime ==
  ASSUME NEW op \in Op, NEW i \in 1 .. Last(op), NEW v \in Wallets, NEW w \in Wallets,
         ChangesAt(op, i, v), ChangesAt(op, i, w)
  PROVE  v = w
BY DEF ChangesAt, SetsAt, MovesAt, Wallets

\* A row that is settled now was not settled before.
LEMMA SettleRow ==
  ASSUME Typed, NEW x \in Row, times[x] = 0, times' = [times EXCEPT ![x] = @ + 1]
  PROVE  L!Settle(x)
<1>1. times \in [Row -> Nat]
  BY DEF Typed, TypeOK
<1>2. \A r \in Row : times'[r] > 0 <=> times[r] > 0 \/ r = x
  BY <1>1
<1>3. {r \in Row : times'[r] > 0} = {r \in Row : times[r] > 0} \cup {x}
  BY <1>2
<1> QED
  BY <1>3 DEF L!Settle

\* One wallet moves by d, in or out.
LEMMA MoveOne ==
  ASSUME Typed, balance' \in [Wallets -> Int], NEW w \in Wallets, NEW a \in Nat,
         \A v \in Wallets \ {w} : balance'[v] = balance[v]
  PROVE  /\ balance'[w] = balance[w] + a => L!Earn(w, a)
         /\ balance'[w] = balance[w] - a /\ (w = "reseller" => balance[w] >= a) => L!Spend(w, a)
<1>1. balance \in [Wallets -> Int]
  BY DEF Typed, TypeOK
<1>2. balance'[w] = balance[w] + a => balance' = [balance EXCEPT ![w] = @ + a]
  BY <1>1
<1>3. balance'[w] = balance[w] - a => balance' = [balance EXCEPT ![w] = @ - a]
  BY <1>1
<1> QED
  BY <1>2, <1>3 DEF L!Earn, L!Spend

LEMMA SettledStep ==
  ASSUME NEW w \in Wallets, NEW a \in {Price, Price + Bonus, Commission}, NEW r \in Row,
         L!Settle(r), L!Earn(w, a) \/ L!Spend(w, a)
  PROVE  L!Next
BY DEF L!Next

LEMMA ReceiptLedger ==
  ASSUME Typed, TopupRows, NEW t \in Topup, topup[t] # "approved", Approved(t)
  PROVE  L!Next
<1>1. t \in Row /\ times[t] = 0 /\ "reseller" \in Wallets /\ Price \in Nat
  BY AmountAssumption DEF TopupRows, Row, Wallets
<1>2. L!Settle(t)
  BY <1>1, SettleRow DEF Approved
<1>3. balance' = [balance EXCEPT !["reseller"] = @ + Price]
  BY DEF Approved
<1>4. L!Earn("reseller", Price)
  BY <1>3 DEF L!Earn
<1> QED
  BY <1>1, <1>2, <1>4 DEF L!Next

LEMMA RunLedger ==
  ASSUME InOrder, WalletInv, NEW k \in Worker, Run(k)
  PROVE  L!Next \/ UNCHANGED <<balance, SettledRows>>
<1> DEFINE op == req[k].op
           i == req[k].pc
           x == req[k].row
<1>0. Typed /\ Allowed /\ Fresh /\ Funded /\ Unpaid /\ BillRows
  BY DEF WalletInv
<1>1. /\ op \in Op /\ i \in 1 .. Last(op) /\ i \in Int
      /\ balance \in [Wallets -> Int] /\ balance' \in [Wallets -> Int]
      /\ Price \in Nat /\ Bonus \in Nat /\ Commission \in Nat
      /\ "reseller" \in Wallets /\ "tenant" \in Wallets
  <2>1. op \in Op /\ i \in 1 .. Last(op) /\ balance' \in [Wallets -> Int]
    BY <1>0, RunEffect
  <2> QED
    BY <1>0, <2>1, Shapes, AmountAssumption DEF Typed, TypeOK, Wallets
<1>2. \A w \in Wallets :
        balance'[w] = IF ChangesAt(op, i, w) THEN balance[w] + Delta(op, w) ELSE balance[w]
  BY <1>0, RunBalance
<1>3. times' = IF op \in Pays /\ i = 3 THEN [times EXCEPT ![x] = @ + 1] ELSE times
  BY <1>0, RunRow
<1>4. CASE \A w \in Wallets : ~ChangesAt(op, i, w)
  <2>1. balance' = balance
    BY <1>1, <1>2, <1>4
  <2>2. ~(op \in Pays /\ i = 3)
    BY <1>1, <1>4 DEF ChangesAt, SetsAt, MovesAt, Pays
  <2> QED
    BY <1>3, <2>1, <2>2 DEF SettledRows
<1>5. ASSUME NEW w \in Wallets, ChangesAt(op, i, w) PROVE L!Next
  <2>1. /\ \A v \in Wallets \ {w} : balance'[v] = balance[v]
        /\ balance'[w] = balance[w] + Delta(op, w) /\ balance[w] \in Int
    <3>1. \A v \in Wallets \ {w} : ~ChangesAt(op, i, v)
      BY <1>1, <1>5, OneAtATime
    <3> QED
      BY <1>1, <1>2, <1>5, <3>1
  <2>2. \A a \in Nat :
          /\ Delta(op, w) = a => L!Earn(w, a)
          /\ Delta(op, w) = -a /\ (w = "reseller" => balance[w] >= a) => L!Spend(w, a)
    <3> SUFFICES ASSUME NEW a \in Nat
                 PROVE  /\ Delta(op, w) = a => L!Earn(w, a)
                        /\ Delta(op, w) = -a /\ (w = "reseller" => balance[w] >= a) => L!Spend(w, a)
      OBVIOUS
    <3>1. Delta(op, w) = -a => balance'[w] = balance[w] - a
      BY <2>1
    <3> QED
      BY <1>0, <1>1, <2>1, <3>1, MoveOne
  <2>3. op \in Spends /\ w = "reseller" => balance[w] >= Price
    BY <1>0, <1>1, <1>5, ChangeTable DEF Funded
  <2>4. CASE op \in Pays
    <3>1. /\ i = 3
          /\ op = "put" => w = "tenant" /\ Delta(op, w) = Price + Bonus
          /\ op = "payInvoice" => w = "reseller" /\ Delta(op, w) = -Price
          /\ op = "payOwn" => w = "tenant" /\ Delta(op, w) = -Price
      BY <1>1, <1>5, <2>4 DEF ChangesAt, SetsAt, MovesAt, Delta, Pays
    <3>2. x \in Bill /\ x \in Row /\ times' = [times EXCEPT ![x] = @ + 1]
      BY <1>0, <1>3, <2>4, <3>1, RunRow DEF Row, Pays, Settling
    <3>3. bill[x] = "pending"
      BY <1>0, <2>4, <3>1 DEF Unpaid, Looked, Pays
    <3>4. ASSUME NEW j \in Worker, Putting(req[j], x) PROVE FALSE
      <4>1. Active(j) /\ req[j].op \in Settling /\ req[j].pc # 3
        BY <3>4 DEF Putting, Between, Active, Settling
      <4>2. j # k
        BY <3>1, <4>1
      <4> QED
        BY <1>0, <1>1, <2>4, <4>1, <4>2, BesideRun DEF Pays, Settling
    <3>5. times[x] = 0
      BY <1>0, <3>2, <3>3, <3>4 DEF BillRows, ByWallet
    <3>6. PICK r \in Row : L!Settle(r)
      <4>1. PICK r \in Row : r = x
        BY <3>2
      <4>2. times[r] = 0 /\ times' = [times EXCEPT ![r] = @ + 1]
        BY <3>2, <3>5, <4>1
      <4>3. L!Settle(r)
        BY <1>0, <4>2, SettleRow
      <4> QED
        BY <4>3
    <3>7. CASE op = "put"
      <4>1. Price + Bonus \in Nat
        BY <1>1
      <4>2. L!Earn(w, Price + Bonus)
        BY <2>2, <3>1, <3>7, <4>1
      <4> QED
        BY <3>6, <4>2, SettledStep
    <3>8. CASE op = "payInvoice"
      <4>1. L!Spend(w, Price)
        BY <1>1, <2>2, <2>3, <3>1, <3>8 DEF Spends
      <4> QED
        BY <3>6, <4>1, SettledStep
    <3>9. CASE op = "payOwn"
      <4>1. L!Spend(w, Price)
        BY <1>1, <2>2, <3>1, <3>9
      <4> QED
        BY <3>6, <4>1, SettledStep
    <3> QED
      BY <2>4, <3>7, <3>8, <3>9 DEF Pays
  <2>5. CASE op \notin Pays
    <3>1. UNCHANGED SettledRows
      BY <1>3, <2>5 DEF SettledRows
    <3>2. CASE op \in {"transfer", "withdraw", "purchase"} /\ w = "reseller"
      <4>1. Delta(op, w) = -Price /\ op \in Spends
        BY <3>2 DEF Delta, Spends
      <4>2. L!Spend(w, Price)
        BY <1>1, <2>2, <2>3, <3>2, <4>1
      <4> QED
        BY <3>1, <4>2 DEF L!Next, SettledRows
    <3>3. CASE op = "transfer" /\ w = "tenant"
      <4>1. Delta(op, w) = Price
        BY <3>3 DEF Delta
      <4>2. L!Earn(w, Price)
        BY <1>1, <2>2, <4>1
      <4>3. Price \in [v \in Wallets |-> IF v = "reseller" THEN {Commission} ELSE {Price}][w]
        BY <3>3
      <4> QED
        BY <3>1, <4>2, <4>3 DEF L!Next, SettledRows
    <3>4. CASE op = "charge" /\ w = "tenant"
      <4>1. Delta(op, w) = -Price
        BY <3>4 DEF Delta
      <4>2. L!Spend(w, Price)
        BY <1>1, <2>2, <3>4, <4>1
      <4> QED
        BY <3>1, <4>2 DEF L!Next, SettledRows
    <3>5. CASE op = "charge" /\ w = "reseller"
      <4>1. Delta(op, w) = Commission
        BY <3>5 DEF Delta
      <4>2. L!Earn(w, Commission)
        BY <1>1, <2>2, <4>1
      <4>3. Commission \in [v \in Wallets |-> IF v = "reseller" THEN {Commission} ELSE {Price}][w]
        BY <3>5
      <4> QED
        BY <3>1, <4>2, <4>3 DEF L!Next, SettledRows
    <3> QED
      BY <1>1, <1>5, <2>5, <3>2, <3>3, <3>4, <3>5 DEF Op, Settling, Pays, Wallets, ChangesAt, SetsAt, MovesAt
  <2> QED
    BY <2>4, <2>5
<1> QED
  BY <1>4, <1>5

LEMMA StepLedger ==
  ASSUME InOrder, WalletInv, [Next]_vars
  PROVE  L!Next \/ UNCHANGED <<balance, SettledRows>>
<1>1. Typed /\ TopupRows
  BY DEF WalletInv
<1>2. ASSUME NEW t \in Topup, Approve(t) PROVE L!Next
  BY <1>1, <1>2, ReceiptLedger DEF Approve
<1>3. ASSUME NEW k \in Worker, Credit(k) PROVE L!Next \/ UNCHANGED <<balance, SettledRows>>
  <2>1. req[k].op = "credit" /\ req[k].pc = 2
    BY <1>3 DEF Credit
  <2>2. req[k].row \in Topup
    BY <1>1, <2>1 DEF Typed, WellFormed, RowsOf
  <2>3. CASE Creditable(req[k].row) /\ Approved(req[k].row)
    <3>1. topup[req[k].row] # "approved"
      BY <2>3 DEF Creditable
    <3> QED
      BY <1>1, <2>2, <2>3, <3>1, ReceiptLedger
  <2>4. CASE UNCHANGED <<money, topup, times>>
    BY <2>4 DEF money, SettledRows
  <2> QED
    BY <1>3, <2>3, <2>4 DEF Credit
<1>4. ASSUME NEW k \in Worker, Run(k) PROVE L!Next \/ UNCHANGED <<balance, SettledRows>>
  BY <1>4, RunLedger
<1>5. ASSUME UNCHANGED <<balance, times>> PROVE UNCHANGED <<balance, SettledRows>>
  BY <1>5 DEF SettledRows
<1>6. ASSUME NEW t \in Topup, AskTransfer(t) \/ AskCard(t) \/ CardPaid(t) \/ Reject(t)
      PROVE  UNCHANGED <<balance, times>>
  BY <1>6 DEF AskTransfer, AskCard, CardPaid, Reject, money
<1>7. ASSUME NEW k \in Worker, Fulfil(k) \/ Refuse(k) \/ Die(k)
      PROVE  UNCHANGED <<balance, times>>
  BY <1>7 DEF Fulfil, Refuse, Die, money
<1>8. ASSUME NEW k \in Worker,
             \/ \E t \in Topup : Notify(k, t)
             \/ \E op \in Op, x \in Row \cup {NoRow} : Begin(k, op, x)
      PROVE  UNCHANGED <<balance, times>>
  BY <1>8 DEF Notify, Begin, money
<1>9. CASE UNCHANGED vars
  BY <1>5, <1>9 DEF vars
<1>10. CASE Next
  BY <1>2, <1>3, <1>4, <1>5, <1>6, <1>7, <1>8, <1>10 DEF Next
<1> QED
  BY <1>9, <1>10

\* Where conflicting handlers do not overlap and none dies with open books, the
\* wallets are the ledger: no statement writes over another's.
THEOREM IsLedger ==
  ASSUME InOrder, MortalFew
  PROVE  Spec => LedgerSpec
<1>1. WalletInv /\ [Next]_vars => [L!Next]_<<balance, SettledRows>>
  BY StepLedger
<1>2. [L!Next]_<<balance, SettledRows>> => [L!Next]_<<balance, {r \in Row : times[r] > 0}>>
  BY DEF SettledRows
<1>3. Spec => []WalletInv
  BY InvKept
<1> QED
  BY LedgerInit, <1>1, <1>2, <1>3, PTL DEF Spec, LedgerSpec, L!Spec
=============================================================================
