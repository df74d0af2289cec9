-------------------------------- MODULE Ledger --------------------------------
(***************************************************************************)
(* What the wallets promise, whatever the statements the handlers are made *)
(* of: money moves in one wallet at a time, by an amount somebody asked    *)
(* for; what comes in settles a row that stands for it, and no row twice,  *)
(* unless it is an amount that the wallet earns without one; and the       *)
(* reseller never spends more than there is.                               *)
(***************************************************************************)
EXTENDS Integers

CONSTANTS Wallets, Row, Amounts, Opening,
          Plain     \* what a wallet earns without a row, for each wallet

VARIABLES balance, settled

Init ==
  /\ balance = [w \in Wallets |-> IF w = "reseller" THEN Opening ELSE 0]
  /\ settled = {}

Earn(w, a) == balance' = [balance EXCEPT ![w] = @ + a]

Spend(w, a) ==
  /\ w = "reseller" => balance[w] >= a
  /\ balance' = [balance EXCEPT ![w] = @ - a]

Settle(r) == r \notin settled /\ settled' = settled \cup {r}

Next ==
  \E w \in Wallets, a \in Amounts :
    \/ Earn(w, a) /\ a \in Plain[w] /\ UNCHANGED settled
    \/ Spend(w, a) /\ UNCHANGED settled
    \/ \E r \in Row : Settle(r) /\ (Earn(w, a) \/ Spend(w, a))

Spec == Init /\ [][Next]_<<balance, settled>>
=============================================================================
