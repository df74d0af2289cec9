------------------------------- MODULE MCWallet -------------------------------
EXTENDS Wallet
CONSTANTS t1, t2, d1, i1, k1, k2

MCTopup == {t1, t2}
MCDeposit == {d1}
MCInvoice == {i1}
MCWorker == {k1, k2}

\* The handlers that only ever commit once, and the gateway's notifications.
MCMortal == {"credit", "payInvoice", "payCard", "purchase"}
=============================================================================
