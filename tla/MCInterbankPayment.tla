-------------------------- MODULE MCInterbankPayment --------------------------
(* Small instances of InterbankPayment for TLC. *)
EXTENDS InterbankPayment

CONSTANTS t1, acct

OneTx == {t1}
Accounts == {acct}
OneSrc == [t \in OneTx |-> acct]
OneAmt == [t \in OneTx |-> 2]
Opening == [a \in Accounts |-> 3]
NetOnly == {"net"}
CallOnly == {"call"}
CrashOnly == {"crash"}
AllFaults == FaultClass
==============================================================================
