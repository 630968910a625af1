------------------------------ MODULE MCPayments ------------------------------
(***************************************************************************)
(* The payment protocol for TLC, in two environments (may): every class of  *)
(* fault and no fairness, for what must never happen; and lost messages     *)
(* only, fewer than there are retries, under fairness, for what must.       *)
(***************************************************************************)
EXTENDS MCInterbankPayment

CONSTANTS NetRetries, NetFaults   \* the bounds of the second one

VARIABLE may

Net == INSTANCE InterbankPayment WITH Faults <- NetOnly, MaxFaults <- NetFaults,
                                      MaxRetries <- NetRetries

PaymentsInit == may \in {"anything", "loss"} /\ IF may = "loss" THEN Net!Init ELSE Init

Anything == may = "anything" /\ Next /\ UNCHANGED may
Loss == may = "loss" /\ Net!Next /\ UNCHANGED may

PaymentsSpec ==
  /\ PaymentsInit /\ [][Anything \/ Loss]_<<vars, may>>
  /\ (may = "loss") => Net!Fairness

\* A payment the sender's bank committed reaches the recipient, although
\* messages are lost: the scheduler resends COMMIT_TX until the partner has
\* committed too (RetryScheduler.tryOnce).
LossIsMadeGood ==
  \A t \in Tx : (may = "loss" /\ rowA[t] = "COMMITTED") ~> (credits[t] > 0 /\ rowB[t] = "COMMITTED")

\* Where messages may be lost, the two ledgers; elsewhere nothing is claimed.
LossPlace == [t \in Tx |-> IF may = "loss" THEN Place(t) ELSE "sender"]

LossPromise == INSTANCE MoneyPromise WITH place <- LossPlace

\* With lost requests and answers only, and fewer of them than retries, the
\* two-phase commit with its resends implements MoneyPromise: money is taken
\* once, then delivered once, and what was taken is delivered.
KeepsPromise == LossPromise!FairSpec
==============================================================================
