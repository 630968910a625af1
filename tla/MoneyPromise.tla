----------------------------- MODULE MoneyPromise -----------------------------
(***************************************************************************)
(* What a cross-bank payment promises about its money: the amount is with  *)
(* the sender, then in transit between the banks, then with the recipient, *)
(* in this order, once; and money that was taken does arrive.              *)
(***************************************************************************)
CONSTANT Tx

VARIABLE place   \* [Tx -> {"sender", "transit", "recipient"}]

Init == place = [t \in Tx |-> "sender"]

\* CommitLocal at the sender's bank.
Take(t) == place[t] = "sender" /\ place' = [place EXCEPT ![t] = "transit"]

\* CommitLocal at the recipient's bank.
Deliver(t) == place[t] = "transit" /\ place' = [place EXCEPT ![t] = "recipient"]

Next == \E t \in Tx : Take(t) \/ Deliver(t)

Spec == Init /\ [][Next]_place

FairSpec == Spec /\ \A t \in Tx : WF_place(Deliver(t))
==============================================================================
