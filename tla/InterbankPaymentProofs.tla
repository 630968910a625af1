------------------------ MODULE InterbankPaymentProofs ------------------------
(***************************************************************************)
(* Machine-checked proofs about InterbankPayment and the ledger it extends, *)
(* for every set of accounts and payments, every balance, every number of  *)
(* retries and attempts, and any number of faults of every class.          *)
(*                                                                         *)
(* The protocol.  IndInv is a conjunction over payments of TxInv, and an    *)
(* action touches one payment.  So the proof has one lemma per part of      *)
(* TxInv, with a step per action, for the payment that moves, and one       *)
(* lemma (Elsewhere) for the others.                                        *)
(*                                                                         *)
(* The ledger.  Its types and Backed are inductive, one lemma per           *)
(* operation.                                                               *)
(*                                                                         *)
(* The payment on the ledger.  The sender's ledger stays backed under all   *)
(* faults; and when requests and answers get lost but no call, process or   *)
(* handler fails, the payment implements MoneyPromise (its safety part).    *)
(***************************************************************************)
EXTENDS InterbankPayment, SumTheorems

USE LedgerAssumption, PaymentAssumption

\* All the actions of one payment.
Step(t) ==
    \/ Coordinator(t)
    \/ \E k \in Kind : Scheduler(t, k)
    \/ \E k \in Kind, i \in Attempt : Handler(t, k, i)
    \/ CoordinatorCrash(t)
    \/ \E k \in Kind, i \in Attempt : RequestLost(t, k, i) \/ HandlerDies(t, k, i)

\* Payment s is left alone.
Same(s) ==
    /\ pc'[s] = pc[s] /\ vote'[s] = vote[s] /\ result'[s] = result[s] /\ rowA'[s] = rowA[s]
    /\ rowB'[s] = rowB[s] /\ credits'[s] = credits[s] /\ hist'[s] = hist[s] /\ resv'[s] = resv[s]
    /\ out'[s] = out[s] /\ resending'[s] = resending[s] /\ cache'[s] = cache[s]
    /\ att'[s] = att[s] /\ hpc'[s] = hpc[s] /\ hres'[s] = hres[s]

\* Every step is a step of one transaction.
LEMMA NextIsStep == Next => \E t \in Tx : Step(t)
  BY DEF Next, Step, Crash

------------------------------------------------------------------------------
(* Types. *)

\* A fault is counted within its bound.
LEMMA FaultTypes == ASSUME TypeOK, NEW f, Fault(f) PROVE nf' \in 0..MaxFaults
  BY DEF TypeOK, Fault

\* So is a call that is not answered.
LEMMA CallTypes == ASSUME TypeOK, NEW o, Call(o) PROVE nf' \in 0..MaxFaults
  BY FaultTypes DEF TypeOK, Call

\* The ledger calls keep the type of the ledger.
LEMMA ReserveTypes == ASSUME LedgerTypeOK, NEW t \in Tx, ReserveMonas(t) PROVE LedgerTypeOK'
  BY DEF LedgerTypeOK, ReserveMonas, ResvStatus

\* The same for the commit of a reservation.
LEMMA CommitTypes == ASSUME LedgerTypeOK, NEW t \in Tx, CommitReservation(t) PROVE LedgerTypeOK'
  BY DEF LedgerTypeOK, CommitReservation, ResvStatus

\* The same for its release.
LEMMA ReleaseTypes == ASSUME LedgerTypeOK, NEW t \in Tx, NEW o, Release(t, o) PROVE LedgerTypeOK'
  BY DEF LedgerTypeOK, Release, ReleaseReservation, ResvStatus, ledgerVars

\* A field of a function of functions changes.
LEMMA Update2 ==
  ASSUME NEW S, NEW f \in [Tx -> [Kind -> S]], NEW t \in Tx, NEW k \in Kind, NEW v \in S
  PROVE  [f EXCEPT ![t][k] = v] \in [Tx -> [Kind -> S]]
  OBVIOUS

\* The same one level down.
LEMMA Update3 ==
  ASSUME NEW S, NEW f \in [Tx -> [Kind -> [Attempt -> S]]],
         NEW t \in Tx, NEW k \in Kind, NEW i \in Attempt, NEW v \in S
  PROVE  [f EXCEPT ![t][k][i] = v] \in [Tx -> [Kind -> [Attempt -> S]]]
  OBVIOUS

\* The outbox row that is marked keeps its type.
LEMMA MarkSentTypes ==
  ASSUME TypeOK, NEW t \in Tx, NEW k \in Kind, NEW o, MarkSent(t, k, o)
  PROVE  out' \in [Tx -> [Kind -> OutStatus]]
  BY Update2 DEF TypeOK, MarkSent, Seen, OutStatus

\* A message that is sent keeps the types.
LEMMA SendTypes ==
  ASSUME TypeOK, NEW t \in Tx, NEW k \in Kind, NEW o \in Outcome, Send(t, k, o)
  PROVE  /\ out' \in [Tx -> [Kind -> OutStatus]]
         /\ att' \in [Tx -> [Kind -> 0..MaxAttempts]]
         /\ hpc' \in [Tx -> [Kind -> [Attempt -> HandlerPC]]]
         /\ nf' \in 0..MaxFaults
         /\ UNCHANGED <<tries, resending, hres>>
  BY DEF TypeOK, Send, Call, Fault, Seen, Effect, OutStatus, HandlerPC, Attempt

\* Every step keeps the types.
LEMMA TypeStep ==
  ASSUME TypeOK, NEW t \in Tx, Step(t)
  PROVE  TypeOK'
<1>1. CASE PrepareValidate(t)
  <2>1. nf' \in 0..MaxFaults
    BY <1>1, CallTypes, FaultTypes DEF PrepareValidate, TypeOK
  <2>2. pc' \in [Tx -> CoordPC] /\ result' \in [Tx -> {"none", "ok", "error"}]
    BY <1>1 DEF PrepareValidate, TypeOK, Goto, Return, CoordPC
  <2> QED BY <1>1, <2>1, <2>2 DEF PrepareValidate, TypeOK, LedgerTypeOK, ledgerVars, partnerVars, outVars
<1>2. CASE PrepareReserve(t)
  <2>1. nf' \in 0..MaxFaults
    BY <1>2, CallTypes, FaultTypes DEF PrepareReserve, TypeOK
  <2>2. pc' \in [Tx -> CoordPC] /\ result' \in [Tx -> {"none", "ok", "error"}]
    BY <1>2 DEF PrepareReserve, TypeOK, Goto, Return, CoordPC
  <2>3. LedgerTypeOK'
    BY <1>2, ReserveTypes DEF TypeOK, LedgerTypeOK, PrepareReserve, ledgerVars
  <2> QED BY <1>2, <2>1, <2>2, <2>3 DEF PrepareReserve, TypeOK, partnerVars, outVars
<1>3. CASE PreparePersist(t)
    BY <1>3 DEF TypeOK, LedgerTypeOK, Call, Fault, Seen, Effect, Outcome, ledgerVars, coordVars,
           outVars, partnerVars, Goto, Return, PreparePersist, CoordPC, RowStatus
<1>4. CASE PrepareCompensate(t)
  <2>1. nf' \in 0..MaxFaults
    BY <1>4, CallTypes, FaultTypes DEF PrepareCompensate, TypeOK
  <2>2. pc' \in [Tx -> CoordPC] /\ result' \in [Tx -> {"none", "ok", "error"}]
    BY <1>4 DEF PrepareCompensate, TypeOK, Goto, Return, CoordPC
  <2>3. LedgerTypeOK'
    BY <1>4, ReleaseTypes DEF TypeOK, PrepareCompensate
  <2> QED BY <1>4, <2>1, <2>2, <2>3 DEF PrepareCompensate, TypeOK, partnerVars, outVars
<1>5. CASE SendNewTx(t)
  <2>1. PICK o \in Outcome : Send(t, "NEW_TX", o)
    BY <1>5 DEF SendNewTx
  <2>2. pc' \in [Tx -> CoordPC] /\ result' \in [Tx -> {"none", "ok", "error"}]
    BY <1>5 DEF SendNewTx, TypeOK, Goto, Return, Seen, CoordPC
  <2>3. vote' \in [Tx -> Answer \cup {"none"}]
    BY <1>5 DEF SendNewTx, TypeOK, Seen, Answer
  <2> QED BY <1>5, <2>1, <2>2, <2>3, SendTypes DEF SendNewTx, TypeOK, LedgerTypeOK, ledgerVars, partnerVars, Kind
<1>6. CASE ReceiveVote(t)
  <2>1. nf' \in 0..MaxFaults
    BY <1>6, CallTypes, FaultTypes DEF ReceiveVote, AfterVote, TypeOK
  <2>2. pc' \in [Tx -> CoordPC]
    BY <1>6 DEF TypeOK, ReceiveVote, AfterVote, Goto, CoordPC
  <2>3. out' \in [Tx -> [Kind -> OutStatus]]
    BY <1>6, MarkSentTypes DEF ReceiveVote, AfterVote, TypeOK, Kind
  <2>4. vote' \in [Tx -> Answer \cup {"none"}]
    BY <1>6 DEF ReceiveVote, AfterVote, TypeOK, Kind, Attempt
  <2> QED BY <1>6, <2>1, <2>2, <2>3, <2>4 DEF ReceiveVote, AfterVote, TypeOK, LedgerTypeOK, ledgerVars, partnerVars
<1>7. CASE VoteTimeout(t)
  <2>1. nf' \in 0..MaxFaults
    BY <1>7, FaultTypes DEF VoteTimeout, GiveUp, TypeOK
  <2>2. pc' \in [Tx -> CoordPC]
    BY <1>7 DEF VoteTimeout, TypeOK, Goto, CoordPC
  <2>3. vote' \in [Tx -> Answer \cup {"none"}]
    BY <1>7 DEF VoteTimeout, TypeOK, Answer
  <2> QED BY <1>7, <2>1, <2>2, <2>3 DEF VoteTimeout, TypeOK, LedgerTypeOK, ledgerVars, partnerVars, outVars
<1>8. CASE CommitRef(t)
  <2>1. nf' \in 0..MaxFaults
    BY <1>8, CallTypes, FaultTypes DEF CommitRef, AfterCommitRef, TypeOK
  <2>2. PICK l \in CoordPC : Goto(t, l)
    BY <1>8 DEF CommitRef, AfterCommitRef, CoordPC
  <2>3. LedgerTypeOK'
    BY <1>8, CommitTypes DEF TypeOK, LedgerTypeOK, CommitRef, AfterCommitRef, ledgerVars
  <2> QED BY <1>8, <2>1, <2>2, <2>3 DEF Goto, CommitRef, AfterCommitRef, TypeOK, partnerVars, outVars
<1>9. CASE CommitStatus(t)
    BY <1>9 DEF TypeOK, LedgerTypeOK, Call, Fault, Seen, Effect, Outcome, ledgerVars, coordVars,
           outVars, partnerVars, Goto, Return, CommitStatus, AfterCommitStatus, CoordPC, RowStatus
<1>10. CASE CommitFailStatus(t)
    BY <1>10 DEF TypeOK, LedgerTypeOK, Call, Fault, Seen, Effect, Outcome, ledgerVars,
           coordVars, outVars, partnerVars, Goto, Return, CommitFailStatus, CoordPC, RowStatus
<1>11. CASE RecordOutbound(t)
    BY <1>11, SMTT(30) DEF TypeOK, LedgerTypeOK, Call, Fault, Seen, Effect, Outcome, ledgerVars,
           coordVars, outVars, partnerVars, Goto, Return, RecordOutbound, CoordPC
<1>12. CASE SendCommitTx(t)
  <2>1. PICK o \in Outcome : Send(t, "COMMIT_TX", o)
    BY <1>12 DEF SendCommitTx
  <2>2. pc' \in [Tx -> CoordPC] /\ result' \in [Tx -> {"none", "ok", "error"}]
    BY <1>12 DEF SendCommitTx, TypeOK, Goto, Return, Seen, CoordPC
  <2> QED BY <1>12, <2>1, <2>2, SendTypes DEF SendCommitTx, TypeOK, LedgerTypeOK, ledgerVars, partnerVars, Kind
<1>13. CASE RollbackRelease(t)
  <2>1. nf' \in 0..MaxFaults
    BY <1>13, CallTypes, FaultTypes DEF RollbackRelease, TypeOK
  <2>2. pc' \in [Tx -> CoordPC] /\ result' \in [Tx -> {"none", "ok", "error"}]
    BY <1>13 DEF RollbackRelease, TypeOK, Goto, Return, CoordPC
  <2>3. LedgerTypeOK'
    BY <1>13, ReleaseTypes DEF TypeOK, LedgerTypeOK, RollbackRelease, ledgerVars
  <2> QED BY <1>13, <2>1, <2>2, <2>3 DEF RollbackRelease, TypeOK, partnerVars, outVars
<1>14. CASE RollbackStatus(t)
  <2>1. nf' \in 0..MaxFaults
    BY <1>14, CallTypes, FaultTypes DEF RollbackStatus, TypeOK
  <2>2. pc' \in [Tx -> CoordPC] /\ result' \in [Tx -> {"none", "ok", "error"}]
    BY <1>14 DEF RollbackStatus, TypeOK, Goto, Return, CoordPC
  <2>3. rowA' \in [Tx -> RowStatus]
    BY <1>14 DEF TypeOK, RollbackStatus, RowStatus
  <2> QED BY <1>14, <2>1, <2>2, <2>3 DEF RollbackStatus, TypeOK, LedgerTypeOK, ledgerVars, partnerVars, outVars
<1>15. CASE SendRollbackTx(t)
  <2>1. PICK o \in Outcome : Send(t, "ROLLBACK_TX", o)
    BY <1>15 DEF SendRollbackTx
  <2>2. pc' \in [Tx -> CoordPC] /\ result' \in [Tx -> {"none", "ok", "error"}]
    BY <1>15 DEF SendRollbackTx, TypeOK, Goto, Return, Seen, CoordPC
  <2> QED BY <1>15, <2>1, <2>2, SendTypes DEF SendRollbackTx, TypeOK, LedgerTypeOK, ledgerVars, partnerVars, Kind
<1>16. CASE ReceiveAck(t)
  <2>1. nf' \in 0..MaxFaults
    BY <1>16, CallTypes, FaultTypes DEF ReceiveAck, TypeOK
  <2>2. pc' \in [Tx -> CoordPC] /\ result' \in [Tx -> {"none", "ok", "error"}]
    BY <1>16 DEF ReceiveAck, TypeOK, Goto, Return, CoordPC
  <2>3. out' \in [Tx -> [Kind -> OutStatus]]
    BY <1>16, MarkSentTypes DEF ReceiveAck, TypeOK, WaitKind, Kind
  <2> QED BY <1>16, <2>1, <2>2, <2>3 DEF ReceiveAck, TypeOK, LedgerTypeOK, ledgerVars, partnerVars
<1>17. CASE AckTimeout(t)
    BY <1>17 DEF TypeOK, LedgerTypeOK, Call, Fault, Seen, Effect, Outcome, ledgerVars,
           coordVars, outVars, partnerVars, Goto, Return, AckTimeout, CoordPC, GiveUp, WaitKind
<1>18. ASSUME NEW k \in Kind, Resend(t, k) PROVE TypeOK'
  <2>1. nf' \in 0..MaxFaults
    BY <1>18, CallTypes, FaultTypes DEF Resend, TypeOK
  <2>2. att' \in [Tx -> [Kind -> 0..MaxAttempts]]
    BY <1>18 DEF Resend, TypeOK
  <2>3. hpc' \in [Tx -> [Kind -> [Attempt -> HandlerPC]]]
    BY <1>18 DEF Resend, TypeOK, HandlerPC, Attempt
  <2>4. resending' \in [Tx -> [Kind -> BOOLEAN]]
    BY <1>18 DEF Resend, TypeOK
  <2> QED BY <1>18, <2>1, <2>2, <2>3, <2>4 DEF Resend, TypeOK, LedgerTypeOK, ledgerVars, coordVars, partnerVars
<1>19. ASSUME NEW k \in Kind, ResendOk(t, k) PROVE TypeOK'
    BY <1>19 DEF TypeOK, LedgerTypeOK, Call, Fault, Seen, Effect, Outcome, ledgerVars,
           coordVars, outVars, partnerVars, HGoto, ResendOk, OutStatus, MarkSent
<1>20. ASSUME NEW k \in Kind, ResendFailed(t, k) PROVE TypeOK'
  <2>1. nf' \in 0..MaxFaults
    BY <1>20, FaultTypes DEF ResendFailed, GiveUp, TypeOK
  <2>2. tries' \in [Tx -> [Kind -> Nat]]
    <3>1. tries \in [Tx -> [Kind -> Nat]]
      BY DEF TypeOK
    <3>2. tries' = tries \/ tries' = [tries EXCEPT ![t][k] = @ + 1]
      BY <1>20 DEF ResendFailed
    <3> QED BY <3>1, <3>2
  <2>3. out' \in [Tx -> [Kind -> OutStatus]]
    <3>1. out \in [Tx -> [Kind -> OutStatus]]
      BY DEF TypeOK
    <3>2. out' = out \/ out' = [out EXCEPT ![t][k] = "STUCK"]
      BY <1>20 DEF ResendFailed
    <3>3. "STUCK" \in OutStatus
      BY DEF OutStatus
    <3> QED BY <3>1, <3>2, <3>3
  <2>4. resending' \in [Tx -> [Kind -> BOOLEAN]]
    BY <1>20 DEF ResendFailed, TypeOK
  <2> QED BY <1>20, <2>1, <2>2, <2>3, <2>4 DEF ResendFailed, TypeOK, LedgerTypeOK, ledgerVars, coordVars, partnerVars
<1>21. ASSUME NEW k \in Kind, NEW i \in Attempt, Lookup(t, k, i) PROVE TypeOK'
  <2>1. nf' \in 0..MaxFaults
    BY <1>21, CallTypes, FaultTypes DEF Lookup, TypeOK
  <2>2. PICK l \in HandlerPC : HGoto(t, k, i, l)
    BY <1>21 DEF Lookup, HandlerPC
  <2>3. PICK a \in Answer \cup {"none"} : hres' = [hres EXCEPT ![t][k][i] = a]
    BY <1>21 DEF Lookup, TypeOK, Answer
  <2>4. hpc' \in [Tx -> [Kind -> [Attempt -> HandlerPC]]]
    BY <2>2, Update3 DEF HGoto, TypeOK
  <2>5. hres \in [Tx -> [Kind -> [Attempt -> Answer \cup {"none"}]]]
    BY DEF TypeOK
  <2>6. hres' \in [Tx -> [Kind -> [Attempt -> Answer \cup {"none"}]]]
    BY <2>3, <2>5, Update3
  <2> QED BY <1>21, <2>1, <2>4, <2>6 DEF Lookup, TypeOK, LedgerTypeOK, ledgerVars, coordVars, partnerVars, outVars
<1>22. ASSUME NEW k \in Kind, NEW i \in Attempt, HandleStatus(t, k, i) PROVE TypeOK'
    BY <1>22 DEF TypeOK, LedgerTypeOK, Call, Fault, Seen, Effect, Outcome, ledgerVars,
           coordVars, outVars, partnerVars, HGoto, HandleStatus, HandlerPC, RowStatus,
           FinalStatus
<1>23. ASSUME NEW k \in Kind, NEW i \in Attempt, HandleAnswer(t, k, i) PROVE TypeOK'
    BY <1>23 DEF TypeOK, LedgerTypeOK, Call, Fault, Seen, Effect, Outcome, ledgerVars,
           coordVars, outVars, partnerVars, HGoto, HandleAnswer, HandlerPC, Answer, CachedAs
<1>24. ASSUME NEW i \in Attempt, HandlePrepare(t, i) PROVE TypeOK'
  <2>1. nf' \in 0..MaxFaults
    BY <1>24, CallTypes, FaultTypes DEF HandlePrepare, TypeOK
  <2>2. PICK l \in HandlerPC : HGoto(t, "NEW_TX", i, l)
    BY <1>24 DEF HandlePrepare, HandlerPC
  <2> QED BY <1>24, <2>1, <2>2 DEF HGoto, HandlePrepare, TypeOK, LedgerTypeOK, ledgerVars, coordVars, partnerVars, outVars, Kind
<1>25. ASSUME NEW i \in Attempt, HandlePersist(t, i) PROVE TypeOK'
    BY <1>25 DEF TypeOK, LedgerTypeOK, Call, Fault, Seen, Effect, Outcome, ledgerVars,
           coordVars, outVars, partnerVars, HGoto, HandlePersist, AfterPersist, HandlerPC, Kind, RowStatus
<1>26. ASSUME NEW i \in Attempt, HandleCommitFind(t, i) PROVE TypeOK'
  <2>1. nf' \in 0..MaxFaults
    BY <1>26, CallTypes, FaultTypes DEF HandleCommitFind, TypeOK
  <2>2. PICK l \in HandlerPC : HGoto(t, "COMMIT_TX", i, l)
    BY <1>26 DEF HandleCommitFind, HandlerPC
  <2> QED BY <1>26, <2>1, <2>2 DEF HGoto, HandleCommitFind, TypeOK, LedgerTypeOK, ledgerVars, coordVars, partnerVars, outVars, Kind
<1>27. ASSUME NEW i \in Attempt, HandleCredit(t, i) PROVE TypeOK'
    BY <1>27 DEF TypeOK, LedgerTypeOK, Call, Fault, Seen, Effect, Outcome, ledgerVars,
           coordVars, outVars, partnerVars, HGoto, HandleCredit, HandlerPC, Kind
<1>28. ASSUME NEW i \in Attempt, HandleRecord(t, i) PROVE TypeOK'
    BY <1>28 DEF TypeOK, LedgerTypeOK, Call, Fault, Seen, Effect, Outcome, ledgerVars,
           coordVars, outVars, partnerVars, HGoto, HandleRecord, HandlerPC, Kind
<1>29. ASSUME NEW i \in Attempt, HandleFail(t, i) PROVE TypeOK'
    BY <1>29 DEF TypeOK, LedgerTypeOK, Call, Fault, Seen, Effect, Outcome, ledgerVars,
           coordVars, outVars, partnerVars, HGoto, HandleFail, HandlerPC, Kind, RowStatus
<1>30. ASSUME NEW i \in Attempt, HandleRollbackFind(t, i) PROVE TypeOK'
  <2>1. nf' \in 0..MaxFaults
    BY <1>30, CallTypes, FaultTypes DEF HandleRollbackFind, TypeOK
  <2>2. PICK l \in HandlerPC : HGoto(t, "ROLLBACK_TX", i, l)
    BY <1>30 DEF HandleRollbackFind, HandlerPC
  <2> QED BY <1>30, <2>1, <2>2 DEF HGoto, HandleRollbackFind, TypeOK, LedgerTypeOK, ledgerVars, coordVars, partnerVars, outVars, Kind
<1>31. CASE CoordinatorCrash(t)
    BY <1>31 DEF TypeOK, LedgerTypeOK, Call, Fault, Seen, Effect, Outcome, ledgerVars,
           coordVars, outVars, partnerVars, Goto, Return, CoordinatorCrash, CoordPC
<1>32. ASSUME NEW k \in Kind, NEW i \in Attempt, RequestLost(t, k, i) PROVE TypeOK'
    BY <1>32 DEF TypeOK, LedgerTypeOK, Call, Fault, Seen, Effect, Outcome, ledgerVars,
           coordVars, outVars, partnerVars, HGoto, RequestLost, HandlerPC
<1>33. ASSUME NEW k \in Kind, NEW i \in Attempt, HandlerDies(t, k, i) PROVE TypeOK'
    BY <1>33 DEF TypeOK, LedgerTypeOK, Call, Fault, Seen, Effect, Outcome, ledgerVars,
           coordVars, outVars, partnerVars, HGoto, HandlerDies, HandlerPC
<1> QED BY <1>1, <1>2, <1>3, <1>4, <1>5, <1>6, <1>7, <1>8, <1>9, <1>10, <1>11, <1>12, <1>13,
       <1>14, <1>15, <1>16, <1>17, <1>18, <1>19, <1>20, <1>21, <1>22, <1>23, <1>24, <1>25,
       <1>26, <1>27, <1>28, <1>29, <1>30, <1>31, <1>32, <1>33 DEF Step, Coordinator, Scheduler,
       Handler, Kind

\* A stuttering step changes no type.
LEMMA TypeStutter == TypeOK /\ UNCHANGED vars => TypeOK'
  BY DEF TypeOK, LedgerTypeOK, vars

\* A step of one payment leaves every other payment as it is.
LEMMA Elsewhere ==
  ASSUME TypeOK, NEW t \in Tx, NEW s \in Tx, s # t, Step(t)
  PROVE  Same(s)
<1>1. CASE PrepareValidate(t)
    BY <1>1 DEF TypeOK, LedgerTypeOK, Same, PrepareValidate, Goto, Return, outVars, partnerVars,
           coordVars, ledgerVars
<1>2. CASE PrepareReserve(t)
    BY <1>2 DEF TypeOK, LedgerTypeOK, Same, PrepareReserve, Goto, Return, outVars, partnerVars,
           coordVars, ledgerVars, ReserveMonas, CanReserve
<1>3. CASE PreparePersist(t)
    BY <1>3 DEF TypeOK, LedgerTypeOK, Same, PreparePersist, Goto, Return, outVars, partnerVars,
           coordVars, ledgerVars, Effect, Seen
<1>4. CASE PrepareCompensate(t)
    BY <1>4 DEF TypeOK, LedgerTypeOK, Same, PrepareCompensate, Goto, Return, outVars,
           partnerVars, coordVars, ledgerVars, Release, ReleaseReservation
<1>5. CASE SendNewTx(t)
    BY <1>5 DEF TypeOK, LedgerTypeOK, Same, SendNewTx, Goto, Return, outVars, partnerVars,
           coordVars, ledgerVars, Send, Effect, Seen
<1>6. CASE ReceiveVote(t)
    BY <1>6 DEF TypeOK, LedgerTypeOK, Same, ReceiveVote, AfterVote, Goto, Return, outVars, partnerVars,
           coordVars, ledgerVars, MarkSent, Seen
<1>7. CASE VoteTimeout(t)
    BY <1>7 DEF TypeOK, LedgerTypeOK, Same, VoteTimeout, Goto, Return, outVars, partnerVars,
           coordVars, ledgerVars
<1>8. CASE CommitRef(t)
    BY <1>8 DEF TypeOK, LedgerTypeOK, Same, CommitRef, AfterCommitRef, Goto, Return, outVars, partnerVars,
           coordVars, ledgerVars, CommitReservation, CanCommit, CommitRuns, CommitNoop
<1>9. CASE CommitStatus(t)
    BY <1>9 DEF TypeOK, LedgerTypeOK, Same, CommitStatus, AfterCommitStatus, Goto, Return, outVars, partnerVars,
           coordVars, ledgerVars, Effect, Seen
<1>10. CASE CommitFailStatus(t)
    BY <1>10 DEF TypeOK, LedgerTypeOK, Same, CommitFailStatus, Goto, Return, outVars,
           partnerVars, coordVars, ledgerVars, Effect
<1>11. CASE RecordOutbound(t)
    BY <1>11 DEF TypeOK, LedgerTypeOK, Same, RecordOutbound, Goto, Return, outVars, partnerVars,
           coordVars, ledgerVars, Effect
<1>12. CASE SendCommitTx(t)
    BY <1>12 DEF TypeOK, LedgerTypeOK, Same, SendCommitTx, Goto, Return, outVars, partnerVars,
           coordVars, ledgerVars, Send, Effect, Seen
<1>13. CASE RollbackRelease(t)
    BY <1>13 DEF TypeOK, LedgerTypeOK, Same, RollbackRelease, Goto, Return, outVars,
           partnerVars, coordVars, ledgerVars, Release, ReleaseReservation, CanRelease
<1>14. CASE RollbackStatus(t)
    BY <1>14 DEF TypeOK, LedgerTypeOK, Same, RollbackStatus, Goto, Return, outVars, partnerVars,
           coordVars, ledgerVars
<1>15. CASE SendRollbackTx(t)
    BY <1>15 DEF TypeOK, LedgerTypeOK, Same, SendRollbackTx, Goto, Return, outVars, partnerVars,
           coordVars, ledgerVars, Send, Effect, Seen
<1>16. CASE ReceiveAck(t)
    BY <1>16 DEF TypeOK, LedgerTypeOK, Same, ReceiveAck, Goto, Return, outVars, partnerVars,
           coordVars, ledgerVars, MarkSent, Seen, WaitKind
<1>17. CASE AckTimeout(t)
    BY <1>17 DEF TypeOK, LedgerTypeOK, Same, AckTimeout, Goto, Return, outVars, partnerVars,
           coordVars, ledgerVars, WaitKind
<1>18. ASSUME NEW k \in Kind, Resend(t, k) PROVE Same(s)
    BY <1>18 DEF TypeOK, LedgerTypeOK, Same, Resend, HGoto, outVars, partnerVars, coordVars,
           ledgerVars
<1>19. ASSUME NEW k \in Kind, ResendOk(t, k) PROVE Same(s)
    BY <1>19 DEF TypeOK, LedgerTypeOK, Same, ResendOk, HGoto, outVars, partnerVars, coordVars,
           ledgerVars, MarkSent, Seen
<1>20. ASSUME NEW k \in Kind, ResendFailed(t, k) PROVE Same(s)
    BY <1>20 DEF TypeOK, LedgerTypeOK, Same, ResendFailed, HGoto, outVars, partnerVars,
           coordVars, ledgerVars
<1>21. ASSUME NEW k \in Kind, NEW i \in Attempt, Lookup(t, k, i) PROVE Same(s)
    BY <1>21 DEF TypeOK, LedgerTypeOK, Same, Lookup, HGoto, outVars, partnerVars, coordVars,
           ledgerVars
<1>22. ASSUME NEW k \in Kind, NEW i \in Attempt, HandleStatus(t, k, i) PROVE Same(s)
    BY <1>22 DEF TypeOK, LedgerTypeOK, Same, HandleStatus, HGoto, outVars, partnerVars,
           coordVars, ledgerVars, FinalStatus, Effect, Seen
<1>23. ASSUME NEW k \in Kind, NEW i \in Attempt, HandleAnswer(t, k, i) PROVE Same(s)
    BY <1>23 DEF TypeOK, LedgerTypeOK, Same, HandleAnswer, HGoto, outVars, partnerVars,
           coordVars, ledgerVars, CachedAs
<1>24. ASSUME NEW i \in Attempt, HandlePrepare(t, i) PROVE Same(s)
    BY <1>24 DEF TypeOK, LedgerTypeOK, Same, HandlePrepare, HGoto, outVars, partnerVars,
           coordVars, ledgerVars
<1>25. ASSUME NEW i \in Attempt, HandlePersist(t, i) PROVE Same(s)
    BY <1>25 DEF TypeOK, LedgerTypeOK, Same, HandlePersist, AfterPersist, HGoto, outVars, partnerVars,
           coordVars, ledgerVars
<1>26. ASSUME NEW i \in Attempt, HandleCommitFind(t, i) PROVE Same(s)
    BY <1>26 DEF TypeOK, LedgerTypeOK, Same, HandleCommitFind, HGoto, outVars, partnerVars,
           coordVars, ledgerVars, CommitRuns, CommitNoop
<1>27. ASSUME NEW i \in Attempt, HandleCredit(t, i) PROVE Same(s)
    BY <1>27 DEF TypeOK, LedgerTypeOK, Same, HandleCredit, HGoto, outVars, partnerVars,
           coordVars, ledgerVars, Effect, Seen
<1>28. ASSUME NEW i \in Attempt, HandleRecord(t, i) PROVE Same(s)
    BY <1>28 DEF TypeOK, LedgerTypeOK, Same, HandleRecord, HGoto, outVars, partnerVars,
           coordVars, ledgerVars, Effect
<1>29. ASSUME NEW i \in Attempt, HandleFail(t, i) PROVE Same(s)
    BY <1>29 DEF TypeOK, LedgerTypeOK, Same, HandleFail, HGoto, outVars, partnerVars, coordVars,
           ledgerVars, Effect
<1>30. ASSUME NEW i \in Attempt, HandleRollbackFind(t, i) PROVE Same(s)
    BY <1>30 DEF TypeOK, LedgerTypeOK, Same, HandleRollbackFind, HGoto, outVars, partnerVars,
           coordVars, ledgerVars
<1>31. CASE CoordinatorCrash(t)
    BY <1>31 DEF TypeOK, LedgerTypeOK, Same, CoordinatorCrash, Goto, Return, outVars,
           partnerVars, coordVars, ledgerVars
<1>32. ASSUME NEW k \in Kind, NEW i \in Attempt, RequestLost(t, k, i) PROVE Same(s)
    BY <1>32 DEF TypeOK, LedgerTypeOK, Same, RequestLost, HGoto, outVars, partnerVars,
           coordVars, ledgerVars
<1>33. ASSUME NEW k \in Kind, NEW i \in Attempt, HandlerDies(t, k, i) PROVE Same(s)
    BY <1>33 DEF TypeOK, LedgerTypeOK, Same, HandlerDies, HGoto, outVars, partnerVars,
           coordVars, ledgerVars
<1> QED BY <1>1, <1>2, <1>3, <1>4, <1>5, <1>6, <1>7, <1>8, <1>9, <1>10, <1>11, <1>12, <1>13,
       <1>14, <1>15, <1>16, <1>17, <1>18, <1>19, <1>20, <1>21, <1>22, <1>23, <1>24, <1>25,
       <1>26, <1>27, <1>28, <1>29, <1>30, <1>31, <1>32, <1>33 DEF Step, Coordinator, Scheduler,
       Handler, Kind

\* The coordinator's order of effects, action by action.
LEMMA CommitOrderStep ==
  ASSUME TypeOK, NEW t \in Tx, TxInv(t), Step(t)
  PROVE  CommitOrder(t)'
<1>1. CASE PrepareValidate(t)
  <2>1. pc[t] = "validate" /\ pc'[t] \in {"reserve", "done"} /\ result'[t] \in {result[t], "error"}
    BY <1>1 DEF PrepareValidate, Goto, Return, TypeOK
  <2>2. UNCHANGED <<rowA, resv, out, credits, hist>>
    BY <1>1 DEF PrepareValidate, ledgerVars, outVars, partnerVars
  <2> QED BY <2>1, <2>2 DEF CommitOrder, TxInv
<1>2. CASE PrepareReserve(t)
  <2>1. pc[t] = "reserve" /\ pc'[t] \in {"persist", "done"} /\ result'[t] \in {result[t], "error"}
    BY <1>2 DEF PrepareReserve, Goto, Return, TypeOK
  <2>2. resv[t] # "COMMITTED" /\ resv'[t] # "COMMITTED"
    BY <1>2, <2>1 DEF PrepareReserve, ReserveMonas, ledgerVars, CommitOrder, TxInv, TypeOK, LedgerTypeOK
  <2>3. UNCHANGED <<rowA, out, credits, hist>>
    BY <1>2 DEF PrepareReserve, outVars, partnerVars
  <2> QED BY <2>1, <2>2, <2>3 DEF CommitOrder, TxInv
<1>3. CASE PreparePersist(t)
  <2>1. /\ pc[t] = "persist"
          /\ \/ pc'[t] = "newTx" /\ rowA'[t] = "PREPARED"
             \/ pc'[t] = "compensate" /\ rowA'[t] \in {rowA[t], "PREPARED"}
    BY <1>3 DEF PreparePersist, Goto, Effect, Seen, TypeOK
  <2>2. UNCHANGED <<result, resv, out, credits, hist>>
    BY <1>3 DEF PreparePersist, ledgerVars, outVars, partnerVars
  <2> QED BY <2>1, <2>2 DEF CommitOrder, TxInv
<1>4. CASE PrepareCompensate(t)
    BY <1>4 DEF TypeOK, LedgerTypeOK, TxInv, CommitOrder, MessageBacked, PrepareCompensate,
           Goto, Return, Fault, Call, outVars, partnerVars, coordVars, ledgerVars, Kind,
           Release, ReleaseReservation
<1>5. CASE SendNewTx(t)
    BY <1>5 DEF TypeOK, LedgerTypeOK, TxInv, CommitOrder, MessageBacked, SendNewTx, Goto,
           Return, Fault, Call, outVars, partnerVars, coordVars, ledgerVars, Kind, Send, Effect,
           Seen
<1>6. CASE ReceiveVote(t)
    BY <1>6 DEF TypeOK, LedgerTypeOK, TxInv, CommitOrder, MessageBacked, ReceiveVote, AfterVote, Goto,
           Return, Fault, Call, outVars, partnerVars, coordVars, ledgerVars, Kind, MarkSent,
           Seen
<1>7. CASE VoteTimeout(t)
    BY <1>7 DEF TypeOK, LedgerTypeOK, TxInv, CommitOrder, MessageBacked, VoteTimeout, Goto,
           Return, Fault, Call, outVars, partnerVars, coordVars, ledgerVars, Kind
<1>8. CASE CommitRef(t)
    BY <1>8 DEF TypeOK, LedgerTypeOK, TxInv, CommitOrder, MessageBacked, CommitRef, AfterCommitRef, Goto,
           Return, Fault, Call, outVars, partnerVars, coordVars, ledgerVars, Kind,
           CommitReservation, CanCommit, CommitRuns, CommitNoop
<1>9. CASE CommitStatus(t)
  <2>1. pc[t] = "commitStatus" /\ pc'[t] \in {"record", "rollbackTx"} /\ rowA'[t] \in {rowA[t], "COMMITTED"}
    BY <1>9 DEF CommitStatus, AfterCommitStatus, Goto, Effect, Seen, TypeOK
  <2>2. UNCHANGED <<result, resv, out, credits, hist>>
    BY <1>9 DEF CommitStatus, AfterCommitStatus, ledgerVars, outVars, partnerVars
  <2> QED BY <2>1, <2>2 DEF CommitOrder, TxInv
<1>10. CASE CommitFailStatus(t)
    BY <1>10 DEF TypeOK, LedgerTypeOK, TxInv, CommitOrder, MessageBacked, CommitFailStatus,
           Goto, Return, Fault, Call, outVars, partnerVars, coordVars, ledgerVars, Kind, Effect
<1>11. CASE RecordOutbound(t)
  <2>1. pc[t] = "record" /\ pc'[t] = "commitTx"
    BY <1>11 DEF RecordOutbound, Goto, TypeOK
  <2>2. UNCHANGED <<result, resv, rowA, out, credits>>
    BY <1>11 DEF RecordOutbound, ledgerVars, outVars, partnerVars
  <2> QED BY <2>1, <2>2 DEF CommitOrder, TxInv
<1>12. CASE SendCommitTx(t)
    BY <1>12 DEF TypeOK, LedgerTypeOK, TxInv, CommitOrder, MessageBacked, SendCommitTx, Goto,
           Return, Fault, Call, outVars, partnerVars, coordVars, ledgerVars, Kind, Send, Effect,
           Seen
<1>13. CASE RollbackRelease(t)
    BY <1>13 DEF TypeOK, LedgerTypeOK, TxInv, CommitOrder, MessageBacked, RollbackRelease, Goto,
           Return, Fault, Call, outVars, partnerVars, coordVars, ledgerVars, Kind, Release,
           ReleaseReservation, CanRelease
<1>14. CASE RollbackStatus(t)
    BY <1>14 DEF TypeOK, LedgerTypeOK, TxInv, CommitOrder, MessageBacked, RollbackStatus, Goto,
           Return, Fault, Call, outVars, partnerVars, coordVars, ledgerVars, Kind
<1>15. CASE SendRollbackTx(t)
  <2>1. pc[t] = "rollbackTx" /\ pc'[t] \in {"waitRollback", "done"} /\ result'[t] \in {result[t], "error"}
    BY <1>15 DEF SendRollbackTx, Goto, Return, TypeOK
  <2>2. out'[t]["COMMIT_TX"] = out[t]["COMMIT_TX"]
    BY <1>15 DEF SendRollbackTx, Send, Effect, TypeOK, Kind
  <2>3. UNCHANGED <<rowA, resv, credits, hist>>
    BY <1>15 DEF SendRollbackTx, ledgerVars, partnerVars
  <2> QED BY <2>1, <2>2, <2>3 DEF CommitOrder, TxInv
<1>16. CASE ReceiveAck(t)
    BY <1>16 DEF TypeOK, LedgerTypeOK, TxInv, CommitOrder, MessageBacked, ReceiveAck, Goto,
           Return, Fault, Call, outVars, partnerVars, coordVars, ledgerVars, Kind, MarkSent,
           Seen, WaitKind
<1>17. CASE AckTimeout(t)
    BY <1>17 DEF TypeOK, LedgerTypeOK, TxInv, CommitOrder, MessageBacked, AckTimeout, Goto,
           Return, Fault, Call, outVars, partnerVars, coordVars, ledgerVars, Kind, WaitKind
<1>18. ASSUME NEW k \in Kind, Resend(t, k) PROVE CommitOrder(t)'
    BY <1>18 DEF TypeOK, LedgerTypeOK, TxInv, CommitOrder, MessageBacked, Resend, HGoto, Fault,
           Call, outVars, partnerVars, coordVars, ledgerVars, Kind
<1>19. ASSUME NEW k \in Kind, ResendOk(t, k) PROVE CommitOrder(t)'
  <2>1. \A j \in Kind : out[t][j] = "none" => out'[t][j] = "none"
    BY <1>19 DEF ResendOk, MarkSent, Seen, MessageBacked, TxInv, TypeOK
  <2>2. \A j \in Kind : out'[t][j] = "none" => out[t][j] = "none"
    BY <1>19 DEF ResendOk, MarkSent, Seen, TypeOK
  <2>3. UNCHANGED <<pc, result, rowA, resv, credits, hist>>
    BY <1>19 DEF ResendOk, coordVars, partnerVars, ledgerVars
  <2> QED BY <2>1, <2>2, <2>3 DEF CommitOrder, TxInv, Kind
<1>20. ASSUME NEW k \in Kind, ResendFailed(t, k) PROVE CommitOrder(t)'
  <2>1. \A j \in Kind : out[t][j] = "none" => out'[t][j] = "none"
    BY <1>20 DEF ResendFailed, MarkSent, Seen, MessageBacked, TxInv, TypeOK
  <2>2. \A j \in Kind : out'[t][j] = "none" => out[t][j] = "none"
    BY <1>20 DEF ResendFailed, MarkSent, Seen, TypeOK
  <2>3. UNCHANGED <<pc, result, rowA, resv, credits, hist>>
    BY <1>20 DEF ResendFailed, coordVars, partnerVars, ledgerVars
  <2> QED BY <2>1, <2>2, <2>3 DEF CommitOrder, TxInv, Kind
<1>21. ASSUME NEW k \in Kind, NEW i \in Attempt, Lookup(t, k, i) PROVE CommitOrder(t)'
    BY <1>21 DEF TypeOK, LedgerTypeOK, TxInv, CommitOrder, MessageBacked, Lookup, HGoto, Fault,
           Call, outVars, partnerVars, coordVars, ledgerVars, Kind
<1>22. ASSUME NEW k \in Kind, NEW i \in Attempt, HandleStatus(t, k, i) PROVE CommitOrder(t)'
    BY <1>22 DEF TypeOK, LedgerTypeOK, TxInv, CommitOrder, MessageBacked, HandleStatus, HGoto,
           Fault, Call, outVars, partnerVars, coordVars, ledgerVars, Kind, FinalStatus, Effect,
           Seen
<1>23. ASSUME NEW k \in Kind, NEW i \in Attempt, HandleAnswer(t, k, i) PROVE CommitOrder(t)'
    BY <1>23 DEF TypeOK, LedgerTypeOK, TxInv, CommitOrder, MessageBacked, HandleAnswer, HGoto,
           Fault, Call, outVars, partnerVars, coordVars, ledgerVars, Kind, CachedAs
<1>24. ASSUME NEW i \in Attempt, HandlePrepare(t, i) PROVE CommitOrder(t)'
    BY <1>24 DEF TypeOK, LedgerTypeOK, TxInv, CommitOrder, MessageBacked, HandlePrepare, HGoto,
           Fault, Call, outVars, partnerVars, coordVars, ledgerVars, Kind
<1>25. ASSUME NEW i \in Attempt, HandlePersist(t, i) PROVE CommitOrder(t)'
    BY <1>25 DEF TypeOK, LedgerTypeOK, TxInv, CommitOrder, MessageBacked, HandlePersist, AfterPersist, HGoto,
           Fault, Call, outVars, partnerVars, coordVars, ledgerVars, Kind
<1>26. ASSUME NEW i \in Attempt, HandleCommitFind(t, i) PROVE CommitOrder(t)'
    BY <1>26 DEF TypeOK, LedgerTypeOK, TxInv, CommitOrder, MessageBacked, HandleCommitFind,
           HGoto, Fault, Call, outVars, partnerVars, coordVars, ledgerVars, Kind, CommitRuns,
           CommitNoop
<1>27. ASSUME NEW i \in Attempt, HandleCredit(t, i) PROVE CommitOrder(t)'
    BY <1>27 DEF TypeOK, LedgerTypeOK, TxInv, CommitOrder, MessageBacked, HandleCredit, HGoto,
           Fault, Call, outVars, partnerVars, coordVars, ledgerVars, Kind, Effect, Seen
<1>28. ASSUME NEW i \in Attempt, HandleRecord(t, i) PROVE CommitOrder(t)'
    BY <1>28 DEF TypeOK, LedgerTypeOK, TxInv, CommitOrder, MessageBacked, HandleRecord, HGoto,
           Fault, Call, outVars, partnerVars, coordVars, ledgerVars, Kind, Effect
<1>29. ASSUME NEW i \in Attempt, HandleFail(t, i) PROVE CommitOrder(t)'
    BY <1>29 DEF TypeOK, LedgerTypeOK, TxInv, CommitOrder, MessageBacked, HandleFail, HGoto,
           Fault, Call, outVars, partnerVars, coordVars, ledgerVars, Kind, Effect
<1>30. ASSUME NEW i \in Attempt, HandleRollbackFind(t, i) PROVE CommitOrder(t)'
    BY <1>30 DEF TypeOK, LedgerTypeOK, TxInv, CommitOrder, MessageBacked, HandleRollbackFind,
           HGoto, Fault, Call, outVars, partnerVars, coordVars, ledgerVars, Kind
<1>31. CASE CoordinatorCrash(t)
    BY <1>31 DEF TypeOK, LedgerTypeOK, TxInv, CommitOrder, MessageBacked, CoordinatorCrash,
           Goto, Return, Fault, Call, outVars, partnerVars, coordVars, ledgerVars, Kind
<1>32. ASSUME NEW k \in Kind, NEW i \in Attempt, RequestLost(t, k, i) PROVE CommitOrder(t)'
    BY <1>32 DEF TypeOK, LedgerTypeOK, TxInv, CommitOrder, MessageBacked, RequestLost, HGoto,
           Fault, Call, outVars, partnerVars, coordVars, ledgerVars, Kind
<1>33. ASSUME NEW k \in Kind, NEW i \in Attempt, HandlerDies(t, k, i) PROVE CommitOrder(t)'
    BY <1>33 DEF TypeOK, LedgerTypeOK, TxInv, CommitOrder, MessageBacked, HandlerDies, HGoto,
           Fault, Call, outVars, partnerVars, coordVars, ledgerVars, Kind
<1> QED BY <1>1, <1>2, <1>3, <1>4, <1>5, <1>6, <1>7, <1>8, <1>9, <1>10, <1>11, <1>12, <1>13,
       <1>14, <1>15, <1>16, <1>17, <1>18, <1>19, <1>20, <1>21, <1>22, <1>23, <1>24, <1>25,
       <1>26, <1>27, <1>28, <1>29, <1>30, <1>31, <1>32, <1>33 DEF Step, Coordinator, Scheduler,
       Handler, Kind

\* No handler and no resend without a persisted message.
LEMMA MessageBackedStep ==
  ASSUME TypeOK, NEW t \in Tx, TxInv(t), Step(t)
  PROVE  MessageBacked(t)'
<1>1. CASE PrepareValidate(t)
    BY <1>1 DEF TypeOK, TxInv, MessageBacked, PrepareValidate, Goto, Return, outVars,
           partnerVars, coordVars, ledgerVars, Kind, Attempt
<1>2. CASE PrepareReserve(t)
    BY <1>2 DEF TypeOK, TxInv, MessageBacked, PrepareReserve, Goto, Return, outVars,
           partnerVars, coordVars, ledgerVars, Kind, Attempt, ReserveMonas, CanReserve
<1>3. CASE PreparePersist(t)
    BY <1>3 DEF TypeOK, TxInv, MessageBacked, PreparePersist, Goto, Return, outVars,
           partnerVars, coordVars, ledgerVars, Kind, Attempt, Effect, Seen
<1>4. CASE PrepareCompensate(t)
    BY <1>4 DEF TypeOK, TxInv, MessageBacked, PrepareCompensate, Goto, Return, outVars,
           partnerVars, coordVars, ledgerVars, Kind, Attempt, Release, ReleaseReservation
<1>5. CASE SendNewTx(t)
    BY <1>5 DEF TypeOK, TxInv, MessageBacked, SendNewTx, Goto, Return, outVars, partnerVars,
           coordVars, ledgerVars, Kind, Attempt, Send, Effect, Seen
<1>6. CASE ReceiveVote(t)
    BY <1>6 DEF TypeOK, TxInv, MessageBacked, ReceiveVote, AfterVote, Goto, Return, outVars, partnerVars,
           coordVars, ledgerVars, Kind, Attempt, MarkSent, Seen
<1>7. CASE VoteTimeout(t)
    BY <1>7 DEF TypeOK, TxInv, MessageBacked, VoteTimeout, Goto, Return, outVars, partnerVars,
           coordVars, ledgerVars, Kind, Attempt
<1>8. CASE CommitRef(t)
    BY <1>8 DEF TypeOK, TxInv, MessageBacked, CommitRef, AfterCommitRef, Goto, Return, outVars, partnerVars,
           coordVars, ledgerVars, Kind, Attempt, CommitReservation, CanCommit, CommitRuns,
           CommitNoop
<1>9. CASE CommitStatus(t)
    BY <1>9 DEF TypeOK, TxInv, MessageBacked, CommitStatus, AfterCommitStatus, Goto, Return, outVars, partnerVars,
           coordVars, ledgerVars, Kind, Attempt, Effect, Seen
<1>10. CASE CommitFailStatus(t)
    BY <1>10 DEF TypeOK, TxInv, MessageBacked, CommitFailStatus, Goto, Return, outVars,
           partnerVars, coordVars, ledgerVars, Kind, Attempt, Effect
<1>11. CASE RecordOutbound(t)
    BY <1>11 DEF TypeOK, TxInv, MessageBacked, RecordOutbound, Goto, Return, outVars,
           partnerVars, coordVars, ledgerVars, Kind, Attempt, Effect
<1>12. CASE SendCommitTx(t)
    BY <1>12 DEF TypeOK, TxInv, MessageBacked, SendCommitTx, Goto, Return, outVars, partnerVars,
           coordVars, ledgerVars, Kind, Attempt, Send, Effect, Seen
<1>13. CASE RollbackRelease(t)
    BY <1>13 DEF TypeOK, TxInv, MessageBacked, RollbackRelease, Goto, Return, outVars,
           partnerVars, coordVars, ledgerVars, Kind, Attempt, Release, ReleaseReservation,
           CanRelease
<1>14. CASE RollbackStatus(t)
    BY <1>14 DEF TypeOK, TxInv, MessageBacked, RollbackStatus, Goto, Return, outVars,
           partnerVars, coordVars, ledgerVars, Kind, Attempt
<1>15. CASE SendRollbackTx(t)
    BY <1>15 DEF TypeOK, TxInv, MessageBacked, SendRollbackTx, Goto, Return, outVars,
           partnerVars, coordVars, ledgerVars, Kind, Attempt, Send, Effect, Seen
<1>16. CASE ReceiveAck(t)
    BY <1>16, SMTT(30) DEF TypeOK, TxInv, MessageBacked, ReceiveAck, Goto, Return, outVars, partnerVars,
           coordVars, ledgerVars, Kind, Attempt, MarkSent, Seen, WaitKind
<1>17. CASE AckTimeout(t)
    BY <1>17 DEF TypeOK, TxInv, MessageBacked, AckTimeout, Goto, Return, outVars, partnerVars,
           coordVars, ledgerVars, Kind, Attempt, WaitKind
<1>18. ASSUME NEW k \in Kind, Resend(t, k) PROVE MessageBacked(t)'
    BY <1>18, SMTT(30) DEF TypeOK, TxInv, MessageBacked, Resend, HGoto, outVars, partnerVars, coordVars,
           ledgerVars, Kind, Attempt
<1>19. ASSUME NEW k \in Kind, ResendOk(t, k) PROVE MessageBacked(t)'
    BY <1>19 DEF TypeOK, TxInv, MessageBacked, ResendOk, HGoto, outVars, partnerVars, coordVars,
           ledgerVars, Kind, Attempt, MarkSent, Seen
<1>20. ASSUME NEW k \in Kind, ResendFailed(t, k) PROVE MessageBacked(t)'
    BY <1>20 DEF TypeOK, TxInv, MessageBacked, ResendFailed, HGoto, outVars, partnerVars,
           coordVars, ledgerVars, Kind, Attempt
<1>21. ASSUME NEW k \in Kind, NEW i \in Attempt, Lookup(t, k, i) PROVE MessageBacked(t)'
  <2>1. PICK l : HGoto(t, k, i, l)
    BY <1>21 DEF Lookup
  <2>2. hpc[t][k][i] # "off" /\ UNCHANGED <<out, resending>>
    BY <1>21 DEF Lookup, outVars
  <2> QED BY <2>1, <2>2 DEF HGoto, MessageBacked, TxInv, TypeOK, Kind
<1>22. ASSUME NEW k \in Kind, NEW i \in Attempt, HandleStatus(t, k, i) PROVE MessageBacked(t)'
  <2>1. PICK l : HGoto(t, k, i, l)
    BY <1>22 DEF HandleStatus
  <2>2. hpc[t][k][i] # "off" /\ UNCHANGED <<out, resending>>
    BY <1>22 DEF HandleStatus, outVars
  <2> QED BY <2>1, <2>2 DEF HGoto, MessageBacked, TxInv, TypeOK, Kind
<1>23. ASSUME NEW k \in Kind, NEW i \in Attempt, HandleAnswer(t, k, i) PROVE MessageBacked(t)'
  <2>1. PICK l : HGoto(t, k, i, l)
    BY <1>23 DEF HandleAnswer
  <2>2. hpc[t][k][i] # "off" /\ UNCHANGED <<out, resending>>
    BY <1>23 DEF HandleAnswer, outVars, CachedAs
  <2> QED BY <2>1, <2>2 DEF HGoto, MessageBacked, TxInv, TypeOK, Kind
<1>24. ASSUME NEW i \in Attempt, HandlePrepare(t, i) PROVE MessageBacked(t)'
  <2>1. PICK l : HGoto(t, "NEW_TX", i, l)
    BY <1>24 DEF HandlePrepare
  <2>2. hpc[t]["NEW_TX"][i] # "off" /\ UNCHANGED <<out, resending>>
    BY <1>24 DEF HandlePrepare, outVars
  <2> QED BY <2>1, <2>2 DEF HGoto, MessageBacked, TxInv, TypeOK, Kind
<1>25. ASSUME NEW i \in Attempt, HandlePersist(t, i) PROVE MessageBacked(t)'
  <2>1. PICK l : HGoto(t, "NEW_TX", i, l)
    BY <1>25 DEF HandlePersist, AfterPersist
  <2>2. hpc[t]["NEW_TX"][i] # "off" /\ UNCHANGED <<out, resending>>
    BY <1>25 DEF HandlePersist, AfterPersist, outVars
  <2> QED BY <2>1, <2>2 DEF HGoto, MessageBacked, TxInv, TypeOK, Kind
<1>26. ASSUME NEW i \in Attempt, HandleCommitFind(t, i) PROVE MessageBacked(t)'
  <2>1. PICK l : HGoto(t, "COMMIT_TX", i, l)
    BY <1>26 DEF HandleCommitFind
  <2>2. hpc[t]["COMMIT_TX"][i] # "off" /\ UNCHANGED <<out, resending>>
    BY <1>26 DEF HandleCommitFind, outVars
  <2> QED BY <2>1, <2>2 DEF HGoto, MessageBacked, TxInv, TypeOK, Kind
<1>27. ASSUME NEW i \in Attempt, HandleCredit(t, i) PROVE MessageBacked(t)'
  <2>1. PICK l : HGoto(t, "COMMIT_TX", i, l)
    BY <1>27 DEF HandleCredit
  <2>2. hpc[t]["COMMIT_TX"][i] # "off" /\ UNCHANGED <<out, resending>>
    BY <1>27 DEF HandleCredit, outVars
  <2> QED BY <2>1, <2>2 DEF HGoto, MessageBacked, TxInv, TypeOK, Kind
<1>28. ASSUME NEW i \in Attempt, HandleRecord(t, i) PROVE MessageBacked(t)'
  <2>1. PICK l : HGoto(t, "COMMIT_TX", i, l)
    BY <1>28 DEF HandleRecord
  <2>2. hpc[t]["COMMIT_TX"][i] # "off" /\ UNCHANGED <<out, resending>>
    BY <1>28 DEF HandleRecord, outVars
  <2> QED BY <2>1, <2>2 DEF HGoto, MessageBacked, TxInv, TypeOK, Kind
<1>29. ASSUME NEW i \in Attempt, HandleFail(t, i) PROVE MessageBacked(t)'
  <2>1. PICK l : HGoto(t, "COMMIT_TX", i, l)
    BY <1>29 DEF HandleFail
  <2>2. hpc[t]["COMMIT_TX"][i] # "off" /\ UNCHANGED <<out, resending>>
    BY <1>29 DEF HandleFail, outVars
  <2> QED BY <2>1, <2>2 DEF HGoto, MessageBacked, TxInv, TypeOK, Kind
<1>30. ASSUME NEW i \in Attempt, HandleRollbackFind(t, i) PROVE MessageBacked(t)'
  <2>1. PICK l : HGoto(t, "ROLLBACK_TX", i, l)
    BY <1>30 DEF HandleRollbackFind
  <2>2. hpc[t]["ROLLBACK_TX"][i] # "off" /\ UNCHANGED <<out, resending>>
    BY <1>30 DEF HandleRollbackFind, outVars
  <2> QED BY <2>1, <2>2 DEF HGoto, MessageBacked, TxInv, TypeOK, Kind
<1>31. CASE CoordinatorCrash(t)
    BY <1>31 DEF TypeOK, TxInv, MessageBacked, CoordinatorCrash, Goto, Return, outVars,
           partnerVars, coordVars, ledgerVars, Kind, Attempt
<1>32. ASSUME NEW k \in Kind, NEW i \in Attempt, RequestLost(t, k, i) PROVE MessageBacked(t)'
  <2>1. PICK l : HGoto(t, k, i, l)
    BY <1>32 DEF RequestLost
  <2>2. hpc[t][k][i] # "off" /\ UNCHANGED <<out, resending>>
    BY <1>32 DEF RequestLost, outVars
  <2> QED BY <2>1, <2>2 DEF HGoto, MessageBacked, TxInv, TypeOK, Kind
<1>33. ASSUME NEW k \in Kind, NEW i \in Attempt, HandlerDies(t, k, i) PROVE MessageBacked(t)'
  <2>1. PICK l : HGoto(t, k, i, l)
    BY <1>33 DEF HandlerDies
  <2>2. hpc[t][k][i] # "off" /\ UNCHANGED <<out, resending>>
    BY <1>33 DEF HandlerDies, outVars
  <2> QED BY <2>1, <2>2 DEF HGoto, MessageBacked, TxInv, TypeOK, Kind
<1> QED BY <1>1, <1>2, <1>3, <1>4, <1>5, <1>6, <1>7, <1>8, <1>9, <1>10, <1>11, <1>12, <1>13,
       <1>14, <1>15, <1>16, <1>17, <1>18, <1>19, <1>20, <1>21, <1>22, <1>23, <1>24, <1>25,
       <1>26, <1>27, <1>28, <1>29, <1>30, <1>31, <1>32, <1>33 DEF Step, Coordinator, Scheduler,
       Handler, Kind

\* No YES without a row at the partner.
LEMMA YesBackedStep ==
  ASSUME TypeOK, NEW t \in Tx, TxInv(t), Step(t)
  PROVE  YesBacked(t)'
<1>1. CASE PrepareValidate(t)
    BY <1>1 DEF TypeOK, TxInv, YesBacked, PrepareValidate, Goto, Return, outVars, partnerVars,
           coordVars, ledgerVars, Kind, Attempt
<1>2. CASE PrepareReserve(t)
    BY <1>2 DEF TypeOK, TxInv, YesBacked, PrepareReserve, Goto, Return, outVars, partnerVars,
           coordVars, ledgerVars, Kind, Attempt, ReserveMonas, CanReserve
<1>3. CASE PreparePersist(t)
    BY <1>3 DEF TypeOK, TxInv, YesBacked, PreparePersist, Goto, Return, outVars, partnerVars,
           coordVars, ledgerVars, Kind, Attempt, Effect, Seen
<1>4. CASE PrepareCompensate(t)
    BY <1>4 DEF TypeOK, TxInv, YesBacked, PrepareCompensate, Goto, Return, outVars, partnerVars,
           coordVars, ledgerVars, Kind, Attempt, Release, ReleaseReservation
<1>5. CASE SendNewTx(t)
    BY <1>5 DEF TypeOK, TxInv, YesBacked, SendNewTx, Goto, Return, outVars, partnerVars,
           coordVars, ledgerVars, Kind, Attempt, Send, Effect, Seen
<1>6. CASE ReceiveVote(t)
    BY <1>6 DEF TypeOK, TxInv, YesBacked, ReceiveVote, AfterVote, Goto, Return, outVars, partnerVars,
           coordVars, ledgerVars, Kind, Attempt, MarkSent, Seen
<1>7. CASE VoteTimeout(t)
    BY <1>7 DEF TypeOK, TxInv, YesBacked, VoteTimeout, Goto, Return, outVars, partnerVars,
           coordVars, ledgerVars, Kind, Attempt
<1>8. CASE CommitRef(t)
    BY <1>8 DEF TypeOK, TxInv, YesBacked, CommitRef, AfterCommitRef, Goto, Return, outVars, partnerVars,
           coordVars, ledgerVars, Kind, Attempt, CommitReservation, CanCommit, CommitRuns,
           CommitNoop
<1>9. CASE CommitStatus(t)
    BY <1>9 DEF TypeOK, TxInv, YesBacked, CommitStatus, AfterCommitStatus, Goto, Return, outVars, partnerVars,
           coordVars, ledgerVars, Kind, Attempt, Effect, Seen
<1>10. CASE CommitFailStatus(t)
    BY <1>10 DEF TypeOK, TxInv, YesBacked, CommitFailStatus, Goto, Return, outVars, partnerVars,
           coordVars, ledgerVars, Kind, Attempt, Effect
<1>11. CASE RecordOutbound(t)
    BY <1>11 DEF TypeOK, TxInv, YesBacked, RecordOutbound, Goto, Return, outVars, partnerVars,
           coordVars, ledgerVars, Kind, Attempt, Effect
<1>12. CASE SendCommitTx(t)
    BY <1>12 DEF TypeOK, TxInv, YesBacked, SendCommitTx, Goto, Return, outVars, partnerVars,
           coordVars, ledgerVars, Kind, Attempt, Send, Effect, Seen
<1>13. CASE RollbackRelease(t)
    BY <1>13 DEF TypeOK, TxInv, YesBacked, RollbackRelease, Goto, Return, outVars, partnerVars,
           coordVars, ledgerVars, Kind, Attempt, Release, ReleaseReservation, CanRelease
<1>14. CASE RollbackStatus(t)
    BY <1>14 DEF TypeOK, TxInv, YesBacked, RollbackStatus, Goto, Return, outVars, partnerVars,
           coordVars, ledgerVars, Kind, Attempt
<1>15. CASE SendRollbackTx(t)
    BY <1>15 DEF TypeOK, TxInv, YesBacked, SendRollbackTx, Goto, Return, outVars, partnerVars,
           coordVars, ledgerVars, Kind, Attempt, Send, Effect, Seen
<1>16. CASE ReceiveAck(t)
    BY <1>16 DEF TypeOK, TxInv, YesBacked, ReceiveAck, Goto, Return, outVars, partnerVars,
           coordVars, ledgerVars, Kind, Attempt, MarkSent, Seen, WaitKind
<1>17. CASE AckTimeout(t)
    BY <1>17 DEF TypeOK, TxInv, YesBacked, AckTimeout, Goto, Return, outVars, partnerVars,
           coordVars, ledgerVars, Kind, Attempt, WaitKind
<1>18. ASSUME NEW k \in Kind, Resend(t, k) PROVE YesBacked(t)'
    BY <1>18, SMTT(30) DEF TypeOK, TxInv, YesBacked, Resend, HGoto, outVars, partnerVars, coordVars,
           ledgerVars, Kind, Attempt
<1>19. ASSUME NEW k \in Kind, ResendOk(t, k) PROVE YesBacked(t)'
    BY <1>19 DEF TypeOK, TxInv, YesBacked, ResendOk, HGoto, outVars, partnerVars, coordVars,
           ledgerVars, Kind, Attempt, MarkSent, Seen
<1>20. ASSUME NEW k \in Kind, ResendFailed(t, k) PROVE YesBacked(t)'
    BY <1>20 DEF TypeOK, TxInv, YesBacked, ResendFailed, HGoto, outVars, partnerVars, coordVars,
           ledgerVars, Kind, Attempt
<1>21. ASSUME NEW k \in Kind, NEW i \in Attempt, Lookup(t, k, i) PROVE YesBacked(t)'
  <2>1. PICK l \in {"run", "done"} : HGoto(t, k, i, l)
    BY <1>21 DEF Lookup
  <2>2. PICK a \in {hres[t][k][i], cache[t][k], "ERR"} : hres' = [hres EXCEPT ![t][k][i] = a]
    BY <1>21 DEF Lookup, TypeOK
  <2>3. UNCHANGED <<rowB, cache>>
    BY <1>21 DEF Lookup, partnerVars
  <2> QED BY <2>1, <2>2, <2>3 DEF HGoto, YesBacked, TxInv, TypeOK, Kind
<1>22. ASSUME NEW k \in Kind, NEW i \in Attempt, HandleStatus(t, k, i) PROVE YesBacked(t)'
    BY <1>22 DEF TypeOK, TxInv, YesBacked, HandleStatus, HGoto, outVars, partnerVars, coordVars,
           ledgerVars, Kind, Attempt, FinalStatus, Effect, Seen
<1>23. ASSUME NEW k \in Kind, NEW i \in Attempt, HandleAnswer(t, k, i) PROVE YesBacked(t)'
    BY <1>23 DEF TypeOK, TxInv, YesBacked, HandleAnswer, HGoto, outVars, partnerVars, coordVars,
           ledgerVars, Kind, Attempt, CachedAs
<1>24. ASSUME NEW i \in Attempt, HandlePrepare(t, i) PROVE YesBacked(t)'
  <2>1. PICK l \in {"persist", "cacheNO", "cacheERR"} : HGoto(t, "NEW_TX", i, l)
    BY <1>24 DEF HandlePrepare
  <2>2. UNCHANGED <<rowB, cache, hres>>
    BY <1>24 DEF HandlePrepare, partnerVars
  <2> QED BY <2>1, <2>2 DEF HGoto, YesBacked, TxInv, TypeOK, Kind
<1>25. ASSUME NEW i \in Attempt, HandlePersist(t, i) PROVE YesBacked(t)'
    BY <1>25 DEF TypeOK, TxInv, YesBacked, HandlePersist, AfterPersist, HGoto, outVars, partnerVars,
           coordVars, ledgerVars, Kind, Attempt
<1>26. ASSUME NEW i \in Attempt, HandleCommitFind(t, i) PROVE YesBacked(t)'
  <2>1. PICK l \in {"credit", "cacheOK", "cacheERR"} : HGoto(t, "COMMIT_TX", i, l)
    BY <1>26 DEF HandleCommitFind
  <2>2. UNCHANGED <<rowB, cache, hres>>
    BY <1>26 DEF HandleCommitFind, partnerVars
  <2> QED BY <2>1, <2>2 DEF HGoto, YesBacked, TxInv, TypeOK, Kind
<1>27. ASSUME NEW i \in Attempt, HandleCredit(t, i) PROVE YesBacked(t)'
    BY <1>27 DEF TypeOK, TxInv, YesBacked, HandleCredit, HGoto, outVars, partnerVars, coordVars,
           ledgerVars, Kind, Attempt, Effect, Seen
<1>28. ASSUME NEW i \in Attempt, HandleRecord(t, i) PROVE YesBacked(t)'
    BY <1>28 DEF TypeOK, TxInv, YesBacked, HandleRecord, HGoto, outVars, partnerVars, coordVars,
           ledgerVars, Kind, Attempt, Effect
<1>29. ASSUME NEW i \in Attempt, HandleFail(t, i) PROVE YesBacked(t)'
    BY <1>29 DEF TypeOK, TxInv, YesBacked, HandleFail, HGoto, outVars, partnerVars, coordVars,
           ledgerVars, Kind, Attempt, Effect
<1>30. ASSUME NEW i \in Attempt, HandleRollbackFind(t, i) PROVE YesBacked(t)'
  <2>1. PICK l \in {"status", "cacheOK", "cacheERR"} : HGoto(t, "ROLLBACK_TX", i, l)
    BY <1>30 DEF HandleRollbackFind
  <2>2. UNCHANGED <<rowB, cache, hres>>
    BY <1>30 DEF HandleRollbackFind, partnerVars
  <2> QED BY <2>1, <2>2 DEF HGoto, YesBacked, TxInv, TypeOK, Kind
<1>31. CASE CoordinatorCrash(t)
    BY <1>31 DEF TypeOK, TxInv, YesBacked, CoordinatorCrash, Goto, Return, outVars, partnerVars,
           coordVars, ledgerVars, Kind, Attempt
<1>32. ASSUME NEW k \in Kind, NEW i \in Attempt, RequestLost(t, k, i) PROVE YesBacked(t)'
    BY <1>32 DEF TypeOK, TxInv, YesBacked, RequestLost, HGoto, outVars, partnerVars, coordVars,
           ledgerVars, Kind, Attempt
<1>33. ASSUME NEW k \in Kind, NEW i \in Attempt, HandlerDies(t, k, i) PROVE YesBacked(t)'
    BY <1>33 DEF TypeOK, TxInv, YesBacked, HandlerDies, HGoto, outVars, partnerVars, coordVars,
           ledgerVars, Kind, Attempt
<1> QED BY <1>1, <1>2, <1>3, <1>4, <1>5, <1>6, <1>7, <1>8, <1>9, <1>10, <1>11, <1>12, <1>13,
       <1>14, <1>15, <1>16, <1>17, <1>18, <1>19, <1>20, <1>21, <1>22, <1>23, <1>24, <1>25,
       <1>26, <1>27, <1>28, <1>29, <1>30, <1>31, <1>32, <1>33 DEF Step, Coordinator, Scheduler,
       Handler, Kind

\* No commit without a YES.
LEMMA VoteBackedStep ==
  ASSUME TypeOK, NEW t \in Tx, TxInv(t), Step(t)
  PROVE  VoteBacked(t)'
<1>1. CASE PrepareValidate(t)
    BY <1>1 DEF TypeOK, TxInv, VoteBacked, PrepareValidate, Goto, Return, outVars, partnerVars,
           coordVars, ledgerVars, Kind, Attempt, YesBacked, CommitOrder
<1>2. CASE PrepareReserve(t)
    BY <1>2 DEF TypeOK, TxInv, VoteBacked, PrepareReserve, Goto, Return, outVars, partnerVars,
           coordVars, ledgerVars, Kind, Attempt, ReserveMonas, CanReserve, YesBacked,
           CommitOrder
<1>3. CASE PreparePersist(t)
    BY <1>3 DEF TypeOK, TxInv, VoteBacked, PreparePersist, Goto, Return, outVars, partnerVars,
           coordVars, ledgerVars, Kind, Attempt, Effect, Seen, YesBacked, CommitOrder
<1>4. CASE PrepareCompensate(t)
    BY <1>4 DEF TypeOK, TxInv, VoteBacked, PrepareCompensate, Goto, Return, outVars,
           partnerVars, coordVars, ledgerVars, Kind, Attempt, Release, ReleaseReservation,
           YesBacked, CommitOrder
<1>5. CASE SendNewTx(t)
    BY <1>5 DEF TypeOK, TxInv, VoteBacked, SendNewTx, Goto, Return, outVars, partnerVars,
           coordVars, ledgerVars, Kind, Attempt, Send, Effect, Seen, YesBacked, CommitOrder
<1>6. CASE ReceiveVote(t)
    BY <1>6 DEF TypeOK, TxInv, VoteBacked, ReceiveVote, AfterVote, Goto, Return, outVars, partnerVars,
           coordVars, ledgerVars, Kind, Attempt, MarkSent, Seen, YesBacked, CommitOrder
<1>7. CASE VoteTimeout(t)
    BY <1>7 DEF TypeOK, TxInv, VoteBacked, VoteTimeout, Goto, Return, outVars, partnerVars,
           coordVars, ledgerVars, Kind, Attempt, YesBacked, CommitOrder
<1>8. CASE CommitRef(t)
    BY <1>8 DEF TypeOK, TxInv, VoteBacked, CommitRef, AfterCommitRef, Goto, Return, outVars, partnerVars,
           coordVars, ledgerVars, Kind, Attempt, CommitReservation, CanCommit, CommitRuns,
           CommitNoop, YesBacked, CommitOrder
<1>9. CASE CommitStatus(t)
    BY <1>9 DEF TypeOK, TxInv, VoteBacked, CommitStatus, AfterCommitStatus, Goto, Return, outVars, partnerVars,
           coordVars, ledgerVars, Kind, Attempt, Effect, Seen, YesBacked, CommitOrder
<1>10. CASE CommitFailStatus(t)
    BY <1>10 DEF TypeOK, TxInv, VoteBacked, CommitFailStatus, Goto, Return, outVars,
           partnerVars, coordVars, ledgerVars, Kind, Attempt, Effect, YesBacked, CommitOrder
<1>11. CASE RecordOutbound(t)
    BY <1>11 DEF TypeOK, TxInv, VoteBacked, RecordOutbound, Goto, Return, outVars, partnerVars,
           coordVars, ledgerVars, Kind, Attempt, Effect, YesBacked, CommitOrder
<1>12. CASE SendCommitTx(t)
    BY <1>12 DEF TypeOK, TxInv, VoteBacked, SendCommitTx, Goto, Return, outVars, partnerVars,
           coordVars, ledgerVars, Kind, Attempt, Send, Effect, Seen, YesBacked, CommitOrder
<1>13. CASE RollbackRelease(t)
  <2>1. pc'[t] \in {"rollbackTx", "rollbackStatus", "done"} /\ result'[t] \in {result[t], "error"}
    BY <1>13 DEF RollbackRelease, Goto, Return, TypeOK
  <2>2. UNCHANGED <<vote, rowB>>
    BY <1>13 DEF RollbackRelease, partnerVars
  <2> QED BY <2>1, <2>2 DEF VoteBacked, TxInv, TypeOK
<1>14. CASE RollbackStatus(t)
    BY <1>14 DEF TypeOK, TxInv, VoteBacked, RollbackStatus, Goto, Return, outVars, partnerVars,
           coordVars, ledgerVars, Kind, Attempt, YesBacked, CommitOrder
<1>15. CASE SendRollbackTx(t)
    BY <1>15 DEF TypeOK, TxInv, VoteBacked, SendRollbackTx, Goto, Return, outVars, partnerVars,
           coordVars, ledgerVars, Kind, Attempt, Send, Effect, Seen, YesBacked, CommitOrder
<1>16. CASE ReceiveAck(t)
    BY <1>16 DEF TypeOK, TxInv, VoteBacked, ReceiveAck, Goto, Return, outVars, partnerVars,
           coordVars, ledgerVars, Kind, Attempt, MarkSent, Seen, WaitKind, YesBacked,
           CommitOrder
<1>17. CASE AckTimeout(t)
    BY <1>17 DEF TypeOK, TxInv, VoteBacked, AckTimeout, Goto, Return, outVars, partnerVars,
           coordVars, ledgerVars, Kind, Attempt, WaitKind, YesBacked, CommitOrder
<1>18. ASSUME NEW k \in Kind, Resend(t, k) PROVE VoteBacked(t)'
    BY <1>18 DEF TypeOK, TxInv, VoteBacked, Resend, HGoto, outVars, partnerVars, coordVars,
           ledgerVars, Kind, Attempt, YesBacked, CommitOrder
<1>19. ASSUME NEW k \in Kind, ResendOk(t, k) PROVE VoteBacked(t)'
    BY <1>19 DEF TypeOK, TxInv, VoteBacked, ResendOk, HGoto, outVars, partnerVars, coordVars,
           ledgerVars, Kind, Attempt, MarkSent, Seen, YesBacked, CommitOrder
<1>20. ASSUME NEW k \in Kind, ResendFailed(t, k) PROVE VoteBacked(t)'
    BY <1>20 DEF TypeOK, TxInv, VoteBacked, ResendFailed, HGoto, outVars, partnerVars,
           coordVars, ledgerVars, Kind, Attempt, YesBacked, CommitOrder
<1>21. ASSUME NEW k \in Kind, NEW i \in Attempt, Lookup(t, k, i) PROVE VoteBacked(t)'
    BY <1>21 DEF TypeOK, TxInv, VoteBacked, Lookup, HGoto, outVars, partnerVars, coordVars,
           ledgerVars, Kind, Attempt, YesBacked, CommitOrder
<1>22. ASSUME NEW k \in Kind, NEW i \in Attempt, HandleStatus(t, k, i) PROVE VoteBacked(t)'
    BY <1>22 DEF TypeOK, TxInv, VoteBacked, HandleStatus, HGoto, outVars, partnerVars,
           coordVars, ledgerVars, Kind, Attempt, FinalStatus, Effect, Seen, YesBacked,
           CommitOrder
<1>23. ASSUME NEW k \in Kind, NEW i \in Attempt, HandleAnswer(t, k, i) PROVE VoteBacked(t)'
    BY <1>23 DEF TypeOK, TxInv, VoteBacked, HandleAnswer, HGoto, outVars, partnerVars,
           coordVars, ledgerVars, Kind, Attempt, CachedAs, YesBacked, CommitOrder
<1>24. ASSUME NEW i \in Attempt, HandlePrepare(t, i) PROVE VoteBacked(t)'
    BY <1>24 DEF TypeOK, TxInv, VoteBacked, HandlePrepare, HGoto, outVars, partnerVars,
           coordVars, ledgerVars, Kind, Attempt, YesBacked, CommitOrder
<1>25. ASSUME NEW i \in Attempt, HandlePersist(t, i) PROVE VoteBacked(t)'
    BY <1>25 DEF TypeOK, TxInv, VoteBacked, HandlePersist, AfterPersist, HGoto, outVars, partnerVars,
           coordVars, ledgerVars, Kind, Attempt, YesBacked, CommitOrder
<1>26. ASSUME NEW i \in Attempt, HandleCommitFind(t, i) PROVE VoteBacked(t)'
    BY <1>26 DEF TypeOK, TxInv, VoteBacked, HandleCommitFind, HGoto, outVars, partnerVars,
           coordVars, ledgerVars, Kind, Attempt, CommitRuns, CommitNoop, YesBacked, CommitOrder
<1>27. ASSUME NEW i \in Attempt, HandleCredit(t, i) PROVE VoteBacked(t)'
    BY <1>27 DEF TypeOK, TxInv, VoteBacked, HandleCredit, HGoto, outVars, partnerVars,
           coordVars, ledgerVars, Kind, Attempt, Effect, Seen, YesBacked, CommitOrder
<1>28. ASSUME NEW i \in Attempt, HandleRecord(t, i) PROVE VoteBacked(t)'
    BY <1>28 DEF TypeOK, TxInv, VoteBacked, HandleRecord, HGoto, outVars, partnerVars,
           coordVars, ledgerVars, Kind, Attempt, Effect, YesBacked, CommitOrder
<1>29. ASSUME NEW i \in Attempt, HandleFail(t, i) PROVE VoteBacked(t)'
    BY <1>29 DEF TypeOK, TxInv, VoteBacked, HandleFail, HGoto, outVars, partnerVars, coordVars,
           ledgerVars, Kind, Attempt, Effect, YesBacked, CommitOrder
<1>30. ASSUME NEW i \in Attempt, HandleRollbackFind(t, i) PROVE VoteBacked(t)'
    BY <1>30 DEF TypeOK, TxInv, VoteBacked, HandleRollbackFind, HGoto, outVars, partnerVars,
           coordVars, ledgerVars, Kind, Attempt, YesBacked, CommitOrder
<1>31. CASE CoordinatorCrash(t)
    BY <1>31 DEF TypeOK, TxInv, VoteBacked, CoordinatorCrash, Goto, Return, outVars,
           partnerVars, coordVars, ledgerVars, Kind, Attempt, YesBacked, CommitOrder
<1>32. ASSUME NEW k \in Kind, NEW i \in Attempt, RequestLost(t, k, i) PROVE VoteBacked(t)'
    BY <1>32 DEF TypeOK, TxInv, VoteBacked, RequestLost, HGoto, outVars, partnerVars, coordVars,
           ledgerVars, Kind, Attempt, YesBacked, CommitOrder
<1>33. ASSUME NEW k \in Kind, NEW i \in Attempt, HandlerDies(t, k, i) PROVE VoteBacked(t)'
    BY <1>33 DEF TypeOK, TxInv, VoteBacked, HandlerDies, HGoto, outVars, partnerVars, coordVars,
           ledgerVars, Kind, Attempt, YesBacked, CommitOrder
<1> QED BY <1>1, <1>2, <1>3, <1>4, <1>5, <1>6, <1>7, <1>8, <1>9, <1>10, <1>11, <1>12, <1>13,
       <1>14, <1>15, <1>16, <1>17, <1>18, <1>19, <1>20, <1>21, <1>22, <1>23, <1>24, <1>25,
       <1>26, <1>27, <1>28, <1>29, <1>30, <1>31, <1>32, <1>33 DEF Step, Coordinator, Scheduler,
       Handler, Kind

\* No rollback at the partner without a ROLLBACK_TX.
LEMMA RollbackBackedStep ==
  ASSUME TypeOK, NEW t \in Tx, TxInv(t), Step(t)
  PROVE  RollbackBacked(t)'
<1>1. CASE PrepareValidate(t)
    BY <1>1 DEF TypeOK, TxInv, RollbackBacked, PrepareValidate, Goto, Return, outVars,
           partnerVars, coordVars, ledgerVars, Kind, Attempt, CommitOrder, MessageBacked,
           YesBacked
<1>2. CASE PrepareReserve(t)
    BY <1>2 DEF TypeOK, TxInv, RollbackBacked, PrepareReserve, Goto, Return, outVars,
           partnerVars, coordVars, ledgerVars, Kind, Attempt, ReserveMonas, CanReserve,
           CommitOrder, MessageBacked, YesBacked
<1>3. CASE PreparePersist(t)
    BY <1>3 DEF TypeOK, TxInv, RollbackBacked, PreparePersist, Goto, Return, outVars,
           partnerVars, coordVars, ledgerVars, Kind, Attempt, Effect, Seen, CommitOrder,
           MessageBacked, YesBacked
<1>4. CASE PrepareCompensate(t)
    BY <1>4 DEF TypeOK, TxInv, RollbackBacked, PrepareCompensate, Goto, Return, outVars,
           partnerVars, coordVars, ledgerVars, Kind, Attempt, Release, ReleaseReservation,
           CommitOrder, MessageBacked, YesBacked
<1>5. CASE SendNewTx(t)
    BY <1>5 DEF TypeOK, TxInv, RollbackBacked, SendNewTx, Goto, Return, outVars, partnerVars,
           coordVars, ledgerVars, Kind, Attempt, Send, Effect, Seen, CommitOrder, MessageBacked,
           YesBacked
<1>6. CASE ReceiveVote(t)
    BY <1>6 DEF TypeOK, TxInv, RollbackBacked, ReceiveVote, AfterVote, Goto, Return, outVars, partnerVars,
           coordVars, ledgerVars, Kind, Attempt, MarkSent, Seen, CommitOrder, MessageBacked,
           YesBacked
<1>7. CASE VoteTimeout(t)
    BY <1>7 DEF TypeOK, TxInv, RollbackBacked, VoteTimeout, Goto, Return, outVars, partnerVars,
           coordVars, ledgerVars, Kind, Attempt, CommitOrder, MessageBacked, YesBacked
<1>8. CASE CommitRef(t)
    BY <1>8 DEF TypeOK, TxInv, RollbackBacked, CommitRef, AfterCommitRef, Goto, Return, outVars, partnerVars,
           coordVars, ledgerVars, Kind, Attempt, CommitReservation, CanCommit, CommitRuns,
           CommitNoop, CommitOrder, MessageBacked, YesBacked
<1>9. CASE CommitStatus(t)
    BY <1>9 DEF TypeOK, TxInv, RollbackBacked, CommitStatus, AfterCommitStatus, Goto, Return, outVars, partnerVars,
           coordVars, ledgerVars, Kind, Attempt, Effect, Seen, CommitOrder, MessageBacked,
           YesBacked
<1>10. CASE CommitFailStatus(t)
    BY <1>10 DEF TypeOK, TxInv, RollbackBacked, CommitFailStatus, Goto, Return, outVars,
           partnerVars, coordVars, ledgerVars, Kind, Attempt, Effect, CommitOrder,
           MessageBacked, YesBacked
<1>11. CASE RecordOutbound(t)
    BY <1>11 DEF TypeOK, TxInv, RollbackBacked, RecordOutbound, Goto, Return, outVars,
           partnerVars, coordVars, ledgerVars, Kind, Attempt, Effect, CommitOrder,
           MessageBacked, YesBacked
<1>12. CASE SendCommitTx(t)
    BY <1>12 DEF TypeOK, TxInv, RollbackBacked, SendCommitTx, Goto, Return, outVars,
           partnerVars, coordVars, ledgerVars, Kind, Attempt, Send, Effect, Seen, CommitOrder,
           MessageBacked, YesBacked
<1>13. CASE RollbackRelease(t)
    BY <1>13 DEF TypeOK, TxInv, RollbackBacked, RollbackRelease, Goto, Return, outVars,
           partnerVars, coordVars, ledgerVars, Kind, Attempt, Release, ReleaseReservation,
           CanRelease, CommitOrder, MessageBacked, YesBacked
<1>14. CASE RollbackStatus(t)
    BY <1>14 DEF TypeOK, TxInv, RollbackBacked, RollbackStatus, Goto, Return, outVars,
           partnerVars, coordVars, ledgerVars, Kind, Attempt, CommitOrder, MessageBacked,
           YesBacked
<1>15. CASE SendRollbackTx(t)
    BY <1>15 DEF TypeOK, TxInv, RollbackBacked, SendRollbackTx, Goto, Return, outVars,
           partnerVars, coordVars, ledgerVars, Kind, Attempt, Send, Effect, Seen, CommitOrder,
           MessageBacked, YesBacked
<1>16. CASE ReceiveAck(t)
    BY <1>16 DEF TypeOK, TxInv, RollbackBacked, ReceiveAck, Goto, Return, outVars, partnerVars,
           coordVars, ledgerVars, Kind, Attempt, MarkSent, Seen, WaitKind, CommitOrder,
           MessageBacked, YesBacked
<1>17. CASE AckTimeout(t)
    BY <1>17 DEF TypeOK, TxInv, RollbackBacked, AckTimeout, Goto, Return, outVars, partnerVars,
           coordVars, ledgerVars, Kind, Attempt, WaitKind, CommitOrder, MessageBacked, YesBacked
<1>18. ASSUME NEW k \in Kind, Resend(t, k) PROVE RollbackBacked(t)'
    BY <1>18 DEF TypeOK, TxInv, RollbackBacked, Resend, HGoto, outVars, partnerVars, coordVars,
           ledgerVars, Kind, Attempt, CommitOrder, MessageBacked, YesBacked
<1>19. ASSUME NEW k \in Kind, ResendOk(t, k) PROVE RollbackBacked(t)'
  <2>1. \A j \in Kind : out[t][j] = "none" => out'[t][j] = "none"
    BY <1>19 DEF ResendOk, MarkSent, Seen, MessageBacked, TxInv, TypeOK
  <2>2. \A j \in Kind : out'[t][j] = "none" => out[t][j] = "none"
    BY <1>19 DEF ResendOk, MarkSent, Seen, TypeOK
  <2>3. UNCHANGED <<pc, result, rowB>>
    BY <1>19 DEF ResendOk, coordVars, partnerVars, ledgerVars
  <2> QED BY <2>1, <2>2, <2>3 DEF RollbackBacked, TxInv, Kind
<1>20. ASSUME NEW k \in Kind, ResendFailed(t, k) PROVE RollbackBacked(t)'
  <2>1. \A j \in Kind : out[t][j] = "none" => out'[t][j] = "none"
    BY <1>20 DEF ResendFailed, MarkSent, Seen, MessageBacked, TxInv, TypeOK
  <2>2. \A j \in Kind : out'[t][j] = "none" => out[t][j] = "none"
    BY <1>20 DEF ResendFailed, MarkSent, Seen, TypeOK
  <2>3. UNCHANGED <<pc, result, rowB>>
    BY <1>20 DEF ResendFailed, coordVars, partnerVars, ledgerVars
  <2> QED BY <2>1, <2>2, <2>3 DEF RollbackBacked, TxInv, Kind
<1>21. ASSUME NEW k \in Kind, NEW i \in Attempt, Lookup(t, k, i) PROVE RollbackBacked(t)'
    BY <1>21 DEF TypeOK, TxInv, RollbackBacked, Lookup, HGoto, outVars, partnerVars, coordVars,
           ledgerVars, Kind, Attempt, CommitOrder, MessageBacked, YesBacked
<1>22. ASSUME NEW k \in Kind, NEW i \in Attempt, HandleStatus(t, k, i) PROVE RollbackBacked(t)'
    BY <1>22 DEF TypeOK, TxInv, RollbackBacked, HandleStatus, HGoto, outVars, partnerVars,
           coordVars, ledgerVars, Kind, Attempt, FinalStatus, Effect, Seen, CommitOrder,
           MessageBacked, YesBacked
<1>23. ASSUME NEW k \in Kind, NEW i \in Attempt, HandleAnswer(t, k, i) PROVE RollbackBacked(t)'
    BY <1>23 DEF TypeOK, TxInv, RollbackBacked, HandleAnswer, HGoto, outVars, partnerVars,
           coordVars, ledgerVars, Kind, Attempt, CachedAs, CommitOrder, MessageBacked, YesBacked
<1>24. ASSUME NEW i \in Attempt, HandlePrepare(t, i) PROVE RollbackBacked(t)'
    BY <1>24 DEF TypeOK, TxInv, RollbackBacked, HandlePrepare, HGoto, outVars, partnerVars,
           coordVars, ledgerVars, Kind, Attempt, CommitOrder, MessageBacked, YesBacked
<1>25. ASSUME NEW i \in Attempt, HandlePersist(t, i) PROVE RollbackBacked(t)'
    BY <1>25 DEF TypeOK, TxInv, RollbackBacked, HandlePersist, AfterPersist, HGoto, outVars, partnerVars,
           coordVars, ledgerVars, Kind, Attempt, CommitOrder, MessageBacked, YesBacked
<1>26. ASSUME NEW i \in Attempt, HandleCommitFind(t, i) PROVE RollbackBacked(t)'
    BY <1>26 DEF TypeOK, TxInv, RollbackBacked, HandleCommitFind, HGoto, outVars, partnerVars,
           coordVars, ledgerVars, Kind, Attempt, CommitRuns, CommitNoop, CommitOrder,
           MessageBacked, YesBacked
<1>27. ASSUME NEW i \in Attempt, HandleCredit(t, i) PROVE RollbackBacked(t)'
    BY <1>27 DEF TypeOK, TxInv, RollbackBacked, HandleCredit, HGoto, outVars, partnerVars,
           coordVars, ledgerVars, Kind, Attempt, Effect, Seen, CommitOrder, MessageBacked,
           YesBacked
<1>28. ASSUME NEW i \in Attempt, HandleRecord(t, i) PROVE RollbackBacked(t)'
    BY <1>28 DEF TypeOK, TxInv, RollbackBacked, HandleRecord, HGoto, outVars, partnerVars,
           coordVars, ledgerVars, Kind, Attempt, Effect, CommitOrder, MessageBacked, YesBacked
<1>29. ASSUME NEW i \in Attempt, HandleFail(t, i) PROVE RollbackBacked(t)'
    BY <1>29 DEF TypeOK, TxInv, RollbackBacked, HandleFail, HGoto, outVars, partnerVars,
           coordVars, ledgerVars, Kind, Attempt, Effect, CommitOrder, MessageBacked, YesBacked
<1>30. ASSUME NEW i \in Attempt, HandleRollbackFind(t, i) PROVE RollbackBacked(t)'
    BY <1>30 DEF TypeOK, TxInv, RollbackBacked, HandleRollbackFind, HGoto, outVars, partnerVars,
           coordVars, ledgerVars, Kind, Attempt, CommitOrder, MessageBacked, YesBacked
<1>31. CASE CoordinatorCrash(t)
    BY <1>31 DEF TypeOK, TxInv, RollbackBacked, CoordinatorCrash, Goto, Return, outVars,
           partnerVars, coordVars, ledgerVars, Kind, Attempt, CommitOrder, MessageBacked,
           YesBacked
<1>32. ASSUME NEW k \in Kind, NEW i \in Attempt, RequestLost(t, k, i) PROVE RollbackBacked(t)'
    BY <1>32 DEF TypeOK, TxInv, RollbackBacked, RequestLost, HGoto, outVars, partnerVars,
           coordVars, ledgerVars, Kind, Attempt, CommitOrder, MessageBacked, YesBacked
<1>33. ASSUME NEW k \in Kind, NEW i \in Attempt, HandlerDies(t, k, i) PROVE RollbackBacked(t)'
    BY <1>33 DEF TypeOK, TxInv, RollbackBacked, HandlerDies, HGoto, outVars, partnerVars,
           coordVars, ledgerVars, Kind, Attempt, CommitOrder, MessageBacked, YesBacked
<1> QED BY <1>1, <1>2, <1>3, <1>4, <1>5, <1>6, <1>7, <1>8, <1>9, <1>10, <1>11, <1>12, <1>13,
       <1>14, <1>15, <1>16, <1>17, <1>18, <1>19, <1>20, <1>21, <1>22, <1>23, <1>24, <1>25,
       <1>26, <1>27, <1>28, <1>29, <1>30, <1>31, <1>32, <1>33 DEF Step, Coordinator, Scheduler,
       Handler, Kind

------------------------------------------------------------------------------
(* The invariant and what follows from it. *)

\* Nor does it break the inductive invariant.
LEMMA SameKeeps ==
  ASSUME NEW s, Same(s), TxInv(s)
  PROVE  TxInv(s)'
  BY DEF Same, TxInv, CommitOrder, MessageBacked, YesBacked, VoteBacked, RollbackBacked

\* The inductive invariant holds at the start.
LEMMA InitInv == Init => IndInv
<1> SUFFICES ASSUME Init PROVE IndInv
  OBVIOUS
<1>1. TypeOK
  BY DEF Init, LedgerInit, TypeOK, LedgerTypeOK, ResvStatus, CoordPC, RowStatus, OutStatus,
         Answer, HandlerPC
<1>2. ASSUME NEW t \in Tx PROVE TxInv(t)
  BY DEF Init, LedgerInit, TxInv, CommitOrder, MessageBacked, YesBacked, VoteBacked,
         RollbackBacked, Kind
<1> QED BY <1>1, <1>2 DEF IndInv

\* Every step keeps it.
LEMMA NextInv == IndInv /\ [Next]_vars => IndInv'
<1> SUFFICES ASSUME IndInv, [Next]_vars PROVE IndInv'
  OBVIOUS
<1>1. CASE Next
  <2>1. PICK t \in Tx : Step(t)
    BY <1>1, NextIsStep
  <2>2. TypeOK'
    BY <2>1, TypeStep DEF IndInv
  <2>3. ASSUME NEW s \in Tx PROVE TxInv(s)'
    <3>1. CASE s = t
      BY <2>1, <3>1, CommitOrderStep, MessageBackedStep, YesBackedStep, VoteBackedStep,
         RollbackBackedStep DEF IndInv, TxInv
    <3>2. CASE s # t
      BY <2>1, <3>2, Elsewhere, SameKeeps DEF IndInv
    <3> QED BY <3>1, <3>2
  <2> QED BY <2>2, <2>3 DEF IndInv
<1>2. CASE UNCHANGED vars
  <2>1. TypeOK'
    BY <1>2, TypeStutter DEF IndInv
  <2>2. ASSUME NEW s \in Tx PROVE TxInv(s)'
    BY <1>2, SameKeeps DEF IndInv, Same, vars
  <2> QED BY <2>1, <2>2 DEF IndInv
<1> QED BY <1>1, <1>2

\* The inductive invariant holds throughout every behaviour.
THEOREM Invariance == Spec => []IndInv
  BY InitInv, NextInv, PTL DEF Spec

\* Every variable keeps its type.
THEOREM TypeCorrect == Spec => []TypeOK
<1>1. IndInv => TypeOK
  BY DEF IndInv
<1> QED BY <1>1, Invariance, PTL

\* The recipient is credited, and a movement recorded, only when the sender's
\* bank has taken the money: for any number of payments, resends, lost
\* answers and crashes (SendOutboundPayment, CommitLocal, handleCommitTx).
THEOREM CreditSafety == Spec => []CreditedOnlyIfDebited
<1>1. IndInv => CreditedOnlyIfDebited
  BY DEF IndInv, TxInv, CommitOrder, CreditedOnlyIfDebited
<1> QED BY <1>1, Invariance, PTL

\* A payment reported as sent was taken from the sender and stands PREPARED,
\* COMMITTED or FAILED at the partner, never rolled back.
THEOREM SuccessSafety == Spec => []SuccessIsKept
<1>1. IndInv => SuccessIsKept
  BY DEF IndInv, TypeOK, RowStatus, TxInv, CommitOrder, VoteBacked, RollbackBacked, SuccessIsKept
<1> QED BY <1>1, Invariance, PTL

\* A payment the sender's bank rolled back moves no money, now or later.
THEOREM RollbackSafety == Spec => []RolledBackMovesNothing
<1>1. IndInv => RolledBackMovesNothing
  BY DEF IndInv, TypeOK, TxInv, CommitOrder, RolledBackMovesNothing
<1> QED BY <1>1, Invariance, PTL
--------------------------------------------------------------------------
(* The ledger. *)

\* What is held on an account.
HeldSum(a) == SumFunctionOnSet(Amt, Held(a))

LedgerInv == LedgerTypeOK /\ Backed

\* The reservations are finitely many and their amounts natural numbers.
LEMMA HeldFinite ==
  ASSUME NEW a
  PROVE  IsFiniteSet(Held(a)) /\ (\A t \in Held(a) : Amt[t] \in Int) /\ HeldSum(a) \in Int
<1>1. IsFiniteSet(Held(a))
  BY LedgerAssumption, FS_Subset DEF Held
<1>2. \A t \in Held(a) : Amt[t] \in Int
  BY LedgerAssumption DEF Held
<1> QED BY <1>1, <1>2, SumInt DEF HeldSum

\* A reservation that becomes HELD adds its amount to what its account holds,
\* and nothing to what any other account holds.
LEMMA HoldAdded ==
  ASSUME LedgerTypeOK, NEW t \in Tx, resv[t] # "HELD", resv' = [resv EXCEPT ![t] = "HELD"], NEW a \in Acct
  PROVE  HeldSum(a)' = IF a = SrcOf[t] THEN HeldSum(a) + Amt[t] ELSE HeldSum(a)
<1>1. Held(a)' = IF a = SrcOf[t] THEN Held(a) \cup {t} ELSE Held(a)
  BY DEF Held, LedgerTypeOK
<1>2. t \notin Held(a) /\ Amt[t] \in Int
  BY LedgerAssumption DEF Held
<1>3. SumFunctionOnSet(Amt, Held(a) \cup {t}) = HeldSum(a) + Amt[t]
  BY <1>2, HeldFinite, SumAdd DEF HeldSum
<1> QED BY <1>1, <1>3 DEF HeldSum

\* A HELD reservation that is committed or released takes its amount off.
LEMMA HoldRemoved ==
  ASSUME LedgerTypeOK, NEW t \in Tx, resv[t] = "HELD", NEW s, s # "HELD",
         resv' = [resv EXCEPT ![t] = s], NEW a \in Acct
  PROVE  HeldSum(a)' = IF a = SrcOf[t] THEN HeldSum(a) - Amt[t] ELSE HeldSum(a)
<1>1. Held(a)' = IF a = SrcOf[t] THEN Held(a) \ {t} ELSE Held(a)
  BY DEF Held, LedgerTypeOK
<1>2. CASE a = SrcOf[t]
  <2>1. t \in Held(a)
    BY <1>2 DEF Held
  <2>2. HeldSum(a) = Amt[t] + SumFunctionOnSet(Amt, Held(a) \ {t})
    BY <2>1, HeldFinite, SumRemove DEF HeldSum
  <2>3. HeldSum(a)' = SumFunctionOnSet(Amt, Held(a) \ {t})
    BY <1>1, <1>2 DEF HeldSum
  <2>4. IsFiniteSet(Held(a) \ {t})
    BY HeldFinite, FS_RemoveElement
  <2>5. SumFunctionOnSet(Amt, Held(a) \ {t}) \in Int /\ Amt[t] \in Int
    BY <2>1, <2>4, HeldFinite, SumInt
  <2> QED BY <1>2, <2>2, <2>3, <2>5
<1>3. CASE a # SrcOf[t]
  BY <1>1, <1>3 DEF HeldSum
<1> QED BY <1>2, <1>3

\* A reservation that was not HELD and does not become HELD changes no sum.
LEMMA HoldKept ==
  ASSUME LedgerTypeOK, NEW t \in Tx, resv[t] # "HELD", NEW s, s # "HELD",
         resv' = [resv EXCEPT ![t] = s], NEW a \in Acct
  PROVE  HeldSum(a)' = HeldSum(a)
<1>1. Held(a)' = Held(a)
  BY DEF Held, LedgerTypeOK
<1> QED BY <1>1 DEF HeldSum

\* Backed, in terms of HeldSum.
LEMMA BackedIs ==
  Backed <=> \A a \in Acct : avail[a] >= 0 /\ bal[a] = avail[a] + HeldSum(a)
  BY DEF Backed, HeldSum

\* ... and in the next state.
LEMMA BackedIsNext ==
  Backed' <=> \A a \in Acct : avail'[a] >= 0 /\ bal'[a] = avail'[a] + HeldSum(a)'
  BY DEF Backed, HeldSum

\* ReserveMonas keeps Backed.
LEMMA ReserveKeeps ==
  ASSUME LedgerInv, NEW t \in Tx, ReserveMonas(t) PROVE LedgerInv'
<1>1. LedgerTypeOK'
  <2>1. SrcOf[t] \in Acct /\ Amt[t] \in Int
    BY LedgerAssumption
  <2>2. LedgerTypeOK
    BY DEF LedgerInv
  <2> QED BY <2>1, <2>2 DEF LedgerTypeOK, ReserveMonas, ResvStatus
<1>2. ASSUME NEW a \in Acct PROVE avail'[a] >= 0 /\ bal'[a] = avail'[a] + HeldSum(a)'
  <2>1. HeldSum(a)' = IF a = SrcOf[t] THEN HeldSum(a) + Amt[t] ELSE HeldSum(a)
    BY HoldAdded DEF LedgerInv, ReserveMonas, CanReserve
  <2>2. avail[a] >= 0 /\ bal[a] = avail[a] + HeldSum(a)
    BY BackedIs DEF LedgerInv
  <2>3. /\ bal'[a] = bal[a]
        /\ avail'[a] = IF a = SrcOf[t] THEN avail[a] - Amt[t] ELSE avail[a]
        /\ a = SrcOf[t] => avail[a] >= Amt[t]
    BY DEF LedgerInv, LedgerTypeOK, ReserveMonas, CanReserve
  <2>4. bal[a] \in Int /\ avail[a] \in Int /\ HeldSum(a) \in Int /\ Amt[t] \in Int
    BY LedgerAssumption, HeldFinite DEF LedgerInv, LedgerTypeOK
  <2> QED BY <2>1, <2>2, <2>3, <2>4
<1> QED BY <1>1, <1>2, BackedIsNext DEF LedgerInv

\* CommitReservation keeps Backed, the first time and when it is repeated.
LEMMA CommitKeeps ==
  ASSUME LedgerInv, NEW t \in Tx, CommitReservation(t) PROVE LedgerInv'
<1>1. LedgerTypeOK'
  <2>1. SrcOf[t] \in Acct /\ Amt[t] \in Int
    BY LedgerAssumption
  <2>2. LedgerTypeOK
    BY DEF LedgerInv
  <2> QED BY <2>1, <2>2 DEF LedgerTypeOK, CommitReservation, ResvStatus
<1>2. ASSUME NEW a \in Acct PROVE avail'[a] >= 0 /\ bal'[a] = avail'[a] + HeldSum(a)'
  <2>1. HeldSum(a)' = IF resv[t] = "HELD" /\ a = SrcOf[t] THEN HeldSum(a) - Amt[t] ELSE HeldSum(a)
    BY HoldRemoved, HoldKept DEF LedgerInv, CommitReservation
  <2>2. avail[a] >= 0 /\ bal[a] = avail[a] + HeldSum(a)
    BY BackedIs DEF LedgerInv
  <2>3. /\ avail'[a] = avail[a]
        /\ bal'[a] = IF resv[t] = "HELD" /\ a = SrcOf[t] THEN bal[a] - Amt[t] ELSE bal[a]
    BY DEF LedgerInv, LedgerTypeOK, CommitReservation
  <2>4. bal[a] \in Int /\ avail[a] \in Int /\ HeldSum(a) \in Int /\ Amt[t] \in Int
    BY LedgerAssumption, HeldFinite DEF LedgerInv, LedgerTypeOK
  <2> QED BY <2>1, <2>2, <2>3, <2>4
<1> QED BY <1>1, <1>2, BackedIsNext DEF LedgerInv

\* ReleaseReservation keeps Backed, the first time and when it is repeated.
LEMMA ReleaseKeeps ==
  ASSUME LedgerInv, NEW t \in Tx, ReleaseReservation(t) PROVE LedgerInv'
<1>1. LedgerTypeOK'
  <2>1. SrcOf[t] \in Acct /\ Amt[t] \in Int
    BY LedgerAssumption
  <2>2. LedgerTypeOK
    BY DEF LedgerInv
  <2> QED BY <2>1, <2>2 DEF LedgerTypeOK, ReleaseReservation, ResvStatus
<1>2. ASSUME NEW a \in Acct PROVE avail'[a] >= 0 /\ bal'[a] = avail'[a] + HeldSum(a)'
  <2>1. HeldSum(a)' = IF resv[t] = "HELD" /\ a = SrcOf[t] THEN HeldSum(a) - Amt[t] ELSE HeldSum(a)
    BY HoldRemoved, HoldKept DEF LedgerInv, ReleaseReservation
  <2>2. avail[a] >= 0 /\ bal[a] = avail[a] + HeldSum(a)
    BY BackedIs DEF LedgerInv
  <2>3. /\ bal'[a] = bal[a]
        /\ avail'[a] = IF resv[t] = "HELD" /\ a = SrcOf[t] THEN avail[a] + Amt[t] ELSE avail[a]
    BY DEF LedgerInv, LedgerTypeOK, ReleaseReservation
  <2>4. bal[a] \in Int /\ avail[a] \in Int /\ HeldSum(a) \in Int /\ Amt[t] \in Nat
    BY LedgerAssumption, HeldFinite DEF LedgerInv, LedgerTypeOK
  <2> QED BY <2>1, <2>2, <2>3, <2>4
<1> QED BY <1>1, <1>2, BackedIsNext DEF LedgerInv

\* An ordinary posting of any amount keeps Backed.
LEMMA PostingKeeps ==
  ASSUME LedgerInv, NEW a \in Acct, NEW n \in Nat, Debit(a, n) \/ Credit(a, n) PROVE LedgerInv'
<1>1. LedgerTypeOK'
  BY DEF LedgerInv, LedgerTypeOK, Debit, Credit
<1>2. ASSUME NEW b \in Acct PROVE avail'[b] >= 0 /\ bal'[b] = avail'[b] + HeldSum(b)'
  <2>1. HeldSum(b)' = HeldSum(b)
    BY DEF HeldSum, Held, Debit, Credit
  <2>2. avail[b] >= 0 /\ bal[b] = avail[b] + HeldSum(b)
    BY BackedIs DEF LedgerInv
  <2>3. bal[b] \in Int /\ avail[b] \in Int /\ HeldSum(b) \in Int
    BY HeldFinite DEF LedgerInv, LedgerTypeOK
  <2>4. \/ bal'[b] = bal[b] /\ avail'[b] = avail[b]
        \/ bal'[b] = bal[b] - n /\ avail'[b] = avail[b] - n /\ avail[b] >= n
        \/ bal'[b] = bal[b] + n /\ avail'[b] = avail[b] + n
    BY DEF LedgerInv, LedgerTypeOK, Debit, Credit
  <2> QED BY <2>1, <2>2, <2>3, <2>4
<1> QED BY <1>1, <1>2, BackedIsNext DEF LedgerInv

\* A step that leaves the ledger alone keeps Backed.
LEMMA RestKeeps == LedgerInv /\ UNCHANGED ledgerVars => LedgerInv'
<1> SUFFICES ASSUME LedgerInv, UNCHANGED ledgerVars PROVE LedgerInv'
  OBVIOUS
<1>1. \A a \in Acct : Held(a)' = Held(a)
  BY DEF Held, ledgerVars
<1> QED BY <1>1 DEF LedgerInv, LedgerTypeOK, Backed, ledgerVars

\* The opening balances hold nothing.
LEMMA LedgerStart == LedgerInit => LedgerInv
<1> SUFFICES ASSUME LedgerInit PROVE LedgerInv
  OBVIOUS
<1>1. LedgerTypeOK
  BY LedgerAssumption DEF LedgerInit, LedgerTypeOK, ResvStatus
<1>2. ASSUME NEW a \in Acct PROVE HeldSum(a) = 0
  <2>1. Held(a) = {}
    BY DEF LedgerInit, Held
  <2> QED BY <2>1, SumEmpty DEF HeldSum
<1>3. \A a \in Acct : avail[a] \in Nat /\ bal[a] = avail[a]
  BY LedgerAssumption DEF LedgerInit
<1> QED BY <1>1, <1>2, <1>3, BackedIs DEF LedgerInv

\* Every step of the ledger keeps its invariant.
LEMMA LedgerStepKeeps == LedgerInv /\ [LedgerNext]_ledgerVars => LedgerInv'
<1> SUFFICES ASSUME LedgerInv, [LedgerNext]_ledgerVars PROVE LedgerInv'
  OBVIOUS
<1>1. ASSUME NEW t \in Tx, ReserveMonas(t) PROVE LedgerInv'
  BY <1>1, ReserveKeeps
<1>2. ASSUME NEW t \in Tx, CommitReservation(t) PROVE LedgerInv'
  BY <1>2, CommitKeeps
<1>3. ASSUME NEW t \in Tx, ReleaseReservation(t) PROVE LedgerInv'
  BY <1>3, ReleaseKeeps
<1>4. ASSUME NEW a \in Acct, Debit(a, 1) \/ Credit(a, 1) PROVE LedgerInv'
  BY <1>4, PostingKeeps
<1>5. CASE UNCHANGED ledgerVars
  BY <1>5, RestKeeps
<1> QED BY <1>1, <1>2, <1>3, <1>4, <1>5 DEF LedgerNext

\* The balances of every account stay numbers and every reservation keeps to
\* its four states (account_table and interbank_reservations).
THEOREM LedgerTypes == LedgerSpec => []LedgerTypeOK
<1>1. LedgerInv => LedgerTypeOK
  BY DEF LedgerInv
<1> QED BY <1>1, LedgerStart, LedgerStepKeeps, PTL DEF LedgerSpec

\* At all times an account's available balance is its booked balance less what
\* is HELD on it, and is not negative: no order of ReserveMonas,
\* CommitReservation, ReleaseReservation, debits, credits and their repetitions
\* loses a hold or frees one twice.
THEOREM LedgerBacked == LedgerSpec => []Backed
<1>1. LedgerInv => Backed
  BY DEF LedgerInv
<1> QED BY <1>1, LedgerStart, LedgerStepKeeps, PTL DEF LedgerSpec
--------------------------------------------------------------------------
(* The payment on the ledger. *)

USE LedgerAssumption, PaymentAssumption

\* The only faults are lost requests and answers.
LossOnly == Faults \subseteq {"net"}

\* The attempts at COMMIT_TX after a handler has moved.
LEMMA HandlerMoved ==
  ASSUME TypeOK, NEW t \in Tx, NEW k \in Kind, NEW i \in Attempt, NEW l, HGoto(t, k, i, l)
  PROVE  \A j \in Attempt : hpc'[t]["COMMIT_TX"][j] =
            IF k = "COMMIT_TX" /\ j = i THEN l ELSE hpc[t]["COMMIT_TX"][j]
  BY DEF TypeOK, HGoto, Kind

\* Only the last attempt at COMMIT_TX may be running.
LEMMA LastRuns ==
  ASSUME TypeOK, NEW t \in Tx, CreditOnce(t), NEW i \in Attempt, hpc[t]["COMMIT_TX"][i] \notin {"off", "done"}
  PROVE  /\ i = att[t]["COMMIT_TX"]
         /\ \A j \in Attempt : j # i => hpc[t]["COMMIT_TX"][j] \in {"off", "done"}
<1>1. att[t]["COMMIT_TX"] \in Nat
  BY DEF TypeOK, Kind
<1>2. \A j \in Attempt : /\ j \in Nat
                         /\ j > att[t]["COMMIT_TX"] => hpc[t]["COMMIT_TX"][j] = "off"
                         /\ j < att[t]["COMMIT_TX"] => hpc[t]["COMMIT_TX"][j] = "done"
  BY DEF CreditOnce, Attempt
<1>3. i = att[t]["COMMIT_TX"]
  BY <1>1, <1>2
<1> QED BY <1>1, <1>2, <1>3

\* A handler that moves between states in which it neither credits nor has
\* credited leaves CreditOnce as it is.
LEMMA HandlerPasses ==
  ASSUME TypeOK, NEW t \in Tx, CreditOnce(t), NEW k \in Kind, NEW i \in Attempt, NEW l, HGoto(t, k, i, l),
         hpc[t][k][i] \notin {"off", "done"},
         k = "COMMIT_TX" => hpc[t][k][i] \notin {"recordIn", "status"} /\ l \notin {"off", "fail", "credit"},
         UNCHANGED <<rowB, credits, out, att>>
  PROVE  CreditOnce(t)'
<1>1. \A j \in Attempt : hpc'[t]["COMMIT_TX"][j] =
         IF k = "COMMIT_TX" /\ j = i THEN l ELSE hpc[t]["COMMIT_TX"][j]
  BY HandlerMoved
<1>2. k = "COMMIT_TX" => i = att[t]["COMMIT_TX"]
  BY DEF CreditOnce, TypeOK, Attempt, Kind
<1> QED BY <1>1, <1>2 DEF CreditOnce, TypeOK, Attempt, Kind

\* When only requests and answers get lost, a step of a payment keeps its
\* credit unique: the action that could repeat one, HandleCommitFind, finds the
\* row of the first one COMMITTED.
LEMMA OnceStep ==
  ASSUME LossOnly, TypeOK, NEW t \in Tx, TxInv(t), CreditOnce(t), Step(t)
  PROVE  CreditOnce(t)'
<1> USE DEF LossOnly
<1>1. CASE PrepareValidate(t)
  BY <1>1 DEF PrepareValidate, CreditOnce, outVars, partnerVars
<1>2. CASE PrepareReserve(t)
  BY <1>2 DEF PrepareReserve, CreditOnce, outVars, partnerVars
<1>3. CASE PreparePersist(t)
  BY <1>3 DEF PreparePersist, CreditOnce, outVars, partnerVars
<1>4. CASE PrepareCompensate(t)
  BY <1>4 DEF PrepareCompensate, CreditOnce, outVars, partnerVars
<1>5. CASE SendNewTx(t)
  BY <1>5 DEF SendNewTx, Send, Seen, Effect, TypeOK, Kind, CreditOnce, partnerVars
<1>6. CASE ReceiveVote(t)
  BY <1>6 DEF MarkSent, Seen, TypeOK, ReceiveVote, Kind, CreditOnce, partnerVars
<1>7. CASE VoteTimeout(t)
  BY <1>7 DEF VoteTimeout, CreditOnce, outVars, partnerVars
<1>8. CASE CommitRef(t)
  BY <1>8 DEF CommitRef, CreditOnce, outVars, partnerVars
<1>9. CASE CommitStatus(t)
  BY <1>9 DEF CommitStatus, CreditOnce, outVars, partnerVars
<1>10. CASE CommitFailStatus(t)
  BY <1>10 DEF CommitFailStatus, CreditOnce, outVars, partnerVars
<1>11. CASE RecordOutbound(t)
  BY <1>11 DEF RecordOutbound, CreditOnce, outVars, partnerVars
<1>12. CASE SendCommitTx(t)
  <2>1. Send(t, "COMMIT_TX", "ok") /\ pc[t] = "commitTx" /\ UNCHANGED <<rowB, credits>>
    BY <1>12 DEF SendCommitTx, Send, Call, Fault, partnerVars
  <2>2. /\ att'[t]["COMMIT_TX"] = 1 /\ out'[t]["COMMIT_TX"] # "none"
        /\ out'[t]["ROLLBACK_TX"] = out[t]["ROLLBACK_TX"]
    BY <2>1 DEF Send, Seen, Effect, TypeOK, Kind
  <2>6. 1 \in Attempt /\ HGoto(t, "COMMIT_TX", 1, "net")
    BY <2>1 DEF Send, Seen, HGoto, Attempt
  <2>7. \A i \in Attempt : hpc'[t]["COMMIT_TX"][i] = IF i = 1 THEN "net" ELSE hpc[t]["COMMIT_TX"][i]
    BY <2>6, HandlerMoved DEF Kind
  <2>3. out[t]["COMMIT_TX"] = "none" /\ out[t]["ROLLBACK_TX"] = "none"
    BY <2>1 DEF TxInv, CommitOrder, RollbackBacked
  <2>4. \A i \in Attempt : hpc[t]["COMMIT_TX"][i] = "off"
    BY <2>3 DEF TxInv, MessageBacked, Kind
  <2>5. ~(credits[t] > 0) /\ credits[t] =< 1
    BY <2>3 DEF CreditOnce
  <2>8. \A i \in Attempt : i \in Nat /\ i >= 1
    BY DEF Attempt
  <2> QED BY <2>1, <2>2, <2>3, <2>4, <2>5, <2>7, <2>8 DEF CreditOnce
<1>13. CASE RollbackRelease(t)
  BY <1>13 DEF RollbackRelease, CreditOnce, outVars, partnerVars
<1>14. CASE RollbackStatus(t)
  BY <1>14 DEF RollbackStatus, CreditOnce, outVars, partnerVars
<1>15. CASE SendRollbackTx(t)
  BY <1>15 DEF SendRollbackTx, Send, Seen, Effect, TypeOK, Kind, CreditOnce, TxInv, CommitOrder,
         partnerVars
<1>16. CASE ReceiveAck(t)
  <2>1. UNCHANGED <<rowB, credits, hpc, att>>
    BY <1>16 DEF ReceiveAck, partnerVars
  <2>7. \/ UNCHANGED out
        \/ pc[t] = "waitCommit" /\ out' = [out EXCEPT ![t]["COMMIT_TX"] = "SENT"]
        \/ pc[t] = "waitRollback" /\ out' = [out EXCEPT ![t]["ROLLBACK_TX"] = "SENT"]
    BY <1>16 DEF ReceiveAck, MarkSent, Seen, WaitKind
  <2>8. /\ out[t] \in [Kind -> OutStatus] /\ out \in [Tx -> [Kind -> OutStatus]]
        /\ "COMMIT_TX" \in Kind /\ "ROLLBACK_TX" \in Kind
    BY DEF TypeOK, Kind
  <2>2. out'[t]["COMMIT_TX"] = out[t]["COMMIT_TX"] \/ (pc[t] = "waitCommit" /\ out'[t]["COMMIT_TX"] = "SENT")
    BY <2>7, <2>8
  <2>3. out'[t]["ROLLBACK_TX"] = out[t]["ROLLBACK_TX"]
          \/ (pc[t] = "waitRollback" /\ out'[t]["ROLLBACK_TX"] = "SENT")
    BY <2>7, <2>8
  <2>4. /\ pc[t] = "waitCommit" => out[t]["ROLLBACK_TX"] = "none"
        /\ pc[t] = "waitRollback" => out[t]["COMMIT_TX"] = "none"
    BY DEF TxInv, CommitOrder, RollbackBacked
  <2>5. out'[t]["COMMIT_TX"] = "none" \/ out'[t]["ROLLBACK_TX"] = "none"
    BY <2>2, <2>3, <2>4 DEF CreditOnce
  <2>6. out[t]["COMMIT_TX"] # "none" => out'[t]["COMMIT_TX"] # "none"
    BY <2>2
  <2> QED BY <2>1, <2>5, <2>6 DEF CreditOnce
<1>17. CASE AckTimeout(t)
  BY <1>17 DEF AckTimeout, CreditOnce, outVars, partnerVars
<1>18. ASSUME NEW k \in Kind, Resend(t, k) PROVE CreditOnce(t)'
  <2>1. UNCHANGED <<rowB, credits, out>>
    BY <1>18 DEF Resend, partnerVars
  <2>2. CASE k # "COMMIT_TX"
    <3>1. hpc'[t]["COMMIT_TX"] = hpc[t]["COMMIT_TX"] /\ att'[t]["COMMIT_TX"] = att[t]["COMMIT_TX"]
      BY <1>18, <2>2 DEF Resend, TypeOK, Kind
    <3> QED BY <2>1, <3>1 DEF CreditOnce
  <2>3. CASE k = "COMMIT_TX"
    <3>1. att'[t]["COMMIT_TX"] = att[t]["COMMIT_TX"] + 1 /\ att[t]["COMMIT_TX"] \in 0..MaxAttempts
      BY <1>18, <2>3 DEF Resend, TypeOK, Kind
    <3>2. att[t]["COMMIT_TX"] + 1 \in Attempt
      BY <1>18, <2>3, <3>1 DEF Resend, Attempt
    <3>3. \A i \in Attempt : hpc'[t]["COMMIT_TX"][i] =
             IF i = att[t]["COMMIT_TX"] + 1 THEN "net" ELSE hpc[t]["COMMIT_TX"][i]
      <4>1. HGoto(t, "COMMIT_TX", att[t]["COMMIT_TX"] + 1, "net")
        BY <1>18, <2>3 DEF Resend, HGoto
      <4> QED BY <3>2, <4>1, HandlerMoved DEF Kind
    <3>4. att[t]["COMMIT_TX"] > 0 => hpc[t]["COMMIT_TX"][att[t]["COMMIT_TX"]] = "done"
      BY <1>18, <2>3 DEF Resend, Fault
    <3>5. hpc[t]["COMMIT_TX"][att[t]["COMMIT_TX"] + 1] = "off"
      BY <3>1, <3>2 DEF CreditOnce, Attempt
    <3> QED BY <2>1, <3>1, <3>2, <3>3, <3>4, <3>5 DEF CreditOnce, Attempt
  <2> QED BY <2>2, <2>3
<1>19. ASSUME NEW k \in Kind, ResendOk(t, k) PROVE CreditOnce(t)'
  BY <1>19 DEF ResendOk, MarkSent, Seen, Kind, TypeOK, CreditOnce, TxInv, MessageBacked, partnerVars
<1>20. ASSUME NEW k \in Kind, ResendFailed(t, k) PROVE CreditOnce(t)'
  BY <1>20 DEF ResendFailed, Kind, TypeOK, CreditOnce, TxInv, MessageBacked, partnerVars
<1>21. ASSUME NEW k \in Kind, NEW i \in Attempt, Lookup(t, k, i) PROVE CreditOnce(t)'
  <2>1. PICK l \in {"run", "done"} : HGoto(t, k, i, l)
    BY <1>21 DEF Lookup
  <2>2. hpc[t][k][i] = "net" /\ UNCHANGED <<rowB, credits, out, att>>
    BY <1>21 DEF Lookup, partnerVars, outVars
  <2> QED BY <2>1, <2>2, HandlerPasses
<1>22. ASSUME NEW k \in Kind, NEW i \in Attempt, HandleStatus(t, k, i) PROVE CreditOnce(t)'
  <2>1. HGoto(t, k, i, "cacheOK") /\ rowB'[t] = FinalStatus(k)
    BY <1>22 DEF HandleStatus, Call, Fault, Seen, Effect, TypeOK
  <2>2. hpc[t][k][i] = "status" /\ UNCHANGED <<credits, out, att>>
    BY <1>22 DEF HandleStatus, outVars
  <2>3. \A j \in Attempt : hpc'[t]["COMMIT_TX"][j] =
           IF k = "COMMIT_TX" /\ j = i THEN "cacheOK" ELSE hpc[t]["COMMIT_TX"][j]
    BY <2>1, HandlerMoved
  <2>4. CASE k = "COMMIT_TX"
    <3>1. i = att[t]["COMMIT_TX"]
      BY <2>2, <2>4, LastRuns
    <3> QED BY <2>1, <2>2, <2>3, <2>4, <3>1 DEF CreditOnce, FinalStatus, Attempt
  <2>5. CASE k = "ROLLBACK_TX"
    <3>1. out[t]["COMMIT_TX"] = "none"
      BY <2>2, <2>5 DEF CreditOnce, TxInv, MessageBacked
    <3> QED BY <2>2, <2>3, <2>5, <3>1 DEF CreditOnce
  <2>6. CASE k = "NEW_TX"
    BY <2>2, <2>6 DEF TxInv, YesBacked
  <2> QED BY <2>4, <2>5, <2>6 DEF Kind
<1>23. ASSUME NEW k \in Kind, NEW i \in Attempt, HandleAnswer(t, k, i) PROVE CreditOnce(t)'
  <2>1. HGoto(t, k, i, "done") /\ hpc[t][k][i] \in {"cacheYES", "cacheNO", "cacheOK", "cacheERR"}
    BY <1>23 DEF HandleAnswer, CachedAs
  <2>2. UNCHANGED <<rowB, credits, out, att>>
    BY <1>23 DEF HandleAnswer, outVars
  <2> QED BY <2>1, <2>2, HandlerPasses
<1>24. ASSUME NEW i \in Attempt, HandlePrepare(t, i) PROVE CreditOnce(t)'
  <2>1. PICK l \in {"persist", "cacheNO", "cacheERR"} : HGoto(t, "NEW_TX", i, l)
    BY <1>24 DEF HandlePrepare
  <2>2. hpc[t]["NEW_TX"][i] = "run" /\ UNCHANGED <<rowB, credits, out, att>>
    BY <1>24 DEF HandlePrepare, partnerVars, outVars
  <2> QED BY <2>1, <2>2, HandlerPasses DEF Kind
<1>25. ASSUME NEW i \in Attempt, HandlePersist(t, i) PROVE CreditOnce(t)'
  <2>1. PICK l : HGoto(t, "NEW_TX", i, l)
    BY <1>25 DEF HandlePersist
  <2>2. UNCHANGED <<credits, out, att>> /\ (rowB'[t] = rowB[t] \/ rowB[t] = "none")
    BY <1>25 DEF HandlePersist, outVars, TypeOK
  <2>3. \A j \in Attempt : hpc'[t]["COMMIT_TX"][j] = hpc[t]["COMMIT_TX"][j]
    BY <2>1, HandlerMoved DEF Kind
  <2> QED BY <2>2, <2>3 DEF CreditOnce
<1>26. ASSUME NEW i \in Attempt, HandleCommitFind(t, i) PROVE CreditOnce(t)'
  <2>1. PICK l \in {"credit", "cacheOK", "cacheERR"} :
           HGoto(t, "COMMIT_TX", i, l) /\ (l = "credit" => rowB[t] = "PREPARED")
    BY <1>26 DEF HandleCommitFind, CommitRuns
  <2>2. hpc[t]["COMMIT_TX"][i] = "run" /\ UNCHANGED <<rowB, credits, out, att>>
    BY <1>26 DEF HandleCommitFind, partnerVars, outVars
  <2>3. CASE l # "credit"
    BY <2>1, <2>2, <2>3, HandlerPasses DEF Kind
  <2>4. CASE l = "credit"
    <3>1. \A j \in Attempt : hpc'[t]["COMMIT_TX"][j] = IF j = i THEN "credit" ELSE hpc[t]["COMMIT_TX"][j]
      BY <2>1, <2>4, HandlerMoved DEF Kind
    <3>2. i = att[t]["COMMIT_TX"]
      BY <2>2, LastRuns
    <3>3. \A j \in Attempt : hpc[t]["COMMIT_TX"][j] \in {"run", "off", "done"}
      BY <2>2, LastRuns
    <3>4. credits[t] = 0
      <4>1. ~(credits[t] > 0)
        BY <2>1, <2>4, <3>3 DEF CreditOnce
      <4>2. credits[t] \in Nat
        BY DEF TypeOK
      <4> QED BY <4>1, <4>2
    <3> QED BY <2>2, <3>1, <3>2, <3>4 DEF CreditOnce, Attempt
  <2> QED BY <2>3, <2>4
<1>27. ASSUME NEW i \in Attempt, HandleCredit(t, i) PROVE CreditOnce(t)'
  <2>1. HGoto(t, "COMMIT_TX", i, "recordIn") /\ credits' = [credits EXCEPT ![t] = @ + 1]
    BY <1>27 DEF HandleCredit, Call, Fault, Seen, Effect
  <2>2. hpc[t]["COMMIT_TX"][i] = "credit" /\ UNCHANGED <<rowB, out, att>>
    BY <1>27 DEF HandleCredit, outVars
  <2>3. credits[t] = 0 /\ credits'[t] = 1
    BY <2>1, <2>2 DEF CreditOnce, TypeOK
  <2>4. out[t]["COMMIT_TX"] # "none"
    BY <2>2 DEF TxInv, MessageBacked, Kind
  <2>5. \A j \in Attempt : hpc'[t]["COMMIT_TX"][j] = IF j = i THEN "recordIn" ELSE hpc[t]["COMMIT_TX"][j]
    BY <2>1, HandlerMoved DEF Kind
  <2>6. i = att[t]["COMMIT_TX"]
    BY <2>2, LastRuns
  <2>7. \A j \in Attempt : j # i => hpc[t]["COMMIT_TX"][j] \in {"off", "done"}
    BY <2>2, LastRuns
  <2> QED BY <2>2, <2>3, <2>4, <2>5, <2>6, <2>7 DEF CreditOnce, Attempt
<1>28. ASSUME NEW i \in Attempt, HandleRecord(t, i) PROVE CreditOnce(t)'
  <2>1. HGoto(t, "COMMIT_TX", i, "status") /\ hpc[t]["COMMIT_TX"][i] = "recordIn"
    BY <1>28 DEF HandleRecord
  <2>2. UNCHANGED <<rowB, credits, out, att>>
    BY <1>28 DEF HandleRecord, partnerVars, outVars
  <2>3. \A j \in Attempt : hpc'[t]["COMMIT_TX"][j] = IF j = i THEN "status" ELSE hpc[t]["COMMIT_TX"][j]
    BY <2>1, HandlerMoved DEF Kind
  <2>4. i = att[t]["COMMIT_TX"]
    BY <2>1, LastRuns
  <2> QED BY <2>2, <2>3, <2>4 DEF CreditOnce, Attempt
<1>29. ASSUME NEW i \in Attempt, HandleFail(t, i) PROVE CreditOnce(t)'
  BY <1>29 DEF HandleFail, CreditOnce
<1>30. ASSUME NEW i \in Attempt, HandleRollbackFind(t, i) PROVE CreditOnce(t)'
  <2>1. PICK l : HGoto(t, "ROLLBACK_TX", i, l)
    BY <1>30 DEF HandleRollbackFind
  <2>2. hpc[t]["ROLLBACK_TX"][i] = "run" /\ UNCHANGED <<rowB, credits, out, att>>
    BY <1>30 DEF HandleRollbackFind, partnerVars, outVars
  <2> QED BY <2>1, <2>2, HandlerPasses DEF Kind
<1>31. CASE CoordinatorCrash(t)
  BY <1>31 DEF CoordinatorCrash, Fault
<1>32. ASSUME NEW k \in Kind, NEW i \in Attempt, RequestLost(t, k, i) PROVE CreditOnce(t)'
  <2>1. HGoto(t, k, i, "done") /\ hpc[t][k][i] = "net" /\ UNCHANGED <<rowB, credits, out, att>>
    BY <1>32 DEF RequestLost, partnerVars, outVars
  <2> QED BY <2>1, HandlerPasses
<1>33. ASSUME NEW k \in Kind, NEW i \in Attempt, HandlerDies(t, k, i) PROVE CreditOnce(t)'
  BY <1>33 DEF HandlerDies, Fault
<1> QED BY <1>1, <1>2, <1>3, <1>4, <1>5, <1>6, <1>7, <1>8, <1>9, <1>10, <1>11, <1>12, <1>13,
       <1>14, <1>15, <1>16, <1>17, <1>18, <1>19, <1>20, <1>21, <1>22, <1>23, <1>24, <1>25,
       <1>26, <1>27, <1>28, <1>29, <1>30, <1>31, <1>32, <1>33
       DEF Step, Coordinator, Scheduler, Handler, Kind

\* A payment that is left alone keeps its credit unique.
LEMMA SameOnce == ASSUME NEW s \in Tx, CreditOnce(s), Same(s) PROVE CreditOnce(s)'
  BY DEF CreditOnce, Same

\* Nothing is credited at the start.
LEMMA OnceInit == Init => OnceInv
<1> SUFFICES ASSUME Init PROVE OnceInv
  OBVIOUS
<1>1. ASSUME NEW t \in Tx PROVE CreditOnce(t)
  <2>1. /\ credits[t] = 0 /\ out[t]["COMMIT_TX"] = "none" /\ att[t]["COMMIT_TX"] = 0
        /\ \A i \in Attempt : hpc[t]["COMMIT_TX"][i] = "off"
    BY DEF Init, Kind
  <2>2. \A i \in Attempt : ~(i < 0)
    BY DEF Attempt
  <2> QED BY <2>1, <2>2 DEF CreditOnce
<1> QED BY <1>1, InitInv DEF OnceInv

\* OnceInv is inductive when only requests and answers get lost.
LEMMA OnceNext == LossOnly /\ OnceInv /\ [Next]_vars => OnceInv'
<1> SUFFICES ASSUME LossOnly, OnceInv, [Next]_vars PROVE OnceInv'
  OBVIOUS
<1>1. IndInv'
  BY NextInv DEF OnceInv
<1>2. ASSUME NEW s \in Tx PROVE CreditOnce(s)'
  <2>1. CASE UNCHANGED vars
    BY <2>1 DEF vars, OnceInv, CreditOnce
  <2>2. ASSUME NEW t \in Tx, Step(t) PROVE CreditOnce(s)'
    <3>1. TypeOK /\ TxInv(s) /\ CreditOnce(s)
      BY DEF OnceInv, IndInv
    <3>2. CASE s = t
      BY <2>2, <3>1, <3>2, OnceStep
    <3>3. CASE s # t
      BY <2>2, <3>1, <3>3, Elsewhere, SameOnce
    <3> QED BY <3>2, <3>3
  <2> QED BY <2>1, <2>2, NextIsStep
<1> QED BY <1>1, <1>2 DEF OnceInv

\* When nothing fails but the network, the recipient of a payment is credited at
\* most once, however often COMMIT_TX is sent (HandleCommitFind finds the row
\* COMMITTED).  The run pay_crash_credit shows that the hypothesis is needed.
THEOREM CreditedOnce == ASSUME LossOnly PROVE Spec => []CreditedAtMostOnce
<1>1. OnceInv => CreditedAtMostOnce
  BY DEF OnceInv, CreditOnce, CreditedAtMostOnce
<1>2. OnceInv /\ [Next]_vars => OnceInv'
  BY OnceNext
<1> QED BY <1>1, <1>2, OnceInit, PTL DEF Spec
------------------------------------------------------------------------------
(* Money, as the two ledgers show it. *)

\* What a step does to the sender's ledger.
LEMMA LedgerMoves ==
  ASSUME NEW t \in Tx, Step(t)
  PROVE  ReserveMonas(t) \/ CommitReservation(t) \/ ReleaseReservation(t) \/ UNCHANGED ledgerVars
<1>1. CASE Coordinator(t)
  BY <1>1 DEF Coordinator, PrepareValidate, PrepareReserve, PreparePersist, PrepareCompensate,
       SendNewTx, ReceiveVote, VoteTimeout, CommitRef, CommitStatus, CommitFailStatus, RecordOutbound,
       SendCommitTx, RollbackRelease, RollbackStatus, SendRollbackTx, ReceiveAck, AckTimeout, Release
<1>2. ASSUME NEW k \in Kind, Scheduler(t, k) PROVE UNCHANGED ledgerVars
  BY <1>2 DEF Scheduler, Resend, ResendOk, ResendFailed
<1>3. ASSUME NEW k \in Kind, NEW i \in Attempt, Handler(t, k, i) PROVE UNCHANGED ledgerVars
  BY <1>3 DEF Handler, Lookup, HandleStatus, HandleAnswer, HandlePrepare, HandlePersist,
       HandleCommitFind, HandleCredit, HandleRecord, HandleFail, HandleRollbackFind
<1>4. CASE CoordinatorCrash(t)
  BY <1>4 DEF CoordinatorCrash
<1>5. ASSUME NEW k \in Kind, NEW i \in Attempt, RequestLost(t, k, i) \/ HandlerDies(t, k, i)
      PROVE  UNCHANGED ledgerVars
  BY <1>5 DEF RequestLost, HandlerDies
<1> QED BY <1>1, <1>2, <1>3, <1>4, <1>5 DEF Step

\* What a step does to the recipient's account.
LEMMA CreditMoves ==
  ASSUME NEW t \in Tx, Step(t)
  PROVE  UNCHANGED credits \/ \E i \in Attempt : HandleCredit(t, i)
<1>1. CASE Coordinator(t)
  BY <1>1 DEF Coordinator, PrepareValidate, PrepareReserve, PreparePersist, PrepareCompensate,
       SendNewTx, ReceiveVote, VoteTimeout, CommitRef, CommitStatus, CommitFailStatus, RecordOutbound,
       SendCommitTx, RollbackRelease, RollbackStatus, SendRollbackTx, ReceiveAck, AckTimeout, partnerVars
<1>2. ASSUME NEW k \in Kind, Scheduler(t, k) PROVE UNCHANGED credits
  BY <1>2 DEF Scheduler, Resend, ResendOk, ResendFailed, partnerVars
<1>3. ASSUME NEW k \in Kind, NEW i \in Attempt, Handler(t, k, i)
      PROVE  UNCHANGED credits \/ HandleCredit(t, i)
  BY <1>3 DEF Handler, Lookup, HandleStatus, HandleAnswer, HandlePrepare, HandlePersist,
       HandleCommitFind, HandleRecord, HandleFail, HandleRollbackFind, partnerVars
<1>4. CASE CoordinatorCrash(t)
  BY <1>4 DEF CoordinatorCrash, partnerVars
<1>5. ASSUME NEW k \in Kind, NEW i \in Attempt, RequestLost(t, k, i) \/ HandlerDies(t, k, i)
      PROVE  UNCHANGED credits
  BY <1>5 DEF RequestLost, HandlerDies, partnerVars
<1> QED BY <1>1, <1>2, <1>3, <1>4, <1>5 DEF Step

\* The sender's ledger stays backed: for every account the available balance is
\* the booked one less what its payments hold, under every fault, crash and
\* resend (PrepareLocal, CommitLocal and RollbackLocal at the sender's bank).
THEOREM PaymentsBacked == Spec => []Backed
<1>1. Init => LedgerInv
  BY LedgerStart DEF Init
<1>2. LedgerInv /\ [Next]_vars => LedgerInv'
  <2> SUFFICES ASSUME LedgerInv, [Next]_vars PROVE LedgerInv'
    OBVIOUS
  <2>1. CASE UNCHANGED vars
    BY <2>1, RestKeeps DEF vars, ledgerVars
  <2>2. ASSUME NEW t \in Tx, Step(t) PROVE LedgerInv'
    BY <2>2, LedgerMoves, ReserveKeeps, CommitKeeps, ReleaseKeeps, RestKeeps
  <2> QED BY <2>1, <2>2, NextIsStep
<1>3. LedgerInv => Backed
  BY DEF LedgerInv
<1> QED BY <1>1, <1>2, <1>3, PTL DEF Spec

\* A step moves the money of its payment one place on, or not at all.
LEMMA MoneyMoves ==
  ASSUME OnceInv, OnceInv', NEW t \in Tx, Step(t)
  PROVE  \/ Place(t)' = Place(t)
         \/ Place(t) = "sender" /\ Place(t)' = "transit"
         \/ Place(t) = "transit" /\ Place(t)' = "recipient"
<1>1. /\ credits[t] \in Nat /\ credits[t] =< 1 /\ (credits[t] > 0 => resv[t] = "COMMITTED")
      /\ credits'[t] \in Nat /\ credits'[t] =< 1 /\ (credits'[t] > 0 => resv'[t] = "COMMITTED")
  BY DEF OnceInv, IndInv, TypeOK, TxInv, CommitOrder, CreditOnce
<1>2. CASE UNCHANGED credits
  <2>1. resv[t] = "COMMITTED" => resv'[t] = "COMMITTED"
    <3>1. resv \in [Tx -> ResvStatus]
      BY DEF OnceInv, IndInv, TypeOK, LedgerTypeOK
    <3> QED BY <3>1, LedgerMoves DEF ReserveMonas, CanReserve, CommitReservation, ReleaseReservation,
              CanRelease, ledgerVars
  <2> QED BY <1>1, <1>2, <2>1 DEF Place
<1>3. ASSUME NEW i \in Attempt, HandleCredit(t, i)
      PROVE  \/ Place(t)' = Place(t)
             \/ Place(t) = "transit" /\ Place(t)' = "recipient"
  <2>1. UNCHANGED resv /\ (credits'[t] = credits[t] \/ credits'[t] = credits[t] + 1)
    BY <1>3 DEF HandleCredit, Effect, ledgerVars, OnceInv, IndInv, TypeOK
  <2> QED BY <1>1, <2>1 DEF Place
<1> QED BY <1>2, <1>3, CreditMoves

\* When nothing fails but the network, the two-phase commit implements the
\* promise about its money, step by step: every step moves the money of one
\* payment from the sender into transit or from transit to the recipient, or
\* moves none (CommitLocal at either bank; the safety part of KeepsPromise).
THEOREM Refinement == ASSUME LossOnly PROVE Spec => Promise!Spec
<1>1. Init => Promise!Init
  BY DEF Init, LedgerInit, Promise!Init, Money, Place
<1>2. OnceInv /\ OnceInv' /\ [Next]_vars => [Promise!Next]_Money
  <2> SUFFICES ASSUME OnceInv, OnceInv', [Next]_vars PROVE [Promise!Next]_Money
    OBVIOUS
  <2>1. CASE UNCHANGED vars
    BY <2>1 DEF vars, Money, Place
  <2>2. ASSUME NEW t \in Tx, Step(t) PROVE [Promise!Next]_Money
    <3>1. ASSUME NEW s \in Tx, s # t PROVE Place(s)' = Place(s)
      BY <2>2, <3>1, Elsewhere DEF OnceInv, IndInv, Same, Place
    <3>2. CASE Place(t)' = Place(t)
      BY <3>1, <3>2 DEF Money
    <3>3. CASE Place(t) = "sender" /\ Place(t)' = "transit"
      <4>1. Money' = [Money EXCEPT ![t] = "transit"] /\ Money[t] = "sender"
        BY <3>1, <3>3 DEF Money
      <4> QED BY <4>1 DEF Promise!Next, Promise!Take
    <3>4. CASE Place(t) = "transit" /\ Place(t)' = "recipient"
      <4>1. Money' = [Money EXCEPT ![t] = "recipient"] /\ Money[t] = "transit"
        BY <3>1, <3>4 DEF Money
      <4> QED BY <4>1 DEF Promise!Next, Promise!Deliver
    <3> QED BY <2>2, <3>2, <3>3, <3>4, MoneyMoves
  <2> QED BY <2>1, <2>2, NextIsStep
<1>3. OnceInv /\ [Next]_vars => OnceInv'
  BY OnceNext
<1> QED BY <1>1, <1>2, <1>3, OnceInit, PTL DEF Spec, Promise!Spec
==============================================================================
