--------------------------- MODULE InterbankPayment ---------------------------
(***************************************************************************)
(* A cross-bank payment: SendOutboundPayment at the sender's bank runs a   *)
(* two-phase commit with the recipient's bank over HTTP, and a retry       *)
(* scheduler resends the messages whose answer never came.  Both banks run *)
(* this code; the recipient's side is the inbound handler and executor.    *)
(*                                                                         *)
(* Every remote or SQL call is a step of its own and ends in one of three  *)
(* outcomes: it takes effect, it fails without effect, or it takes effect  *)
(* and its answer is lost, so that the caller sees an error ("lost").      *)
(***************************************************************************)
EXTENDS MonasLedger

CONSTANTS MaxRetries,   \* DefaultMaxRetries: failed resends before STUCK
          MaxAttempts,  \* bound on the sends of one message
          MaxFaults,    \* bound on the number of faults in a behaviour
          Faults        \* the classes of fault that may happen

\* "net":   a request or an answer is lost, or a sender gives up waiting
\* "call":  a call to banking-core or to the database fails or loses its answer
\* "crash": the process running a coordinator or a handler dies
\* "slow":  a handler is still running when its message is sent again
FaultClass == {"net", "call", "crash", "slow"}

ASSUME PaymentAssumption ==
    /\ MaxRetries \in Nat \ {0}
    /\ MaxAttempts \in Nat \ {0}
    /\ MaxFaults \in Nat
    /\ Faults \subseteq FaultClass

Kind == {"NEW_TX", "COMMIT_TX", "ROLLBACK_TX"}
Attempt == 1..MaxAttempts

VARIABLES pc,       \* where SendOutboundPayment stands, per payment
          vote,     \* the partner's vote as the coordinator saw it
          result,   \* what SendOutboundPayment returned
          rowA,     \* interbank_transactions.status at the sender's bank
          rowB,     \* interbank_transactions.status at the recipient's bank
          credits,  \* how many times the recipient account was credited
          hist,     \* transaction-history rows recorded, at A (OUT) and B (IN)
          out,      \* OUTBOUND interbank_messages.status, per payment and kind
          tries,    \* OUTBOUND interbank_messages.retry_count
          att,      \* number of times the message was put on the wire
          resending,\* TRUE while the scheduler waits for the answer to a resend
          cache,    \* INBOUND interbank_messages: the cached answer
          hpc,      \* where the handler of each attempt stands
          hres,     \* the answer of each handler
          nf        \* number of faults so far

coordVars == <<pc, vote, result, rowA>>
outVars == <<out, tries, att, resending>>
partnerVars == <<rowB, credits, cache>>
vars == <<bal, avail, resv, pc, vote, result, rowA, rowB, credits, hist, out,
          tries, att, resending, cache, hpc, hres, nf>>

RowStatus == {"none", "PREPARED", "COMMITTED", "ROLLED_BACK", "FAILED"}
OutStatus == {"none", "PENDING_SEND", "SENT", "STUCK"}
Answer == {"YES", "NO", "OK", "ERR"}
CoordPC == {"validate", "reserve", "persist", "compensate", "newTx", "waitNew",
            "commitRef", "commitStatus", "failStatus", "record", "commitTx",
            "waitCommit", "release", "rollbackStatus", "rollbackTx",
            "waitRollback", "done", "crashed"}
HandlerPC == {"off", "net", "run", "persist", "credit", "recordIn", "status",
              "fail", "cacheYES", "cacheNO", "cacheOK", "cacheERR", "done"}

TypeOK ==
    /\ LedgerTypeOK
    /\ pc \in [Tx -> CoordPC]
    /\ vote \in [Tx -> Answer \cup {"none"}]
    /\ result \in [Tx -> {"none", "ok", "error"}]
    /\ rowA \in [Tx -> RowStatus]
    /\ rowB \in [Tx -> RowStatus]
    /\ credits \in [Tx -> Nat]
    /\ hist \in [Tx -> SUBSET {"OUT", "IN"}]
    /\ out \in [Tx -> [Kind -> OutStatus]]
    /\ tries \in [Tx -> [Kind -> Nat]]
    /\ att \in [Tx -> [Kind -> 0..MaxAttempts]]
    /\ resending \in [Tx -> [Kind -> BOOLEAN]]
    /\ cache \in [Tx -> [Kind -> Answer \cup {"none"}]]
    /\ hpc \in [Tx -> [Kind -> [Attempt -> HandlerPC]]]
    /\ hres \in [Tx -> [Kind -> [Attempt -> Answer \cup {"none"}]]]
    /\ nf \in 0..MaxFaults

Init ==
    /\ LedgerInit
    /\ pc = [t \in Tx |-> "validate"]
    /\ vote = [t \in Tx |-> "none"]
    /\ result = [t \in Tx |-> "none"]
    /\ rowA = [t \in Tx |-> "none"]
    /\ rowB = [t \in Tx |-> "none"]
    /\ credits = [t \in Tx |-> 0]
    /\ hist = [t \in Tx |-> {}]
    /\ out = [t \in Tx |-> [k \in Kind |-> "none"]]
    /\ tries = [t \in Tx |-> [k \in Kind |-> 0]]
    /\ att = [t \in Tx |-> [k \in Kind |-> 0]]
    /\ resending = [t \in Tx |-> [k \in Kind |-> FALSE]]
    /\ cache = [t \in Tx |-> [k \in Kind |-> "none"]]
    /\ hpc = [t \in Tx |-> [k \in Kind |-> [i \in Attempt |-> "off"]]]
    /\ hres = [t \in Tx |-> [k \in Kind |-> [i \in Attempt |-> "none"]]]
    /\ nf = 0

------------------------------------------------------------------------------
(* Faults. *)

Fault(f) == f \in Faults /\ nf < MaxFaults /\ nf' = nf + 1

Outcome == {"ok", "fail", "lost"}

\* A call with outcome o: anything but "ok" is a fault.
Call(o) == IF o = "ok" THEN UNCHANGED nf ELSE Fault("call")

\* Does the caller see success?  Does the call take effect?
Seen(o, yes, no) == IF o = "ok" THEN yes ELSE no
Effect(o, f, g) == IF o = "fail" THEN f ELSE g

Goto(t, l) == pc' = [pc EXCEPT ![t] = l]

------------------------------------------------------------------------------
(* The coordinator, at the sender's bank.  PrepareLocal, CommitLocal and    *)
(* RollbackLocal are its calls into the executor; no other process writes   *)
(* rowA, so FindTx is read together with the call that follows it.          *)

Return(t, r) == pc' = [pc EXCEPT ![t] = "done"] /\ result' = [result EXCEPT ![t] = r]

\* PrepareLocal, validation: a NO vote or an error ends the payment at once.
PrepareValidate(t) ==
    /\ pc[t] = "validate"
    /\ \E o \in {"ok", "fail"} :
        /\ Call(o)
        /\ IF o = "ok" /\ avail[SrcOf[t]] >= Amt[t]
           THEN Goto(t, "reserve") /\ UNCHANGED result
           ELSE Return(t, "error")
    /\ UNCHANGED <<ledgerVars, vote, rowA, hist, partnerVars, outVars, hpc, hres>>

\* PrepareLocal, reservation of the debit.  The balance may have changed since
\* it was validated, so the server may still refuse.  A reservation whose
\* answer is lost is not in the list that gets compensated.
PrepareReserve(t) ==
    /\ pc[t] = "reserve"
    /\ \E o \in Outcome :
        /\ Call(o)
        /\ IF o # "fail" /\ CanReserve(t) THEN ReserveMonas(t) ELSE UNCHANGED ledgerVars
        /\ IF o = "ok" /\ CanReserve(t)
           THEN Goto(t, "persist") /\ UNCHANGED result
           ELSE Return(t, "error")
    /\ UNCHANGED <<vote, rowA, hist, partnerVars, outVars, hpc, hres>>

\* PrepareLocal, PersistPrepared: on an error the reservation is compensated.
PreparePersist(t) ==
    /\ pc[t] = "persist"
    /\ \E o \in Outcome :
        /\ Call(o)
        /\ rowA' = Effect(o, rowA, [rowA EXCEPT ![t] = "PREPARED"])
        /\ Goto(t, Seen(o, "newTx", "compensate"))
    /\ UNCHANGED <<ledgerVars, vote, result, hist, partnerVars, outVars, hpc, hres>>

\* releaseRef is best-effort: its errors are logged and dropped.
Release(t, o) ==
    IF o = "ok" /\ CanRelease(t) THEN ReleaseReservation(t) ELSE UNCHANGED ledgerVars

PrepareCompensate(t) ==
    /\ pc[t] = "compensate"
    /\ \E o \in {"ok", "fail"} : Call(o) /\ Release(t, o)
    /\ Return(t, "error")
    /\ UNCHANGED <<vote, rowA, hist, partnerVars, outVars, hpc, hres>>

\* persistPending, then the first POST.  When the insert fails nothing is
\* sent; when only its answer is lost the row stays for the scheduler.
Send(t, k, o) ==
    /\ Call(o)
    /\ out' = Effect(o, out, [out EXCEPT ![t][k] = "PENDING_SEND"])
    /\ att' = Seen(o, [att EXCEPT ![t][k] = 1], att)
    /\ hpc' = Seen(o, [hpc EXCEPT ![t][k][1] = "net"], hpc)
    /\ UNCHANGED <<tries, resending, hres>>

SendNewTx(t) ==
    /\ pc[t] = "newTx"
    /\ \E o \in Outcome :
        /\ Send(t, "NEW_TX", o)
        /\ Goto(t, Seen(o, "waitNew", "release"))
        /\ vote' = Seen(o, vote, [vote EXCEPT ![t] = "ERR"])
    /\ UNCHANGED <<ledgerVars, result, rowA, hist, partnerVars>>

\* The sender of attempt i of a message gives up: at no cost when the request
\* or its handler is dead, otherwise because the answer is late or lost.
GiveUp(t, k, i) ==
    IF hpc[t][k][i] = "done" /\ hres[t][k][i] = "none" THEN UNCHANGED nf ELSE Fault("net")

\* markSent: its failure is logged, and the row stays PENDING_SEND.
MarkSent(t, k, o) == out' = Seen(o, [out EXCEPT ![t][k] = "SENT"], out)

\* Mutants: any vote is taken for a YES; the partner is told to commit before
\* the local debit.
AfterVoteAny(a) == IF a \in {"YES", "NO"} THEN "commitRef" ELSE "release"
AfterVoteUndebited(a) == IF a = "YES" THEN "record" ELSE "release"

\* What the coordinator does next on a vote, or on an error.
AfterVote(a) == IF a = "YES" THEN "commitRef" ELSE "release"

\* SendNewTx returns: a vote, or an error (HTTP >= 400, or no answer in 60 s).
ReceiveVote(t) ==
    /\ pc[t] = "waitNew"
    /\ hres[t]["NEW_TX"][1] # "none"
    /\ LET a == hres[t]["NEW_TX"][1] IN
        /\ vote' = [vote EXCEPT ![t] = a]
        /\ Goto(t, AfterVote(a))
        /\ IF a = "ERR" THEN UNCHANGED <<out, nf>>
           ELSE \E o \in {"ok", "fail"} : Call(o) /\ MarkSent(t, "NEW_TX", o)
    /\ UNCHANGED <<ledgerVars, result, rowA, hist, partnerVars, tries, att, resending, hpc, hres>>

VoteTimeout(t) ==
    /\ pc[t] = "waitNew"
    /\ GiveUp(t, "NEW_TX", 1)
    /\ vote' = [vote EXCEPT ![t] = "ERR"]
    /\ Goto(t, "release")
    /\ UNCHANGED <<ledgerVars, result, rowA, hist, partnerVars, outVars, hpc, hres>>

\* CommitLocal: what the status found allows.
CommitNoop(s) == s \in {"none", "COMMITTED"}
CommitRuns(s) == s = "PREPARED"

\* Mutant: an error of CommitMonas is logged and dropped.
AfterCommitRefLogged(done) == "commitStatus"
AfterCommitRef(done) == IF done THEN "commitStatus" ELSE "failStatus"

\* CommitLocal at the sender: FindTx and CommitMonas.  An error of FindTx
\* leaves the row alone; an error of CommitMonas marks it FAILED.
CommitRef(t) ==
    /\ pc[t] = "commitRef"
    /\ \/ /\ Fault("call")
          /\ Goto(t, "rollbackTx")
          /\ UNCHANGED ledgerVars
       \/ \E o \in Outcome :
            /\ Call(o)
            /\ IF CommitRuns(rowA[t]) /\ o # "fail" /\ CanCommit(t)
               THEN CommitReservation(t) ELSE UNCHANGED ledgerVars
            /\ IF CommitRuns(rowA[t])
               THEN Goto(t, AfterCommitRef(o = "ok" /\ CanCommit(t)))
               ELSE Goto(t, IF CommitNoop(rowA[t]) THEN "record" ELSE "rollbackTx")
    /\ UNCHANGED <<vote, result, rowA, hist, partnerVars, outVars, hpc, hres>>

\* Mutant: an error of CommitLocal rolls back locally too.
AfterCommitStatusUndo(o) == Seen(o, "record", "release")
AfterCommitStatus(o) == Seen(o, "record", "rollbackTx")

\* CommitLocal, final UpdateTxStatus: its error is CommitLocal's error.
CommitStatus(t) ==
    /\ pc[t] = "commitStatus"
    /\ \E o \in Outcome :
        /\ Call(o)
        /\ rowA' = Effect(o, rowA, [rowA EXCEPT ![t] = "COMMITTED"])
        /\ Goto(t, AfterCommitStatus(o))
    /\ UNCHANGED <<ledgerVars, vote, result, hist, partnerVars, outVars, hpc, hres>>

\* CommitLocal, best-effort flip to FAILED.
CommitFailStatus(t) ==
    /\ pc[t] = "failStatus"
    /\ \E o \in {"ok", "fail"} :
        /\ Call(o)
        /\ rowA' = Effect(o, rowA, [rowA EXCEPT ![t] = "FAILED"])
    /\ Goto(t, "rollbackTx")
    /\ UNCHANGED <<ledgerVars, vote, result, hist, partnerVars, outVars, hpc, hres>>

\* recordOutboundPayment: best-effort, keyed by order_number.
RecordOutbound(t) ==
    /\ pc[t] = "record"
    /\ \E o \in {"ok", "fail"} :
        Call(o) /\ hist' = Effect(o, hist, [hist EXCEPT ![t] = @ \cup {"OUT"}])
    /\ Goto(t, "commitTx")
    /\ UNCHANGED <<ledgerVars, vote, result, rowA, partnerVars, outVars, hpc, hres>>

\* SendCommitTx is best-effort: the payment succeeds whatever becomes of it.
SendCommitTx(t) ==
    /\ pc[t] = "commitTx"
    /\ \E o \in Outcome :
        /\ Send(t, "COMMIT_TX", o)
        /\ IF o = "ok" THEN Goto(t, "waitCommit") /\ UNCHANGED result ELSE Return(t, "ok")
    /\ UNCHANGED <<ledgerVars, vote, rowA, hist, partnerVars>>

\* RollbackLocal: FindTx, and the release of the reservation of a PREPARED row.
RollbackRelease(t) ==
    /\ pc[t] = "release"
    /\ \/ /\ Fault("call")
          /\ UNCHANGED ledgerVars
          /\ IF vote[t] = "NO" THEN Goto(t, "rollbackTx") /\ UNCHANGED result
                               ELSE Return(t, "error")
       \/ /\ \E o \in {"ok", "fail"} :
                Call(o) /\ Release(t, IF rowA[t] = "PREPARED" THEN o ELSE "fail")
          /\ Goto(t, "rollbackStatus")
          /\ UNCHANGED result
    /\ UNCHANGED <<vote, rowA, hist, partnerVars, outVars, hpc, hres>>

\* RollbackLocal, UpdateTxStatus.  Only a NO vote is followed by a
\* ROLLBACK_TX to the partner; after an error of SendNewTx the coordinator
\* returns.
RollbackStatus(t) ==
    /\ pc[t] = "rollbackStatus"
    /\ \E o \in {"ok", "fail"} :
        /\ Call(o)
        /\ rowA' = IF o = "ok" /\ rowA[t] = "PREPARED"
                   THEN [rowA EXCEPT ![t] = "ROLLED_BACK"] ELSE rowA
    /\ IF vote[t] = "NO" THEN Goto(t, "rollbackTx") /\ UNCHANGED result
                         ELSE Return(t, "error")
    /\ UNCHANGED <<ledgerVars, vote, hist, partnerVars, outVars, hpc, hres>>

SendRollbackTx(t) ==
    /\ pc[t] = "rollbackTx"
    /\ \E o \in Outcome :
        /\ Send(t, "ROLLBACK_TX", o)
        /\ IF o = "ok" THEN Goto(t, "waitRollback") /\ UNCHANGED result ELSE Return(t, "error")
    /\ UNCHANGED <<ledgerVars, vote, rowA, hist, partnerVars>>

\* The answer to COMMIT_TX or ROLLBACK_TX, or none in time.
WaitKind(t) == IF pc[t] = "waitCommit" THEN "COMMIT_TX" ELSE "ROLLBACK_TX"

ReceiveAck(t) ==
    /\ pc[t] \in {"waitCommit", "waitRollback"}
    /\ LET k == WaitKind(t) IN
        /\ hres[t][k][1] # "none"
        /\ IF hres[t][k][1] = "ERR" THEN UNCHANGED <<out, nf>>
           ELSE \E o \in {"ok", "fail"} : Call(o) /\ MarkSent(t, k, o)
        /\ Return(t, IF k = "COMMIT_TX" THEN "ok" ELSE "error")
    /\ UNCHANGED <<ledgerVars, vote, rowA, hist, partnerVars, tries, att, resending, hpc, hres>>

AckTimeout(t) ==
    /\ pc[t] \in {"waitCommit", "waitRollback"}
    /\ GiveUp(t, WaitKind(t), 1)
    /\ Return(t, IF pc[t] = "waitCommit" THEN "ok" ELSE "error")
    /\ UNCHANGED <<ledgerVars, vote, rowA, hist, partnerVars, outVars, hpc, hres>>

\* The sender's process dies; nothing resumes SendOutboundPayment.
CoordinatorCrash(t) ==
    /\ pc[t] \notin {"validate", "done", "crashed"}
    /\ Fault("crash")
    /\ Goto(t, "crashed")
    /\ UNCHANGED <<ledgerVars, vote, result, rowA, hist, partnerVars, outVars, hpc, hres>>

------------------------------------------------------------------------------
(* The retry scheduler at the sender's bank. *)

\* Is SendOutboundPayment still waiting for the first answer to k?  The
\* cutoff of two minutes exceeds the client timeout of one.
Waiting(t, k) ==
    \/ k = "NEW_TX" /\ pc[t] = "waitNew"
    \/ k = "COMMIT_TX" /\ pc[t] = "waitCommit"
    \/ k = "ROLLBACK_TX" /\ pc[t] = "waitRollback"

\* FindPending and Resend: same body, same idempotence key.
Resend(t, k) ==
    /\ out[t][k] = "PENDING_SEND"
    /\ tries[t][k] < MaxRetries
    /\ ~Waiting(t, k) /\ ~resending[t][k]
    /\ att[t][k] < MaxAttempts
    /\ IF att[t][k] > 0 /\ hpc[t][k][att[t][k]] # "done" THEN Fault("slow") ELSE UNCHANGED nf
    /\ att' = [att EXCEPT ![t][k] = @ + 1]
    /\ hpc' = [hpc EXCEPT ![t][k][att[t][k] + 1] = "net"]
    /\ resending' = [resending EXCEPT ![t][k] = TRUE]
    /\ UNCHANGED <<ledgerVars, coordVars, hist, partnerVars, out, tries, hres>>

\* tryOnce, success: SENT.  UpdateOptimistic may fail, and the row stays.
ResendOk(t, k) ==
    /\ resending[t][k]
    /\ hres[t][k][att[t][k]] \in Answer \ {"ERR"}
    /\ \E o \in {"ok", "fail"} : Call(o) /\ MarkSent(t, k, o)
    /\ resending' = [resending EXCEPT ![t][k] = FALSE]
    /\ UNCHANGED <<ledgerVars, coordVars, hist, partnerVars, tries, att, hpc, hres>>

\* Mutant: gives up one retry too early.
RetriesSpentEarly(n) == n + 1 >= MaxRetries
RetriesSpent(n) == n >= MaxRetries

\* tryOnce, failure: one retry more, and STUCK at the limit; or UpdateOptimistic
\* fails, which is logged, and the row stays.
ResendFailed(t, k) ==
    /\ resending[t][k]
    /\ \/ /\ \/ hres[t][k][att[t][k]] = "ERR" /\ UNCHANGED nf
             \/ hres[t][k][att[t][k]] = "none" /\ GiveUp(t, k, att[t][k])
          /\ tries' = [tries EXCEPT ![t][k] = @ + 1]
          /\ out' = IF RetriesSpent(tries[t][k] + 1) THEN [out EXCEPT ![t][k] = "STUCK"] ELSE out
       \/ /\ \/ hres[t][k][att[t][k]] = "ERR"
             \/ hres[t][k][att[t][k]] = "none" /\ hpc[t][k][att[t][k]] = "done"
          /\ Fault("call") /\ UNCHANGED <<tries, out>>
    /\ resending' = [resending EXCEPT ![t][k] = FALSE]
    /\ UNCHANGED <<ledgerVars, coordVars, hist, partnerVars, att, hpc, hres>>

------------------------------------------------------------------------------
(* The inbound handler and executor, at the recipient's bank.  Attempt i of *)
(* message (t, k) is handled by the goroutine whose state is hpc[t][k][i].  *)

HGoto(t, k, i, l) == hpc' = [hpc EXCEPT ![t][k][i] = l]

\* PostMessage: idempotency lookup.  A hit replays the cached answer, an
\* error included; a failed lookup answers 500 and caches nothing.
Lookup(t, k, i) ==
    /\ hpc[t][k][i] = "net"
    /\ \E o \in {"ok", "fail"} :
        /\ Call(o)
        /\ IF o = "ok" /\ cache[t][k] = "none"
           THEN HGoto(t, k, i, "run") /\ UNCHANGED hres
           ELSE /\ HGoto(t, k, i, "done")
                /\ hres' = [hres EXCEPT ![t][k][i] = IF o = "ok" THEN cache[t][k] ELSE "ERR"]
    /\ UNCHANGED <<ledgerVars, coordVars, hist, partnerVars, outVars>>

\* handleNewTx, PrepareLocal: the recipient's posting is validated (NO when
\* the account does not exist or has another currency) and resolved; an
\* incoming credit reserves nothing.
HandlePrepare(t, i) ==
    /\ hpc[t]["NEW_TX"][i] = "run"
    /\ \/ \E l \in {"persist", "cacheNO"} : HGoto(t, "NEW_TX", i, l) /\ UNCHANGED nf
       \/ Fault("call") /\ HGoto(t, "NEW_TX", i, "cacheERR")
    /\ UNCHANGED <<ledgerVars, coordVars, hist, partnerVars, outVars, hres>>

AfterPersist(done) == IF done THEN "cacheYES" ELSE "cacheERR"

\* PersistPrepared: the transaction id is unique, so a second run of the same
\* NEW_TX fails here and changes nothing.
HandlePersist(t, i) ==
    /\ hpc[t]["NEW_TX"][i] = "persist"
    /\ \E o \in Outcome :
        /\ Call(o)
        /\ rowB' = IF o # "fail" /\ rowB[t] = "none" THEN [rowB EXCEPT ![t] = "PREPARED"] ELSE rowB
        /\ HGoto(t, "NEW_TX", i, AfterPersist(o = "ok" /\ rowB[t] = "none"))
    /\ UNCHANGED <<ledgerVars, coordVars, hist, credits, cache, outVars, hres>>

\* handleCommitTx, CommitLocal: FindTx and what its status allows.
HandleCommitFind(t, i) ==
    /\ hpc[t]["COMMIT_TX"][i] = "run"
    /\ \/ /\ UNCHANGED nf
          /\ HGoto(t, "COMMIT_TX", i, IF CommitRuns(rowB[t]) THEN "credit"
                                      ELSE IF CommitNoop(rowB[t]) THEN "cacheOK"
                                      ELSE "cacheERR")
       \/ Fault("call") /\ HGoto(t, "COMMIT_TX", i, "cacheERR")
    /\ UNCHANGED <<ledgerVars, coordVars, hist, partnerVars, outVars, hres>>

\* commitRef for MONAS_CREDIT: POST /internal/accounts/credit carries no
\* idempotence key, so every call that takes effect credits the account.
HandleCredit(t, i) ==
    /\ hpc[t]["COMMIT_TX"][i] = "credit"
    /\ \E o \in Outcome :
        /\ Call(o)
        /\ credits' = Effect(o, credits, [credits EXCEPT ![t] = @ + 1])
        /\ HGoto(t, "COMMIT_TX", i, Seen(o, "recordIn", "fail"))
    /\ UNCHANGED <<ledgerVars, coordVars, hist, rowB, cache, outVars, hres>>

\* recordInboundPayment: best-effort, keyed by order_number.
HandleRecord(t, i) ==
    /\ hpc[t]["COMMIT_TX"][i] = "recordIn"
    /\ \E o \in {"ok", "fail"} :
        Call(o) /\ hist' = Effect(o, hist, [hist EXCEPT ![t] = @ \cup {"IN"}])
    /\ HGoto(t, "COMMIT_TX", i, "status")
    /\ UNCHANGED <<ledgerVars, coordVars, partnerVars, outVars, hres>>

\* handleRollbackTx, RollbackLocal: anything but a PREPARED row is a no-op,
\* and an incoming credit has nothing to release.
HandleRollbackFind(t, i) ==
    /\ hpc[t]["ROLLBACK_TX"][i] = "run"
    /\ \/ /\ UNCHANGED nf
          /\ HGoto(t, "ROLLBACK_TX", i, IF rowB[t] = "PREPARED" THEN "status" ELSE "cacheOK")
       \/ Fault("call") /\ HGoto(t, "ROLLBACK_TX", i, "cacheERR")
    /\ UNCHANGED <<ledgerVars, coordVars, hist, partnerVars, outVars, hres>>

\* The final UpdateTxStatus of CommitLocal and of RollbackLocal, without a
\* condition on the status it overwrites.
FinalStatus(k) == IF k = "COMMIT_TX" THEN "COMMITTED" ELSE "ROLLED_BACK"

HandleStatus(t, k, i) ==
    /\ hpc[t][k][i] = "status"
    /\ \E o \in Outcome :
        /\ Call(o)
        /\ rowB' = Effect(o, rowB, [rowB EXCEPT ![t] = FinalStatus(k)])
        /\ HGoto(t, k, i, Seen(o, "cacheOK", "cacheERR"))
    /\ UNCHANGED <<ledgerVars, coordVars, hist, credits, cache, outVars, hres>>

\* CommitLocal after a failed credit: best-effort flip to FAILED.
HandleFail(t, i) ==
    /\ hpc[t]["COMMIT_TX"][i] = "fail"
    /\ \E o \in {"ok", "fail"} :
        Call(o) /\ rowB' = Effect(o, rowB, [rowB EXCEPT ![t] = "FAILED"])
    /\ HGoto(t, "COMMIT_TX", i, "cacheERR")
    /\ UNCHANGED <<ledgerVars, coordVars, hist, credits, cache, outVars, hres>>

\* persistCache / persistAndReturnError, then the answer.  The first row of a
\* key wins; a failed insert is logged and the answer goes out all the same.
CachedAs == [cacheYES |-> "YES", cacheNO |-> "NO", cacheOK |-> "OK", cacheERR |-> "ERR"]

HandleAnswer(t, k, i) ==
    /\ hpc[t][k][i] \in DOMAIN CachedAs
    /\ LET a == CachedAs[hpc[t][k][i]] IN
        /\ \E o \in {"ok", "fail"} :
            /\ Call(o)
            /\ cache' = IF o = "ok" /\ cache[t][k] = "none" THEN [cache EXCEPT ![t][k] = a] ELSE cache
        /\ hres' = [hres EXCEPT ![t][k][i] = a]
    /\ HGoto(t, k, i, "done")
    /\ UNCHANGED <<ledgerVars, coordVars, hist, rowB, credits, outVars>>

\* The request is lost, or the handler dies: with its process, or because the
\* sender hung up and its context was cancelled.  No answer is sent.
RequestLost(t, k, i) ==
    /\ hpc[t][k][i] = "net" /\ Fault("net")
    /\ HGoto(t, k, i, "done")
    /\ UNCHANGED <<ledgerVars, coordVars, hist, partnerVars, outVars, hres>>

HandlerDies(t, k, i) ==
    /\ hpc[t][k][i] \notin {"off", "net", "done"} /\ Fault("crash")
    /\ HGoto(t, k, i, "done")
    /\ UNCHANGED <<ledgerVars, coordVars, hist, partnerVars, outVars, hres>>

------------------------------------------------------------------------------
Coordinator(t) ==
    \/ PrepareValidate(t) \/ PrepareReserve(t) \/ PreparePersist(t) \/ PrepareCompensate(t)
    \/ SendNewTx(t) \/ ReceiveVote(t) \/ VoteTimeout(t)
    \/ CommitRef(t) \/ CommitStatus(t) \/ CommitFailStatus(t) \/ RecordOutbound(t) \/ SendCommitTx(t)
    \/ RollbackRelease(t) \/ RollbackStatus(t) \/ SendRollbackTx(t)
    \/ ReceiveAck(t) \/ AckTimeout(t)

Scheduler(t, k) == Resend(t, k) \/ ResendOk(t, k) \/ ResendFailed(t, k)

Handler(t, k, i) ==
    \/ Lookup(t, k, i) \/ HandleStatus(t, k, i) \/ HandleAnswer(t, k, i)
    \/ k = "NEW_TX" /\ (HandlePrepare(t, i) \/ HandlePersist(t, i))
    \/ k = "COMMIT_TX" /\ (HandleCommitFind(t, i) \/ HandleCredit(t, i) \/ HandleRecord(t, i)
                           \/ HandleFail(t, i))
    \/ k = "ROLLBACK_TX" /\ HandleRollbackFind(t, i)

Crash == \/ \E t \in Tx : CoordinatorCrash(t)
         \/ \E t \in Tx, k \in Kind, i \in Attempt : RequestLost(t, k, i) \/ HandlerDies(t, k, i)

Next ==
    \/ \E t \in Tx : Coordinator(t)
    \/ \E t \in Tx, k \in Kind : Scheduler(t, k)
    \/ \E t \in Tx, k \in Kind, i \in Attempt : Handler(t, k, i)
    \/ Crash

Spec == Init /\ [][Next]_vars

\* Every process that is alive keeps running, and the scheduler keeps ticking.
Fairness ==
    /\ \A t \in Tx : WF_vars(Coordinator(t))
    /\ \A t \in Tx, k \in Kind : WF_vars(Scheduler(t, k))
    /\ \A t \in Tx, k \in Kind, i \in Attempt : WF_vars(Handler(t, k, i))

FairSpec == Spec /\ Fairness

------------------------------------------------------------------------------
(* Properties. *)

\* The recipient is credited only with money the sender's bank has taken:
\* through any lost answer, crash, resend and duplicated COMMIT_TX, a credit
\* or a history row implies a COMMITTED reservation (the order CommitLocal,
\* recordOutboundPayment, SendCommitTx of SendOutboundPayment).
CreditedOnlyIfDebited ==
    \A t \in Tx : (credits[t] > 0 \/ hist[t] # {}) => resv[t] = "COMMITTED"

\* A payment reported as sent is one both banks can still complete: the
\* money is taken, and the partner, having voted YES, never rolls it back.
SuccessIsKept ==
    \A t \in Tx : result[t] = "ok" =>
        resv[t] = "COMMITTED" /\ rowB[t] \in {"PREPARED", "COMMITTED", "FAILED"}

\* A payment the sender's bank undid moves no money, and no message still in
\* flight or waiting in the outbox can make it do so later.
RolledBackMovesNothing ==
    \A t \in Tx : rowA[t] = "ROLLED_BACK" =>
        credits[t] = 0 /\ resv[t] # "COMMITTED" /\ out[t]["COMMIT_TX"] = "none"

\* The recipient is credited at most once: the COMMITTED row and the
\* idempotency cache are to stop a second CommitLocal of the same payment.
CreditedAtMostOnce == \A t \in Tx : credits[t] =< 1

\* A payment the sender's bank committed reaches the recipient: the scheduler
\* resends COMMIT_TX until the partner has committed too.
CommittedIsDelivered ==
    \A t \in Tx : (rowA[t] = "COMMITTED") ~> (credits[t] > 0 /\ rowB[t] = "COMMITTED")

\* Where the money of a payment is, read off the two ledgers.
Place(t) ==
    IF credits[t] = 0 THEN IF resv[t] = "COMMITTED" THEN "transit" ELSE "sender"
    ELSE IF credits[t] = 1 /\ resv[t] = "COMMITTED" THEN "recipient" ELSE "broken"

Money == [t \in Tx |-> Place(t)]

Promise == INSTANCE MoneyPromise WITH place <- Money
------------------------------------------------------------------------------
(* The inductive invariant behind the three safety invariants above.        *)

\* Where the coordinator stands fixes what it has done to the ledger, to its
\* own row and to its outbox.
CommitOrder(t) ==
    /\ pc[t] \in {"newTx", "waitNew", "commitRef", "release"} => rowA[t] = "PREPARED"
    /\ pc[t] \in {"validate", "reserve", "persist", "compensate", "newTx", "waitNew",
                  "commitRef", "release", "rollbackStatus"} => resv[t] # "COMMITTED"
    /\ pc[t] \in {"commitStatus", "record", "commitTx", "waitCommit"} => resv[t] = "COMMITTED"
    /\ rowA[t] = "ROLLED_BACK" =>
            resv[t] # "COMMITTED" /\ pc[t] \in {"rollbackTx", "waitRollback", "done", "crashed"}
    /\ out[t]["COMMIT_TX"] # "none" =>
            resv[t] = "COMMITTED" /\ pc[t] \in {"waitCommit", "done", "crashed"}
    /\ result[t] = "ok" => pc[t] = "done" /\ resv[t] = "COMMITTED"
    /\ credits[t] > 0 \/ hist[t] # {} => resv[t] = "COMMITTED"

\* A handler runs, and the scheduler resends, only what was persisted.
MessageBacked(t) ==
    \A k \in Kind :
        /\ \A i \in Attempt : hpc[t][k][i] # "off" => out[t][k] # "none"
        /\ resending[t][k] => out[t][k] # "none"

\* A YES, answered or cached, is backed by a row at the partner.
YesBacked(t) ==
    /\ \A i \in Attempt :
            /\ hpc[t]["NEW_TX"][i] # "status"
            /\ hpc[t]["NEW_TX"][i] = "cacheYES" => rowB[t] # "none"
            /\ hres[t]["NEW_TX"][i] = "YES" => rowB[t] # "none"
    /\ cache[t]["NEW_TX"] = "YES" => rowB[t] # "none"

\* The coordinator commits only after a YES.
VoteBacked(t) ==
    /\ vote[t] = "YES" => rowB[t] # "none"
    /\ pc[t] \in {"commitRef", "commitStatus", "record", "commitTx", "waitCommit"}
            => vote[t] = "YES"
    /\ result[t] = "ok" => vote[t] = "YES"

\* The partner rolls back only on a ROLLBACK_TX, which excludes success.
RollbackBacked(t) ==
    /\ out[t]["ROLLBACK_TX"] # "none" =>
            result[t] # "ok" /\ pc[t] \in {"waitRollback", "done", "crashed"}
    /\ rowB[t] = "ROLLED_BACK" => out[t]["ROLLBACK_TX"] # "none"

TxInv(t) == CommitOrder(t) /\ MessageBacked(t) /\ YesBacked(t) /\ VoteBacked(t) /\ RollbackBacked(t)

IndInv == TypeOK /\ \A t \in Tx : TxInv(t)

\* What makes a credit unique when only the network fails: COMMIT_TX and
\* ROLLBACK_TX exclude each other, an attempt starts when the one before has
\* ended, and the one that credited has its row COMMITTED before it ends.
CreditOnce(t) ==
    /\ out[t]["COMMIT_TX"] = "none" \/ out[t]["ROLLBACK_TX"] = "none"
    /\ \A i \in Attempt :
            /\ i > att[t]["COMMIT_TX"] => hpc[t]["COMMIT_TX"][i] = "off"
            /\ i < att[t]["COMMIT_TX"] => hpc[t]["COMMIT_TX"][i] = "done"
            /\ hpc[t]["COMMIT_TX"][i] # "fail"
            /\ hpc[t]["COMMIT_TX"][i] = "credit" => credits[t] = 0
    /\ credits[t] > 0 =>
            /\ out[t]["COMMIT_TX"] # "none"
            /\ \/ rowB[t] = "COMMITTED"
               \/ \E i \in Attempt : hpc[t]["COMMIT_TX"][i] \in {"recordIn", "status"}
    /\ credits[t] =< 1

OnceInv == IndInv /\ \A t \in Tx : CreditOnce(t)
==============================================================================
