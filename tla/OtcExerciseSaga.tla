--------------------------- MODULE OtcExerciseSaga ---------------------------
(***************************************************************************)
(* The exercise of one OTC option contract for one share: the contract in  *)
(* trading-service, the OTC_EXERCISE saga in saga-orchestrator-service, and *)
(* the rows its steps write in banking-core (fund_reservations,            *)
(* internal_transfer_log) and in trading-service (stock_reservations,      *)
(* stock_ownership_transfers, portfolio).                                  *)
(*                                                                         *)
(* The handler runs in the goroutine of the queue listener or in one       *)
(* started by an operator's resume, retry or restart.  Its steps are       *)
(*   1 ReserveFunds, 2 ReserveStocks, 3 ReleaseFunds + InternalTransfer,   *)
(*   4 TransferOwnership,                                                  *)
(* each followed by a save of the saga row under an optimistic lock.       *)
(* Downstream rows are keyed by a fresh id per call, never by correlation  *)
(* id, so the retry count, which only enters the correlation id, is left   *)
(* out.                                                                    *)
(***************************************************************************)
EXTENDS Integers, FiniteSets

CONSTANTS Shares,       \* the seller's shares, one of them held for the contract
          MaxRuns,      \* bound on the executions of the handler
          MaxTries,     \* maxAttempts of compensateWithRetry
          Scenarios     \* what may happen in a behaviour, see below

\* "refuse": a downstream call fails without effect
\* "lost":   a downstream call takes effect and its answer is lost
\* "db":     a write of the saga row fails or loses its answer
\* "pub":    a message is not published
\* "crash":  the orchestrator process dies
FaultClass == {"refuse", "lost", "db", "pub", "crash"}

SagaState == {"STARTED", "IN_PROGRESS", "COMPENSATING", "COMPLETED", "COMPENSATED", "FAILED"}
Terminal == {"COMPLETED", "COMPENSATED", "FAILED"}
AdminOp == {"resume", "retry", "restart"}

\* The environment of a behaviour is a record: the classes of fault and how
\* many faults, how many requests the buyer makes, and the <<operation, saga
\* state>> pairs an operator acts on.
ASSUME SagaAssumption ==
    /\ Shares \in Nat \ {0}
    /\ MaxRuns \in Nat /\ MaxTries \in Nat \ {0}
    /\ \A c \in Scenarios :
        /\ c.faults \subseteq FaultClass /\ {c.maxFaults, c.requests} \subseteq Nat
        /\ c.operator \subseteq AdminOp \X SagaState

Step == 1..4
Run == 1..MaxRuns
Ref == 0..MaxRuns            \* the run that made a row; 0 when there is no reference
Runner == {"listener", "admin"}
NoRefs == [s \in Step |-> 0]

VARIABLES contract,   \* option_contracts.status
          stamped,    \* option_contracts.exercised_at is set
          requests,   \* otc.exercise.requested messages in the queue
          asked,      \* requests made so far
          events,     \* result events on their way to trading-service
          st,         \* saga_instance.state, "none" before the insert
          ver,        \* saga_instance.version
          log,        \* saga_instance.compensation_log: the references
          pc,         \* where each runner stands
          step,       \* the step it is at, in either direction
          refs,       \* its in-memory references
          myVer,      \* its in-memory version
          run,        \* its run
          tries,      \* attempts of the current compensator
          allOK,      \* every compensator succeeded so far
          nruns,      \* runs started
          eff,        \* the row of each step and run
          qty,        \* the seller's shares
          reserved,   \* the seller's reserved shares
          bought,     \* the buyer's shares
          nf,         \* faults so far
          env         \* the scenario, chosen at the start

tradingVars == <<contract, stamped, requests, asked, events>>
rowVars == <<st, ver, log>>
runnerVars == <<pc, step, refs, myVer, run, tries, allOK, nruns>>
stockVars == <<qty, reserved, bought>>
vars == <<tradingVars, rowVars, runnerVars, stockVars, eff, nf, env>>

PC == {"idle", "find", "advance", "convert", "release", "call", "save", "undo",
       "finish", "fail", "compensate", "close"}
\* HELD or COMPLETED; RELEASED or REVERSED; COMMITTED.
Effect == {"none", "active", "undone", "committed"}

TypeOK ==
    /\ contract \in {"ACTIVE", "EXERCISED"} /\ stamped \in BOOLEAN
    /\ requests \in Nat /\ asked \in 0..env.requests
    /\ events \in [{"completed", "failed"} -> Nat]
    /\ st \in SagaState \cup {"none"} /\ ver \in Nat /\ log \in [Step -> Ref]
    /\ pc \in [Runner -> PC] /\ step \in [Runner -> 0..4] /\ refs \in [Runner -> [Step -> Ref]]
    /\ myVer \in [Runner -> Nat] /\ run \in [Runner -> Ref]
    /\ tries \in [Runner -> 0..MaxTries] /\ allOK \in [Runner -> BOOLEAN] /\ nruns \in Ref
    /\ eff \in [Step -> [Run -> Effect]]
    /\ qty \in Int /\ reserved \in Nat /\ bought \in Nat
    /\ env \in Scenarios /\ nf \in 0..env.maxFaults

\* The premium is paid and the accepted contract holds the seller's share.
Init ==
    /\ contract = "ACTIVE" /\ stamped = FALSE
    /\ requests = 0 /\ asked = 0 /\ events = [k \in {"completed", "failed"} |-> 0]
    /\ st = "none" /\ ver = 0 /\ log = NoRefs
    /\ pc = [r \in Runner |-> "idle"] /\ step = [r \in Runner |-> 0]
    /\ refs = [r \in Runner |-> NoRefs] /\ myVer = [r \in Runner |-> 0]
    /\ run = [r \in Runner |-> 0] /\ tries = [r \in Runner |-> 0]
    /\ allOK = [r \in Runner |-> TRUE] /\ nruns = 0
    /\ eff = [s \in Step |-> [n \in Run |-> "none"]]
    /\ qty = Shares /\ reserved = 1 /\ bought = 0
    /\ nf = 0 /\ env \in Scenarios

Fault(f) == f \in env.faults /\ nf < env.maxFaults /\ nf' = nf + 1

Outcome == {"ok", "fail", "lost"}

\* A downstream call, and a write of the saga row, with outcome o.
Call(o) == IF o = "ok" THEN UNCHANGED nf ELSE Fault(IF o = "fail" THEN "refuse" ELSE "lost")
DbCall(o) == IF o = "ok" THEN UNCHANGED nf ELSE Fault("db")

Goto(r, l) == pc' = [pc EXCEPT ![r] = l]
GotoStep(r, l, s) == Goto(r, l) /\ step' = [step EXCEPT ![r] = s]

------------------------------------------------------------------------------
(* trading-service: the contract. *)

\* ExerciseContract: an ACTIVE contract is stamped, whether or not it already
\* was, and the request is published after the commit.
ExerciseContract ==
    /\ contract = "ACTIVE" /\ asked < env.requests
    /\ asked' = asked + 1
    /\ stamped' = TRUE
    /\ \/ requests' = requests + 1 /\ UNCHANGED nf
       \/ Fault("pub") /\ UNCHANGED requests
    /\ UNCHANGED <<contract, events, rowVars, runnerVars, stockVars, eff>>

Consume(k) == events[k] > 0 /\ events' = [events EXCEPT ![k] = @ - 1]

\* The listeners of the two result queues; no-ops unless the contract is ACTIVE.
CompleteExercise ==
    /\ Consume("completed")
    /\ contract' = "EXERCISED"
    /\ UNCHANGED <<stamped, requests, asked, rowVars, runnerVars, stockVars, eff, nf>>

\* Mutant: the stamp is forgotten.
RevertExerciseStamped ==
    /\ Consume("failed")
    /\ UNCHANGED <<contract, stamped, requests, asked, rowVars, runnerVars, stockVars, eff, nf>>

RevertExercise ==
    /\ Consume("failed")
    /\ stamped' = IF contract = "ACTIVE" THEN FALSE ELSE stamped
    /\ UNCHANGED <<contract, requests, asked, rowVars, runnerVars, stockVars, eff, nf>>

------------------------------------------------------------------------------
(* The saga row. *)

\* UpdateOptimistic with outcome o: nothing is written when the version moved.
Update(r, s, o) ==
    IF o # "fail" /\ ver = myVer[r]
    THEN st' = s /\ ver' = ver + 1 /\ log' = refs[r] ELSE UNCHANGED rowVars

Updated(r, o) == o = "ok" /\ ver = myVer[r]

Bump(r, o) == myVer' = [myVer EXCEPT ![r] = IF Updated(r, o) THEN @ + 1 ELSE @]

------------------------------------------------------------------------------
(* The handler. *)

\* The listener takes a message; an error or a success of the handler settles
\* it (nack without requeue, ack), only a crash returns it to the queue.
Deliver ==
    /\ pc["listener"] = "idle" /\ requests > 0
    /\ requests' = requests - 1
    /\ Goto("listener", "find")
    /\ UNCHANGED <<contract, stamped, asked, events, rowVars, step, refs, myVer, run, tries,
                   allOK, nruns, stockVars, eff, nf>>

\* recover: the operator's endpoints reset the state and dispatch the handler
\* in a goroutine of its own, whether or not another one is running.
TargetState(op) == IF op = "resume" THEN "IN_PROGRESS" ELSE "STARTED"

Recover(op) ==
    /\ pc["admin"] = "idle" /\ nruns < MaxRuns
    /\ st # "none" /\ <<op, st>> \in env.operator
    /\ IF st # TargetState(op) \/ op = "restart"
       THEN /\ st' = TargetState(op) /\ ver' = ver + 1
            /\ log' = IF op = "restart" THEN NoRefs ELSE log
       ELSE UNCHANGED rowVars
    /\ Goto("admin", "find")
    /\ UNCHANGED <<tradingVars, step, refs, myVer, run, tries, allOK, nruns, stockVars, eff, nf>>

\* findOrInitialize, and what the state found allows: a terminal saga is
\* skipped, an IN_PROGRESS one is re-run with an empty log, any other keeps
\* the references of its log.
SkipState(s) == s \in Terminal
\* Mutant: the log of an interrupted run is carried on.
KeptRefsAlways == log
KeptRefs == IF st = "IN_PROGRESS" THEN NoRefs ELSE log

FindOrInitialize(r) ==
    /\ pc[r] = "find"
    /\ \/ /\ Fault("db") /\ Goto(r, "idle")
          /\ UNCHANGED <<rowVars, refs, myVer, run, nruns>>
       \/ /\ SkipState(st) /\ Goto(r, "idle")
          /\ UNCHANGED <<rowVars, refs, myVer, run, nruns, nf>>
       \/ /\ ~SkipState(st) /\ nruns < MaxRuns
          /\ nruns' = nruns + 1
          /\ run' = [run EXCEPT ![r] = nruns + 1]
          /\ st' = IF st = "none" THEN "STARTED" ELSE st
          /\ refs' = [refs EXCEPT ![r] = KeptRefs]
          /\ myVer' = [myVer EXCEPT ![r] = ver]
          /\ Goto(r, "advance")
          /\ UNCHANGED <<ver, log, nf>>
    /\ UNCHANGED <<tradingVars, step, tries, allOK, stockVars, eff>>

\* advanceState: a conflict or an error ends the run.
AdvanceState(r) ==
    /\ pc[r] = "advance"
    /\ \E o \in Outcome :
        /\ DbCall(o) /\ Update(r, "IN_PROGRESS", o) /\ Bump(r, o)
        /\ Goto(r, IF Updated(r, o) THEN "convert" ELSE "idle")
    /\ UNCHANGED <<tradingVars, step, refs, run, tries, allOK, nruns, stockVars, eff>>

\* Currency conversion; its failure compensates with a fresh, empty log.
Convert(r) ==
    /\ pc[r] = "convert"
    /\ \/ GotoStep(r, "call", 1) /\ UNCHANGED <<refs, nf>>
       \/ /\ Fault("refuse") /\ Goto(r, "fail")
          /\ refs' = [refs EXCEPT ![r] = NoRefs]
          /\ UNCHANGED step
    /\ UNCHANGED <<tradingVars, rowVars, myVer, run, tries, allOK, nruns, stockVars, eff>>

\* ReservationService.Reserve: the share reserved at accept time is consumed
\* when there is one, otherwise a free share is reserved.
ReserveStocks(n) ==
    /\ reserved' = IF reserved >= 1 THEN reserved ELSE reserved + 1
    /\ eff' = [eff EXCEPT ![2][n] = "active"]
    /\ UNCHANGED <<qty, bought>>

\* ReservationService.TransferOwnership of a HELD reservation.
TransferOwnership(n) ==
    /\ qty' = qty - 1 /\ bought' = bought + 1
    /\ reserved' = IF reserved > 1 THEN reserved - 1 ELSE 0
    /\ eff' = [eff EXCEPT ![2][n] = "committed", ![4][n] = "active"]

\* What step s does downstream, in run n, and when it is refused.
CanDo(s, n) ==
    /\ s = 2 => qty - reserved >= 1 \/ reserved >= 1
    /\ s = 4 => eff[2][n] = "active"

Do(s, n) ==
    \/ s \in {1, 3} /\ eff' = [eff EXCEPT ![s][n] = "active"] /\ UNCHANGED stockVars
    \/ s = 2 /\ ReserveStocks(n)
    \/ s = 4 /\ TransferOwnership(n)

\* The step is taken to have succeeded when the answer says so.
\* Mutant: the error of the call is not looked at.
SucceededUnchecked(o, s, n) == o # "lost"
Succeeded(o, s, n) == o = "ok" /\ CanDo(s, n)

\* The call of a forward step.  Only a call whose answer arrives leaves a
\* reference, and only references are compensated.
CallStep(r) ==
    /\ pc[r] = "call"
    /\ \E o \in Outcome :
        /\ Call(o)
        /\ IF o # "fail" /\ CanDo(step[r], run[r])
           THEN Do(step[r], run[r]) ELSE UNCHANGED <<stockVars, eff>>
        /\ IF Succeeded(o, step[r], run[r])
           THEN Goto(r, "save") /\ refs' = [refs EXCEPT ![r][step[r]] = run[r]]
           ELSE Goto(r, "fail") /\ UNCHANGED refs
    /\ UNCHANGED <<tradingVars, rowVars, step, myVer, run, tries, allOK, nruns>>

\* saveFullLog after a forward step.  Step 3 first releases the reservation of
\* step 1.  When the row cannot be written the run is undone and given up.
AfterSave(s) == IF s = 2 THEN "release" ELSE IF s = 4 THEN "finish" ELSE "call"

SaveStep(r) ==
    /\ pc[r] = "save"
    /\ \E o \in Outcome :
        /\ DbCall(o) /\ Update(r, "IN_PROGRESS", o) /\ Bump(r, o)
        /\ IF Updated(r, o)
           THEN GotoStep(r, AfterSave(step[r]), IF step[r] = 4 THEN 4 ELSE step[r] + 1)
           ELSE Goto(r, "undo") /\ UNCHANGED step
    /\ UNCHANGED <<tradingVars, refs, run, tries, allOK, nruns, stockVars, eff>>

\* ReleaseFunds of step 3.
ReleaseStep(r) ==
    /\ pc[r] = "release"
    /\ \E o \in Outcome :
        /\ Call(o)
        /\ eff' = IF o # "fail" /\ eff[1][run[r]] = "active"
                  THEN [eff EXCEPT ![1][run[r]] = "undone"] ELSE eff
        /\ Goto(r, IF o = "ok" THEN "call" ELSE "fail")
    /\ UNCHANGED <<tradingVars, rowVars, step, refs, myVer, run, tries, allOK, nruns, stockVars>>

\* Mutant: the reserved quantity is not kept from going below zero.
UndoUnguarded(s, n) ==
    IF n = 0 \/ eff[s][n] # "active" THEN UNCHANGED <<stockVars, eff>>
    ELSE /\ eff' = [eff EXCEPT ![s][n] = "undone"]
         /\ qty' = IF s = 4 THEN qty + 1 ELSE qty
         /\ bought' = IF s = 4 THEN bought - 1 ELSE bought
         /\ reserved' = IF s = 2 THEN reserved - 1 ELSE reserved

\* The compensator of step s for the row of run n; a row that is not active
\* is answered with success and left alone.
Undo(s, n) ==
    IF n = 0 \/ eff[s][n] # "active" THEN UNCHANGED <<stockVars, eff>>
    ELSE /\ eff' = [eff EXCEPT ![s][n] = "undone"]
         /\ qty' = IF s = 4 THEN qty + 1 ELSE qty
         /\ bought' = IF s = 4 /\ bought > 0 THEN bought - 1 ELSE bought
         /\ reserved' = IF s = 2 /\ reserved > 0 THEN reserved - 1 ELSE reserved

\* The one-shot compensators after a failed save, from the step just done
\* backwards; the reservation of step 1 only if step 3 has not released it.
\* An error is logged and the run is given up.
UndoStep(r) ==
    /\ pc[r] = "undo"
    /\ \E o \in {"ok", "fail"} :
        /\ Call(o)
        /\ IF o = "ok" THEN Undo(step[r], refs[r][step[r]]) ELSE UNCHANGED <<stockVars, eff>>
    /\ IF step[r] = 1 \/ (step[r] = 2 /\ eff[1][run[r]] # "active")
       THEN GotoStep(r, "idle", 0) ELSE GotoStep(r, "undo", step[r] - 1)
    /\ UNCHANGED <<tradingVars, rowVars, refs, myVer, run, tries, allOK, nruns>>

\* After step 4: COMPLETED is saved, an error is logged, and the event is
\* published all the same.
Finish(r) ==
    /\ pc[r] = "finish"
    /\ \/ \E o \in Outcome :
            DbCall(o) /\ Update(r, "COMPLETED", o) /\ events' = [events EXCEPT !["completed"] = @ + 1]
       \/ Update(r, "COMPLETED", "ok") /\ Fault("pub") /\ UNCHANGED events
    /\ Goto(r, "idle")
    /\ UNCHANGED <<contract, stamped, requests, asked, step, refs, myVer, run, tries, allOK,
                   nruns, stockVars, eff>>

\* otcExerciseFail: COMPENSATING is saved if it can be.
Fail(r) ==
    /\ pc[r] = "fail"
    /\ \E o \in Outcome : DbCall(o) /\ Update(r, "COMPENSATING", o) /\ Bump(r, o)
    /\ GotoStep(r, "compensate", 4)
    /\ tries' = [tries EXCEPT ![r] = 0] /\ allOK' = [allOK EXCEPT ![r] = TRUE]
    /\ UNCHANGED <<tradingVars, refs, run, nruns, stockVars, eff>>

\* One attempt of compensateWithRetry and the save that follows it, or the
\* step passed over because it left no reference.  After MaxTries failures the
\* chain goes on with the next compensator.
NextComp(r) == IF step[r] = 1 THEN GotoStep(r, "close", 0) ELSE GotoStep(r, "compensate", step[r] - 1)

SkipStep(r) ==
    /\ pc[r] = "compensate" /\ refs[r][step[r]] = 0
    /\ NextComp(r)
    /\ UNCHANGED <<tradingVars, rowVars, refs, myVer, run, tries, allOK, nruns, stockVars, eff, nf>>

CompensateStep(r) ==
    /\ pc[r] = "compensate" /\ refs[r][step[r]] # 0
    /\ \E o \in Outcome, d \in Outcome :
        /\ IF d = "ok" THEN Call(o) ELSE o = "ok" /\ DbCall(d)
        /\ Update(r, "COMPENSATING", d) /\ Bump(r, d)
        /\ IF o # "fail" THEN Undo(step[r], refs[r][step[r]]) ELSE UNCHANGED <<stockVars, eff>>
        /\ IF o = "ok" \/ tries[r] + 1 = MaxTries
           THEN NextComp(r) /\ tries' = [tries EXCEPT ![r] = 0]
           ELSE tries' = [tries EXCEPT ![r] = @ + 1] /\ UNCHANGED <<pc, step>>
        /\ allOK' = [allOK EXCEPT ![r] = @ /\ (o = "ok" \/ tries[r] + 1 < MaxTries)]
    /\ UNCHANGED <<tradingVars, refs, run, nruns>>

\* The end of otcExerciseFail.
\* Mutant: a compensator that gave up is not remembered.
VerdictOptimist(ok) == "COMPENSATED"
Verdict(ok) == IF ok THEN "COMPENSATED" ELSE "FAILED"

Close(r) ==
    /\ pc[r] = "close"
    /\ \/ \E o \in Outcome :
            DbCall(o) /\ Update(r, Verdict(allOK[r]), o) /\ events' = [events EXCEPT !["failed"] = @ + 1]
       \/ Update(r, Verdict(allOK[r]), "ok") /\ Fault("pub") /\ UNCHANGED events
    /\ Goto(r, "idle")
    /\ UNCHANGED <<contract, stamped, requests, asked, step, refs, myVer, run, tries, allOK,
                   nruns, stockVars, eff>>

\* The process dies: every run stops, and the broker redelivers the message
\* that was not acknowledged.  An orderly shutdown cancels the contexts of the
\* listener, whose failing run ends by settling the message.
Crash ==
    /\ \E r \in Runner : pc[r] # "idle"
    /\ Fault("crash")
    /\ pc' = [r \in Runner |-> "idle"]
    /\ \/ pc["listener"] # "idle" /\ requests' = requests + 1
       \/ UNCHANGED requests
    /\ UNCHANGED <<contract, stamped, asked, events, rowVars, step, refs, myVer, run, tries,
                   allOK, nruns, stockVars, eff>>

------------------------------------------------------------------------------
Handle(r) ==
    \/ FindOrInitialize(r) \/ AdvanceState(r) \/ Convert(r) \/ CallStep(r) \/ SaveStep(r)
    \/ ReleaseStep(r) \/ UndoStep(r) \/ Finish(r) \/ Fail(r) \/ SkipStep(r)
    \/ CompensateStep(r) \/ Close(r)

Next ==
    /\ \/ ExerciseContract \/ CompleteExercise \/ RevertExercise
       \/ Deliver \/ (\E op \in AdminOp : Recover(op)) \/ Crash
       \/ \E r \in Runner : Handle(r)
    /\ UNCHANGED env

Spec == Init /\ [][Next]_vars

\* Goroutines that run keep running, and queued messages are delivered.
FairSpec ==
    /\ Spec
    /\ \A r \in Runner : WF_vars(Handle(r) /\ UNCHANGED env)
    /\ WF_vars(Deliver /\ UNCHANGED env)
    /\ WF_vars(CompleteExercise /\ UNCHANGED env) /\ WF_vars(RevertExercise /\ UNCHANGED env)

------------------------------------------------------------------------------
(* Properties. *)

Active(s) == {n \in Run : eff[s][n] = "active"}
Busy == \E r \in Runner : pc[r] # "idle"

\* Every call and every write of the saga row is answered.
Answered == env.faults \cap {"lost", "db"} = {}

\* Nothing crashes, and an operator acts on a compensated saga only, of a
\* contract that is requested once: the runs of the saga follow one another,
\* each from a saga at rest.
OneRun ==
    /\ "crash" \notin env.faults
    /\ env.operator = {} \/ (env.requests =< 1 /\ env.operator \subseteq AdminOp \X {"COMPENSATED"})

Undisturbed == Answered /\ OneRun

\* The buyer pays the strike at most once, however many calls and compensators
\* are refused and however often the saga is asked for or retried after it was
\* compensated: no two transfers stand at the same time.  It takes that calls
\* are answered and that no run overlaps another or follows a crash.
PaidOnce == Undisturbed => Cardinality(Active(3)) =< 1

\* The same of a saga that is run again where it was interrupted, which the
\* handler's recovery relies on: it repeats the downstream calls with the same
\* correlation id.
RecoveryPaysOnce == Answered => Cardinality(Active(3)) =< 1

\* When every call is answered and one run follows another, a saga that ended
\* leaves nothing half done: COMPLETED means paid, delivered and nothing held;
\* COMPENSATED means that everything was taken back.
Settled ==
    Undisturbed /\ ~Busy =>
        /\ st = "COMPLETED" => Cardinality(Active(3)) = 1 /\ Cardinality(Active(4)) = 1
        /\ st = "COMPENSATED" => Active(3) = {} /\ Active(4) = {}
        /\ st \in {"COMPLETED", "COMPENSATED"} => Active(1) = {} /\ Active(2) = {}

\* With any fault and any recovery, a contract shown as EXERCISED was paid for
\* and its share delivered.
ExercisedIsSettled ==
    contract = "EXERCISED" => Active(3) # {} /\ Active(4) # {} /\ bought >= 1

\* Under the same condition, shares are only moved, never made or lost, and a
\* share is never with the buyer while the money for it is back with him.
GoodsArePaid ==
    Undisturbed =>
        /\ qty + bought = Shares /\ qty >= 0
        /\ \A n \in Run : eff[4][n] = "active" => eff[3][n] = "active"

\* The buyer's one request to exercise is answered, however many downstream
\* calls are refused: the contract becomes EXERCISED, or the stamp is taken off.
ExerciseAnswered ==
    (stamped /\ env.faults \subseteq {"refuse"} /\ env.requests = 1)
        ~> (contract = "EXERCISED" \/ ~stamped)
------------------------------------------------------------------------------
(* The inductive invariants behind them. *)

\* Past findOrInitialize.
Running(r) == pc[r] \notin {"idle", "find"}

\* Where a runner stands fixes what it may count on: a step, attempts left.
InPlace(r) ==
    /\ pc[r] \in {"call", "save", "undo", "compensate"} => step[r] \in Step
    /\ pc[r] = "release" => step[r] = 3
    /\ pc[r] = "compensate" => tries[r] < MaxTries
    /\ Running(r) => run[r] \in 1..nruns

SagaInv == TypeOK /\ \A r \in Runner : InPlace(r)

\* A run has one runner, and rows and references are of runs that were started.
Numbered ==
    /\ \A r, q \in Runner : Running(r) /\ Running(q) /\ r # q => run[r] # run[q]
    /\ \A r \in Runner, s \in Step : Running(r) => refs[r][s] =< nruns
    /\ \A s \in Step : log[s] =< nruns
    /\ \A s \in Step, n \in Run : eff[s][n] # "none" => n =< nruns
    /\ st = "none" => log = NoRefs

\* Nobody but its runner can get at the rows of run n: no other runner holds a
\* reference to it, and a log that does will not be picked up.
Shielded(n) == \A s \in Step : log[s] = n => st \in {"IN_PROGRESS", "COMPLETED"}
Private(r) == Shielded(run[r]) /\ \A q \in Runner \ {r}, s \in Step : Running(q) => refs[q][s] # run[r]

\* How far a run that has not failed is with the delivery and the transfer.
DeliveredBy(r) == pc[r] = "finish" \/ (pc[r] = "save" /\ step[r] = 4)
PaidBy(r) == DeliveredBy(r) \/ (pc[r] = "save" /\ step[r] = 3) \/ (pc[r] = "call" /\ step[r] = 4)

\* Such a run keeps its rows to itself.
OnItsWay(r) ==
    pc[r] \in {"advance", "convert", "call", "save", "release", "finish"} =>
        /\ Private(r)
        /\ eff[4][run[r]] = IF DeliveredBy(r) THEN "active" ELSE "none"
        /\ PaidBy(r) => eff[3][run[r]] = "active"

\* Run n paid, delivered and is out of everybody's reach.
Final(n) ==
    /\ eff[3][n] = "active" /\ eff[4][n] = "active" /\ Shielded(n)
    /\ \A r \in Runner : Running(r) => run[r] # n /\ \A s \in Step : refs[r][s] # n

ExercisedInv ==
    /\ SagaInv /\ Numbered
    /\ \A r \in Runner : OnItsWay(r)
    /\ bought = Cardinality(Active(4)) /\ qty + bought = Shares
    /\ events["completed"] > 0 \/ contract = "EXERCISED" => \E n \in Run : Final(n)

\* Nothing of run n stands.
Clean(n) == \A s \in Step : eff[s][n] \in {"none", "undone"}
Has(n, a, b, c, d) == eff[1][n] = a /\ eff[2][n] = b /\ eff[3][n] = c /\ eff[4][n] = d

\* What a run has done when every call is answered and nobody interferes.
Forward(r, n) ==
    /\ pc[r] \in {"advance", "convert"} => Has(n, "none", "none", "none", "none")
    /\ pc[r] = "call" =>
        /\ step[r] = 1 => Has(n, "none", "none", "none", "none")
        /\ step[r] = 2 => Has(n, "active", "none", "none", "none")
        /\ step[r] = 3 => Has(n, "undone", "active", "none", "none")
        /\ step[r] = 4 => Has(n, "undone", "active", "active", "none")
        /\ \A s \in Step : s < step[r] => refs[r][s] = n
    /\ pc[r] = "save" =>
        /\ step[r] = 1 => Has(n, "active", "none", "none", "none")
        /\ step[r] = 2 => Has(n, "active", "active", "none", "none")
        /\ step[r] = 3 => Has(n, "undone", "active", "active", "none")
        /\ step[r] = 4 => Has(n, "undone", "committed", "active", "active")
        /\ \A s \in Step : s =< step[r] => refs[r][s] = n
    /\ pc[r] = "release" => Has(n, "active", "active", "none", "none") /\ refs[r][1] = n /\ refs[r][2] = n
    /\ pc[r] = "finish" => Has(n, "undone", "committed", "active", "active")

\* What is left to take back has a reference, what was passed is taken back
\* unless a compensator gave up.
Backward(r, n) ==
    pc[r] \in {"fail", "compensate", "close"} =>
        /\ eff[4][n] = "none" /\ \A s \in Step : eff[s][n] # "committed"
        /\ \A s \in Step : eff[s][n] = "active" =>
             \/ refs[r][s] = n /\ (pc[r] = "fail" \/ (pc[r] = "compensate" /\ s =< step[r]))
             \/ pc[r] # "fail" /\ ~allOK[r]

\* Nobody runs: the row tells how the last run ended.
AtRest ==
    /\ st \notin {"COMPLETED", "FAILED"} => \A n \in Run : Clean(n)
    /\ st = "COMPLETED" => nruns \in Run /\ Has(nruns, "undone", "committed", "active", "active")
    /\ st = "FAILED" => \A n \in Run : eff[4][n] # "active"

\* One run at a time, and the row is its own.
Alone ==
    /\ \A r, q \in Runner : pc[r] # "idle" /\ pc[q] # "idle" => r = q
    /\ ~Busy => st \in Terminal \cup {"none"}
    /\ \A r \in Runner : Running(r) =>
        /\ run[r] = nruns /\ myVer[r] = ver /\ st \notin Terminal \cup {"none"} /\ pc[r] # "undo"
        /\ Forward(r, nruns) /\ Backward(r, nruns)
    /\ \A n \in Run : n # nruns => Clean(n)
    /\ (\A r \in Runner : ~Running(r)) => AtRest

\* An operator acts on a saga whose only request is dealt with.
Unasked ==
    /\ env.operator = {} => pc["admin"] = "idle"
    /\ env.operator # {} =>
        /\ requests > 0 \/ pc["listener"] = "find" => st = "none" /\ nruns = 0
        /\ requests > 0 => ~Busy /\ requests = 1 /\ asked = 1
        /\ pc["admin"] # "idle" => st # "none"
        /\ asked = 0 => st = "none" /\ nruns = 0 /\ ~Busy

AloneInv == SagaInv /\ (Undisturbed => ExercisedInv /\ Alone /\ Unasked)
==============================================================================
