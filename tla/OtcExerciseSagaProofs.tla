----------------------- MODULE OtcExerciseSagaProofs -----------------------
(***************************************************************************)
(* Machine-checked proofs about OtcExerciseSaga, for any number of runs,   *)
(* requests, shares, attempts and faults.                                  *)
(***************************************************************************)
EXTENDS OtcExerciseSaga, FiniteSetTheorems, TLAPS

-----------------------------------------------------------------------------
(* Types. *)

\* The scenario of a behaviour.
LEMMA EnvFacts ==
  ASSUME env \in Scenarios
  PROVE  env.requests \in Nat /\ env.maxFaults \in Nat
<1>1. {env.maxFaults, env.requests} \subseteq Nat
  BY SagaAssumption
<1> QED BY <1>1

\* A fault, or none.
LEMMA FaultFacts ==
  ASSUME TypeOK, UNCHANGED env, UNCHANGED nf \/ (\E f : Fault(f))
  PROVE  nf' \in 0..env'.maxFaults
<1>1. env.maxFaults \in Nat /\ nf \in 0..env.maxFaults
  BY EnvFacts DEF TypeOK
<1>2. CASE UNCHANGED nf
  BY <1>1, <1>2
<1>3. CASE \E f : Fault(f)
  <2>1. nf < env.maxFaults /\ nf' = nf + 1
    BY <1>3 DEF Fault
  <2> QED BY <1>1, <2>1
<1> QED BY <1>2, <1>3

\* The outcome of a call or a write is a fault, or none.
LEMMA OutcomeFacts ==
  ASSUME NEW o \in Outcome, Call(o) \/ DbCall(o)
  PROVE  UNCHANGED nf \/ (\E f : Fault(f))
  BY DEF Call, DbCall

\* The numbers.
LEMMA NumberFacts ==
  /\ MaxRuns \in Nat /\ MaxTries \in Nat /\ MaxTries # 0 /\ Shares \in Nat /\ Shares # 0
  /\ \A n \in Run : n \in Nat /\ n # 0 /\ n \in Ref
  /\ \A n \in Ref : n \in Nat /\ (n # 0 => n \in Run)
  /\ 0 \in Ref /\ NoRefs \in [Step -> Ref]
  BY SagaAssumption DEF Run, Ref, NoRefs

\* A write of the saga row keeps its type.
LEMMA UpdateType ==
  ASSUME TypeOK, NEW r \in Runner, NEW s \in SagaState, NEW o, Update(r, s, o)
  PROVE  st' \in SagaState \cup {"none"} /\ ver' \in Nat /\ log' \in [Step -> Ref]
  BY DEF TypeOK, Update, rowVars

\* So does a new version in memory.
LEMMA BumpType ==
  ASSUME TypeOK, NEW r \in Runner, NEW o, Bump(r, o)
  PROVE  myVer' \in [Runner -> Nat]
<1>1. myVer \in [Runner -> Nat]
  BY DEF TypeOK
<1>2. CASE Updated(r, o)
  BY <1>1, <1>2 DEF Bump
<1>3. CASE ~Updated(r, o)
  BY <1>1, <1>3 DEF Bump
<1> QED BY <1>2, <1>3

\* A row of a step changes.
LEMMA EffType ==
  ASSUME TypeOK, NEW s \in Step, NEW n, NEW e \in Effect
  PROVE  [eff EXCEPT ![s][n] = e] \in [Step -> [Run -> Effect]]
<1>1. eff \in [Step -> [Run -> Effect]]
  BY DEF TypeOK
<1>2. [eff[s] EXCEPT ![n] = e] \in [Run -> Effect]
  BY <1>1
<1> QED BY <1>1, <1>2

\* The call of a step.
LEMMA DoType ==
  ASSUME TypeOK, NEW s \in Step, NEW n, Do(s, n)
  PROVE  eff' \in [Step -> [Run -> Effect]] /\ qty' \in Int /\ reserved' \in Nat /\ bought' \in Nat
<1>1. qty \in Int /\ reserved \in Nat /\ bought \in Nat /\ eff \in [Step -> [Run -> Effect]]
  BY DEF TypeOK
<1>2. "active" \in Effect /\ "committed" \in Effect /\ 2 \in Step /\ 4 \in Step
  BY DEF Effect, Step
<1>3. CASE s \in {1, 3} /\ eff' = [eff EXCEPT ![s][n] = "active"] /\ UNCHANGED stockVars
  BY <1>1, <1>2, <1>3, EffType DEF stockVars
<1>4. CASE ReserveStocks(n)
  BY <1>1, <1>2, <1>4, EffType DEF ReserveStocks
<1>5. CASE TransferOwnership(n)
  <2>1. [eff EXCEPT ![2][n] = "committed"] \in [Step -> [Run -> Effect]]
    BY <1>2, EffType
  <2>2. eff' \in [Step -> [Run -> Effect]]
    <3>1. eff' = [[eff EXCEPT ![2][n] = "committed"] EXCEPT ![4][n] = "active"]
      BY <1>1, <1>5 DEF TransferOwnership
    <3> DEFINE f == [eff EXCEPT ![2][n] = "committed"]
    <3>2. f \in [Step -> [Run -> Effect]]
      BY <2>1
    <3> HIDE DEF f
    <3>3. [f[4] EXCEPT ![n] = "active"] \in [Run -> Effect]
      BY <1>2, <3>2
    <3>4. [f EXCEPT ![4][n] = "active"] \in [Step -> [Run -> Effect]]
      BY <1>2, <3>2, <3>3
    <3> QED BY <3>1, <3>4 DEF f
  <2>3. qty' \in Int /\ reserved' \in Nat /\ bought' \in Nat
    BY <1>1, <1>5 DEF TransferOwnership
  <2> QED BY <2>2, <2>3
<1> QED BY <1>3, <1>4, <1>5 DEF Do

\* A compensator.
LEMMA UndoType ==
  ASSUME TypeOK, NEW s \in Step, NEW n, Undo(s, n)
  PROVE  eff' \in [Step -> [Run -> Effect]] /\ qty' \in Int /\ reserved' \in Nat /\ bought' \in Nat
<1>1. qty \in Int /\ reserved \in Nat /\ bought \in Nat /\ eff \in [Step -> [Run -> Effect]]
  BY DEF TypeOK
<1>2. CASE UNCHANGED <<stockVars, eff>>
  BY <1>1, <1>2 DEF stockVars
<1>3. CASE eff' = [eff EXCEPT ![s][n] = "undone"]
           /\ qty' = (IF s = 4 THEN qty + 1 ELSE qty)
           /\ bought' = (IF s = 4 /\ bought > 0 THEN bought - 1 ELSE bought)
           /\ reserved' = (IF s = 2 /\ reserved > 0 THEN reserved - 1 ELSE reserved)
  <2>1. "undone" \in Effect
    BY DEF Effect
  <2> QED BY <1>1, <1>3, <2>1, EffType
<1> QED BY <1>2, <1>3 DEF Undo

\* At the start nothing runs.
LEMMA SagaInit == Init => SagaInv
<1> SUFFICES ASSUME Init PROVE SagaInv
  OBVIOUS
<1>1. env.requests \in Nat /\ env.maxFaults \in Nat
  BY EnvFacts DEF Init
<1>2. TypeOK
  <2>1. /\ contract \in {"ACTIVE", "EXERCISED"} /\ stamped \in BOOLEAN
        /\ requests \in Nat /\ asked \in 0..env.requests
        /\ events \in [{"completed", "failed"} -> Nat]
    <3>1. contract = "ACTIVE" /\ stamped = FALSE /\ requests = 0 /\ asked = 0
          /\ events = [k \in {"completed", "failed"} |-> 0]
      BY DEF Init
    <3>2. stamped \in BOOLEAN
      BY <3>1, Zenon
    <3> QED BY <1>1, <3>1, <3>2
  <2>2. st \in SagaState \cup {"none"} /\ ver \in Nat /\ log \in [Step -> Ref]
    BY NumberFacts DEF Init
  <2>3. pc \in [Runner -> PC] /\ step \in [Runner -> 0..4] /\ refs \in [Runner -> [Step -> Ref]]
    BY NumberFacts DEF Init, PC
  <2>4. /\ myVer \in [Runner -> Nat] /\ run \in [Runner -> Ref]
        /\ tries \in [Runner -> 0..MaxTries] /\ allOK \in [Runner -> BOOLEAN] /\ nruns \in Ref
    BY NumberFacts DEF Init
  <2>5. eff \in [Step -> [Run -> Effect]] /\ qty \in Int /\ reserved \in Nat /\ bought \in Nat
    BY NumberFacts DEF Init, Effect
  <2>6. env \in Scenarios /\ nf \in 0..env.maxFaults
    BY <1>1 DEF Init
  <2> QED BY <2>1, <2>2, <2>3, <2>4, <2>5, <2>6 DEF TypeOK
<1>3. \A r \in Runner : InPlace(r)
  BY DEF Init, InPlace, Running
<1> QED BY <1>2, <1>3 DEF SagaInv

\* The runners that do not move stay where they are.
LEMMA OthersInPlace ==
  ASSUME TypeOK, TypeOK', \A r \in Runner : InPlace(r), nruns' >= nruns, NEW r \in Runner, InPlace(r)',
         \A q \in Runner : q # r => /\ pc'[q] = pc[q] /\ step'[q] = step[q] /\ tries'[q] = tries[q]
                                    /\ run'[q] = run[q]
  PROVE  \A q \in Runner : InPlace(q)'
<1>1. ASSUME NEW q \in Runner, q # r PROVE InPlace(q)'
  <2>1. nruns \in Nat /\ nruns' \in Nat
    BY NumberFacts DEF TypeOK
  <2>2. InPlace(q) /\ pc'[q] = pc[q] /\ step'[q] = step[q] /\ tries'[q] = tries[q] /\ run'[q] = run[q]
    BY <1>1
  <2>3. Running(q) => run'[q] \in 1..nruns'
    BY <2>1, <2>2 DEF InPlace
  <2> QED BY <2>2, <2>3 DEF InPlace, Running
<1> QED BY <1>1

\* A step without an effect on the runners.
LEMMA AllInPlace ==
  ASSUME \A r \in Runner : InPlace(r), UNCHANGED <<pc, step, tries, run, nruns>>
  PROVE  \A q \in Runner : InPlace(q)'
  BY DEF InPlace, Running

\* Steps of trading-service and the operator, and a crash.
LEMMA OuterType ==
  ASSUME SagaInv, UNCHANGED env,
         \/ ExerciseContract \/ CompleteExercise \/ RevertExercise
         \/ Deliver \/ (\E op \in AdminOp : Recover(op)) \/ Crash
  PROVE  SagaInv'
<1>a. TypeOK /\ \A r \in Runner : InPlace(r)
  BY DEF SagaInv
<1>b. env.requests \in Nat /\ env.maxFaults \in Nat
  BY <1>a, EnvFacts DEF TypeOK
<1>1. CASE ExerciseContract
  <2>1. nf' \in 0..env'.maxFaults
    BY <1>1, <1>a, FaultFacts DEF ExerciseContract
  <2>2. /\ asked' \in 0..env'.requests /\ requests' \in Nat /\ stamped' \in BOOLEAN
    BY <1>1, <1>a, <1>b DEF ExerciseContract, TypeOK
  <2>3. UNCHANGED <<contract, events, rowVars, runnerVars, stockVars, eff>>
    BY <1>1 DEF ExerciseContract
  <2>4. TypeOK'
    BY <1>a, <2>1, <2>2, <2>3 DEF TypeOK, rowVars, runnerVars, stockVars
  <2> QED BY <1>a, <2>3, <2>4, AllInPlace DEF SagaInv, runnerVars
<1>2. CASE CompleteExercise \/ RevertExercise
  <2>1. \E k \in {"completed", "failed"} : Consume(k)
    BY <1>2 DEF CompleteExercise, RevertExercise
  <2>2. events' \in [{"completed", "failed"} -> Nat]
    BY <1>a, <2>1 DEF Consume, TypeOK
  <2>3. contract' \in {"ACTIVE", "EXERCISED"} /\ stamped' \in BOOLEAN
    BY <1>2, <1>a DEF CompleteExercise, RevertExercise, TypeOK
  <2>4. UNCHANGED <<requests, asked, rowVars, runnerVars, stockVars, eff, nf>>
    BY <1>2 DEF CompleteExercise, RevertExercise
  <2>5. TypeOK'
    BY <1>a, <2>2, <2>3, <2>4 DEF TypeOK, rowVars, runnerVars, stockVars
  <2> QED BY <1>a, <2>4, <2>5, AllInPlace DEF SagaInv, runnerVars
<1>3. CASE Deliver
  <2>1. /\ requests' \in Nat /\ pc' = [pc EXCEPT !["listener"] = "find"]
        /\ UNCHANGED <<contract, stamped, asked, events, rowVars, step, refs, myVer, run, tries,
                       allOK, nruns, stockVars, eff, nf>>
    BY <1>3, <1>a DEF Deliver, TypeOK, Goto
  <2>2. pc' \in [Runner -> PC]
    BY <1>a, <2>1 DEF TypeOK, PC
  <2>3. TypeOK'
    BY <1>a, <2>1, <2>2 DEF TypeOK, rowVars, stockVars
  <2>4. "listener" \in Runner /\ pc'["listener"] = "find" /\ \A q \in Runner : q # "listener" => pc'[q] = pc[q]
    BY <1>a, <2>1 DEF Runner, TypeOK
  <2>5. InPlace("listener")'
    BY <2>4 DEF InPlace, Running
  <2>6. nruns' >= nruns
    BY <1>a, <2>1, NumberFacts DEF TypeOK
  <2> QED BY <1>a, <2>1, <2>3, <2>4, <2>5, <2>6, OthersInPlace DEF SagaInv
<1>4. ASSUME NEW op \in AdminOp, Recover(op) PROVE SagaInv'
  <2>1. /\ pc' = [pc EXCEPT !["admin"] = "find"]
        /\ UNCHANGED <<tradingVars, step, refs, myVer, run, tries, allOK, nruns, stockVars, eff, nf>>
    BY <1>4 DEF Recover, Goto
  <2>2. pc' \in [Runner -> PC]
    BY <1>a, <2>1 DEF TypeOK, PC
  <2>3. st' \in SagaState \cup {"none"} /\ ver' \in Nat /\ log' \in [Step -> Ref]
    BY <1>4, <1>a, NumberFacts DEF Recover, TargetState, TypeOK, rowVars, SagaState
  <2>4. TypeOK'
    BY <1>a, <2>1, <2>2, <2>3 DEF TypeOK, tradingVars, stockVars
  <2>5. "admin" \in Runner /\ pc'["admin"] = "find" /\ \A q \in Runner : q # "admin" => pc'[q] = pc[q]
    BY <1>a, <2>1 DEF Runner, TypeOK
  <2>6. InPlace("admin")'
    BY <2>5 DEF InPlace, Running
  <2>7. nruns' >= nruns
    BY <1>a, <2>1, NumberFacts DEF TypeOK
  <2> QED BY <1>a, <2>1, <2>4, <2>5, <2>6, <2>7, OthersInPlace DEF SagaInv
<1>5. CASE Crash
  <2>1. nf' \in 0..env'.maxFaults
    BY <1>5, <1>a, FaultFacts DEF Crash
  <2>2. /\ requests' \in Nat /\ pc' = [r \in Runner |-> "idle"]
        /\ UNCHANGED <<contract, stamped, asked, events, rowVars, step, refs, myVer, run, tries,
                       allOK, nruns, stockVars, eff>>
    BY <1>5, <1>a DEF Crash, TypeOK
  <2>3. pc' \in [Runner -> PC]
    BY <2>2 DEF PC
  <2>4. TypeOK'
    BY <1>a, <2>1, <2>2, <2>3 DEF TypeOK, rowVars, stockVars
  <2>5. \A q \in Runner : InPlace(q)'
    BY <2>2 DEF InPlace, Running
  <2> QED BY <2>4, <2>5 DEF SagaInv
<1> QED BY <1>1, <1>2, <1>3, <1>4, <1>5

\* A runner moves.
LEMMA GotoFacts ==
  ASSUME TypeOK, NEW r \in Runner, NEW l \in PC, Goto(r, l)
  PROVE  pc' \in [Runner -> PC] /\ pc'[r] = l /\ \A q \in Runner : q # r => pc'[q] = pc[q]
  BY DEF Goto, TypeOK

\* The same with the step it moves to.
LEMMA GotoStepFacts ==
  ASSUME TypeOK, NEW r \in Runner, NEW l \in PC, NEW s \in 0..4, GotoStep(r, l, s)
  PROVE  /\ pc' \in [Runner -> PC] /\ pc'[r] = l /\ \A q \in Runner : q # r => pc'[q] = pc[q]
         /\ step' \in [Runner -> 0..4] /\ step'[r] = s /\ \A q \in Runner : q # r => step'[q] = step[q]
  BY DEF GotoStep, Goto, TypeOK

\* The handler's first two steps.
LEMMA StartType ==
  ASSUME SagaInv, UNCHANGED env, NEW r \in Runner, FindOrInitialize(r) \/ AdvanceState(r) \/ Convert(r)
  PROVE  SagaInv'
<1>a. TypeOK /\ (\A q \in Runner : InPlace(q)) /\ nruns \in Nat
  BY NumberFacts DEF SagaInv, TypeOK
<1>p. {"idle", "find", "advance", "convert", "release", "call", "save", "undo", "finish", "fail", "compensate", "close"}
        \subseteq PC
  BY DEF PC
<1>1. CASE FindOrInitialize(r)
  <2>0. UNCHANGED <<tradingVars, step, tries, allOK, stockVars, eff>> /\ pc[r] = "find"
    BY <1>1 DEF FindOrInitialize
  <2>1. ASSUME Goto(r, "idle"), UNCHANGED <<rowVars, refs, myVer, run, nruns>>, UNCHANGED nf \/ (\E f : Fault(f))
        PROVE  SagaInv'
    <3>1. nf' \in 0..env'.maxFaults
      BY <1>a, <2>1, FaultFacts
    <3>2. pc' \in [Runner -> PC] /\ pc'[r] = "idle" /\ \A q \in Runner : q # r => pc'[q] = pc[q]
      BY <1>a, <1>p, <2>1, GotoFacts
    <3>3. TypeOK'
      BY <1>a, <2>0, <2>1, <3>1, <3>2 DEF TypeOK, tradingVars, rowVars, stockVars
    <3>4. InPlace(r)' /\ nruns' >= nruns
      BY <1>a, <2>1, <3>2 DEF InPlace, Running
    <3> QED BY <1>a, <2>0, <2>1, <3>2, <3>3, <3>4, OthersInPlace DEF SagaInv
  <2>2. CASE /\ ~SkipState(st) /\ nruns < MaxRuns
             /\ nruns' = nruns + 1
             /\ run' = [run EXCEPT ![r] = nruns + 1]
             /\ st' = (IF st = "none" THEN "STARTED" ELSE st)
             /\ refs' = [refs EXCEPT ![r] = KeptRefs]
             /\ myVer' = [myVer EXCEPT ![r] = ver]
             /\ Goto(r, "advance")
             /\ UNCHANGED <<ver, log, nf>>
    <3>1. pc' \in [Runner -> PC] /\ pc'[r] = "advance" /\ \A q \in Runner : q # r => pc'[q] = pc[q]
      BY <1>a, <1>p, <2>2, GotoFacts
    <3>2. nruns' \in Ref /\ run' \in [Runner -> Ref] /\ nruns' > nruns
      BY <1>a, <2>2, NumberFacts DEF TypeOK, Ref
    <3>3. KeptRefs \in [Step -> Ref]
      BY <1>a, NumberFacts DEF KeptRefs, TypeOK
    <3>4. refs' \in [Runner -> [Step -> Ref]] /\ myVer' \in [Runner -> Nat] /\ st' \in SagaState \cup {"none"}
      BY <1>a, <2>2, <3>3 DEF TypeOK, SagaState
    <3>5. TypeOK'
      BY <1>a, <2>0, <2>2, <3>1, <3>2, <3>4 DEF TypeOK, tradingVars, stockVars
    <3>6. run'[r] = nruns' /\ \A q \in Runner : q # r => run'[q] = run[q]
      BY <1>a, <2>2 DEF TypeOK
    <3>7. InPlace(r)'
      BY <1>a, <2>2, <3>1, <3>6 DEF InPlace, Running
    <3>8. nruns' >= nruns
      BY <1>a, <2>2
    <3> QED BY <1>a, <2>0, <3>1, <3>5, <3>6, <3>7, <3>8, OthersInPlace DEF SagaInv
  <2> QED BY <1>1, <2>1, <2>2 DEF FindOrInitialize
<1>2. CASE AdvanceState(r)
  <2>0. UNCHANGED <<tradingVars, step, refs, run, tries, allOK, nruns, stockVars, eff>> /\ pc[r] = "advance"
    BY <1>2 DEF AdvanceState
  <2>1. PICK o \in Outcome : /\ DbCall(o) /\ Update(r, "IN_PROGRESS", o) /\ Bump(r, o)
                             /\ Goto(r, IF Updated(r, o) THEN "convert" ELSE "idle")
    BY <1>2 DEF AdvanceState
  <2>2. PICK l \in {"convert", "idle"} : Goto(r, l)
    BY <2>1
  <2>3. pc' \in [Runner -> PC] /\ pc'[r] = l /\ \A q \in Runner : q # r => pc'[q] = pc[q]
    BY <1>a, <1>p, <2>2, GotoFacts
  <2>4. st' \in SagaState \cup {"none"} /\ ver' \in Nat /\ log' \in [Step -> Ref] /\ myVer' \in [Runner -> Nat]
    BY <1>a, <2>1, UpdateType, BumpType DEF SagaState
  <2>5. nf' \in 0..env'.maxFaults
    BY <1>a, <2>1, OutcomeFacts, FaultFacts
  <2>6. TypeOK'
    BY <1>a, <2>0, <2>3, <2>4, <2>5 DEF TypeOK, tradingVars, stockVars
  <2>7. InPlace(r)' /\ nruns' >= nruns
    BY <1>a, <2>0, <2>2, <2>3 DEF InPlace, Running
  <2> QED BY <1>a, <2>0, <2>3, <2>6, <2>7, OthersInPlace DEF SagaInv
<1>3. CASE Convert(r)
  <2>0. UNCHANGED <<tradingVars, rowVars, myVer, run, tries, allOK, nruns, stockVars, eff>> /\ pc[r] = "convert"
    BY <1>3 DEF Convert
  <2>1. CASE GotoStep(r, "call", 1) /\ UNCHANGED <<refs, nf>>
    <3>1. /\ pc' \in [Runner -> PC] /\ pc'[r] = "call" /\ \A q \in Runner : q # r => pc'[q] = pc[q]
          /\ step' \in [Runner -> 0..4] /\ step'[r] = 1 /\ \A q \in Runner : q # r => step'[q] = step[q]
      BY <1>a, <1>p, <2>1, GotoStepFacts
    <3>2. TypeOK'
      BY <1>a, <2>0, <2>1, <3>1 DEF TypeOK, tradingVars, rowVars, stockVars
    <3>3. InPlace(r)' /\ nruns' >= nruns
      BY <1>a, <2>0, <3>1 DEF InPlace, Running, Step
    <3> QED BY <1>a, <2>0, <3>1, <3>2, <3>3, OthersInPlace DEF SagaInv
  <2>2. CASE Fault("refuse") /\ Goto(r, "fail") /\ refs' = [refs EXCEPT ![r] = NoRefs] /\ UNCHANGED step
    <3>1. pc' \in [Runner -> PC] /\ pc'[r] = "fail" /\ \A q \in Runner : q # r => pc'[q] = pc[q]
      BY <1>a, <1>p, <2>2, GotoFacts
    <3>2. refs' \in [Runner -> [Step -> Ref]]
      BY <1>a, <2>2, NumberFacts DEF TypeOK
    <3>3. nf' \in 0..env'.maxFaults
      BY <1>a, <2>2, FaultFacts
    <3>4. TypeOK'
      BY <1>a, <2>0, <2>2, <3>1, <3>2, <3>3 DEF TypeOK, tradingVars, rowVars, stockVars
    <3>5. InPlace(r)' /\ nruns' >= nruns
      BY <1>a, <2>0, <3>1 DEF InPlace, Running
    <3> QED BY <1>a, <2>0, <2>2, <3>1, <3>4, <3>5, OthersInPlace DEF SagaInv
  <2> QED BY <1>3, <2>1, <2>2 DEF Convert
<1> QED BY <1>1, <1>2, <1>3

\* The forward steps and their one-shot compensators.
LEMMA ForwardType ==
  ASSUME SagaInv, UNCHANGED env, NEW r \in Runner, CallStep(r) \/ SaveStep(r) \/ ReleaseStep(r) \/ UndoStep(r)
  PROVE  SagaInv'
<1>a. TypeOK /\ (\A q \in Runner : InPlace(q)) /\ nruns \in Nat
  BY NumberFacts DEF SagaInv, TypeOK
<1>b. pc[r] # "release" /\ pc[r] \in {"call", "save", "undo"} => step[r] \in Step /\ step[r] \in 1..4
  BY <1>a DEF InPlace, Step
<1>c. /\ eff \in [Step -> [Run -> Effect]] /\ qty \in Int /\ reserved \in Nat /\ bought \in Nat
      /\ step[r] \in 0..4 /\ run[r] \in Ref
  BY <1>a DEF TypeOK
<1>p. {"idle", "find", "advance", "convert", "release", "call", "save", "undo", "finish", "fail", "compensate", "close"}
        \subseteq PC
  BY DEF PC
<1>1. CASE CallStep(r)
  <2>0. UNCHANGED <<tradingVars, rowVars, step, myVer, run, tries, allOK, nruns>> /\ pc[r] = "call"
    BY <1>1 DEF CallStep
  <2>1. PICK o \in Outcome :
          /\ Call(o)
          /\ IF o # "fail" /\ CanDo(step[r], run[r])
             THEN Do(step[r], run[r]) ELSE UNCHANGED <<stockVars, eff>>
          /\ IF Succeeded(o, step[r], run[r])
             THEN Goto(r, "save") /\ refs' = [refs EXCEPT ![r][step[r]] = run[r]]
             ELSE Goto(r, "fail") /\ UNCHANGED refs
    BY <1>1 DEF CallStep
  <2>2. PICK l \in {"save", "fail"} : Goto(r, l)
    BY <2>1
  <2>3. pc' \in [Runner -> PC] /\ pc'[r] = l /\ \A q \in Runner : q # r => pc'[q] = pc[q]
    BY <1>a, <1>p, <2>2, GotoFacts
  <2>4. eff' \in [Step -> [Run -> Effect]] /\ qty' \in Int /\ reserved' \in Nat /\ bought' \in Nat
    BY <1>a, <1>b, <1>c, <2>0, <2>1, DoType DEF stockVars
  <2>5. refs' \in [Runner -> [Step -> Ref]]
    <3>1. refs \in [Runner -> [Step -> Ref]] /\ [refs[r] EXCEPT ![step[r]] = run[r]] \in [Step -> Ref]
      BY <1>a, <1>c DEF TypeOK
    <3> QED BY <2>1, <3>1
  <2>6. nf' \in 0..env'.maxFaults
    BY <1>a, <2>1, OutcomeFacts, FaultFacts
  <2>7. TypeOK'
    BY <1>a, <2>0, <2>3, <2>4, <2>5, <2>6 DEF TypeOK, tradingVars, rowVars
  <2>8. InPlace(r)' /\ nruns' >= nruns
    BY <1>a, <2>0, <2>2, <2>3 DEF InPlace, Running
  <2> QED BY <1>a, <2>0, <2>3, <2>7, <2>8, OthersInPlace DEF SagaInv
<1>2. CASE SaveStep(r)
  <2>0. UNCHANGED <<tradingVars, refs, run, tries, allOK, nruns, stockVars, eff>> /\ pc[r] = "save"
    BY <1>2 DEF SaveStep
  <2>1. PICK o \in Outcome :
          /\ DbCall(o) /\ Update(r, "IN_PROGRESS", o) /\ Bump(r, o)
          /\ IF Updated(r, o)
             THEN GotoStep(r, AfterSave(step[r]), IF step[r] = 4 THEN 4 ELSE step[r] + 1)
             ELSE Goto(r, "undo") /\ UNCHANGED step
    BY <1>2 DEF SaveStep
  <2>2. PICK l, s : /\ s \in 1..4
                    /\ \/ l \in {"call", "undo", "finish"}
                       \/ l = "release" /\ s = 3
                    /\ GotoStep(r, l, s)
    <3>1. CASE Updated(r, o)
      <4>1. /\ (IF step[r] = 4 THEN 4 ELSE step[r] + 1) \in 1..4
            /\ \/ AfterSave(step[r]) \in {"call", "undo", "finish"}
               \/ AfterSave(step[r]) = "release" /\ (IF step[r] = 4 THEN 4 ELSE step[r] + 1) = 3
        BY <1>b, <2>0 DEF AfterSave
      <4> QED BY <2>1, <3>1, <4>1
    <3>2. CASE ~Updated(r, o)
      <4>1. step' = [step EXCEPT ![r] = step[r]]
        BY <1>a, <2>1, <3>2 DEF TypeOK
      <4> QED BY <1>b, <2>0, <2>1, <3>2, <4>1 DEF GotoStep
    <3> QED BY <3>1, <3>2
  <2>3. /\ pc' \in [Runner -> PC] /\ pc'[r] = l /\ \A q \in Runner : q # r => pc'[q] = pc[q]
        /\ step' \in [Runner -> 0..4] /\ step'[r] = s /\ \A q \in Runner : q # r => step'[q] = step[q]
    <3>1. l \in PC /\ s \in 0..4
      BY <1>p, <2>2
    <3> QED BY <1>a, <2>2, <3>1, GotoStepFacts
  <2>4. st' \in SagaState \cup {"none"} /\ ver' \in Nat /\ log' \in [Step -> Ref] /\ myVer' \in [Runner -> Nat]
    BY <1>a, <2>1, UpdateType, BumpType DEF SagaState
  <2>5. nf' \in 0..env'.maxFaults
    BY <1>a, <2>1, OutcomeFacts, FaultFacts
  <2>6. TypeOK'
    BY <1>a, <2>0, <2>3, <2>4, <2>5 DEF TypeOK, tradingVars, stockVars
  <2>7. InPlace(r)' /\ nruns' >= nruns
    BY <1>a, <2>0, <2>2, <2>3 DEF InPlace, Running, Step
  <2> QED BY <1>a, <2>0, <2>3, <2>6, <2>7, OthersInPlace DEF SagaInv
<1>3. CASE ReleaseStep(r)
  <2>0. UNCHANGED <<tradingVars, rowVars, step, refs, myVer, run, tries, allOK, nruns, stockVars>> /\ pc[r] = "release"
    BY <1>3 DEF ReleaseStep
  <2>1. PICK o \in Outcome :
          /\ Call(o)
          /\ eff' = (IF o # "fail" /\ eff[1][run[r]] = "active"
                     THEN [eff EXCEPT ![1][run[r]] = "undone"] ELSE eff)
          /\ Goto(r, IF o = "ok" THEN "call" ELSE "fail")
    BY <1>3 DEF ReleaseStep
  <2>2. PICK l \in {"call", "fail"} : Goto(r, l)
    BY <2>1
  <2>3. pc' \in [Runner -> PC] /\ pc'[r] = l /\ \A q \in Runner : q # r => pc'[q] = pc[q]
    BY <1>a, <1>p, <2>2, GotoFacts
  <2>4. eff' \in [Step -> [Run -> Effect]]
    <3>1. "undone" \in Effect /\ 1 \in Step
      BY DEF Effect, Step
    <3> QED BY <1>a, <1>c, <2>1, <3>1, EffType
  <2>5. nf' \in 0..env'.maxFaults
    BY <1>a, <2>1, OutcomeFacts, FaultFacts
  <2>6. TypeOK'
    BY <1>a, <2>0, <2>3, <2>4, <2>5 DEF TypeOK, tradingVars, rowVars, stockVars
  <2>7. InPlace(r)' /\ nruns' >= nruns
    BY <1>a, <2>0, <2>2, <2>3 DEF InPlace, Running, Step
  <2> QED BY <1>a, <2>0, <2>3, <2>6, <2>7, OthersInPlace DEF SagaInv
<1>4. CASE UndoStep(r)
  <2>0. UNCHANGED <<tradingVars, rowVars, refs, myVer, run, tries, allOK, nruns>> /\ pc[r] = "undo"
    BY <1>4 DEF UndoStep
  <2>1. PICK o \in {"ok", "fail"} :
          /\ Call(o)
          /\ IF o = "ok" THEN Undo(step[r], refs[r][step[r]]) ELSE UNCHANGED <<stockVars, eff>>
    BY <1>4 DEF UndoStep
  <2>2. PICK l, s : ((l = "idle" /\ s = 0) \/ (l = "undo" /\ s \in 1..3)) /\ GotoStep(r, l, s)
    <3>1. \/ GotoStep(r, "idle", 0)
          \/ step[r] # 1 /\ GotoStep(r, "undo", step[r] - 1)
      BY <1>4 DEF UndoStep
    <3>2. step[r] # 1 => step[r] - 1 \in 1..3
      BY <1>b, <2>0
    <3> QED BY <3>1, <3>2
  <2>3. /\ pc' \in [Runner -> PC] /\ pc'[r] = l /\ \A q \in Runner : q # r => pc'[q] = pc[q]
        /\ step' \in [Runner -> 0..4] /\ step'[r] = s /\ \A q \in Runner : q # r => step'[q] = step[q]
    <3>1. l \in PC /\ s \in 0..4
      BY <1>p, <2>2
    <3> QED BY <1>a, <2>2, <3>1, GotoStepFacts
  <2>4. eff' \in [Step -> [Run -> Effect]] /\ qty' \in Int /\ reserved' \in Nat /\ bought' \in Nat
    BY <1>a, <1>b, <1>c, <2>0, <2>1, UndoType DEF stockVars
  <2>5. nf' \in 0..env'.maxFaults
    <3>1. o \in Outcome
      BY DEF Outcome
    <3> QED BY <1>a, <2>1, <3>1, OutcomeFacts, FaultFacts
  <2>6. TypeOK'
    BY <1>a, <2>0, <2>3, <2>4, <2>5 DEF TypeOK, tradingVars, rowVars
  <2>7. InPlace(r)' /\ nruns' >= nruns
    BY <1>a, <2>0, <2>2, <2>3 DEF InPlace, Running, Step
  <2> QED BY <1>a, <2>0, <2>3, <2>6, <2>7, OthersInPlace DEF SagaInv
<1> QED BY <1>1, <1>2, <1>3, <1>4

\* The next compensator.
LEMMA NextCompFacts ==
  ASSUME TypeOK, NEW r \in Runner, step[r] \in Step, NextComp(r)
  PROVE  /\ pc' \in [Runner -> PC] /\ (\A q \in Runner : q # r => pc'[q] = pc[q])
         /\ step' \in [Runner -> 0..4] /\ (\A q \in Runner : q # r => step'[q] = step[q])
         /\ \/ step[r] = 1 /\ pc'[r] = "close" /\ step'[r] = 0
            \/ step[r] # 1 /\ pc'[r] = "compensate" /\ step'[r] = step[r] - 1 /\ step'[r] \in Step
<1>1. "close" \in PC /\ "compensate" \in PC /\ 0 \in 0..4
  BY DEF PC
<1>2. CASE step[r] = 1
  <2>1. GotoStep(r, "close", 0)
    BY <1>2 DEF NextComp
  <2> QED BY <1>1, <1>2, <2>1, GotoStepFacts
<1>3. CASE step[r] # 1
  <2>1. GotoStep(r, "compensate", step[r] - 1) /\ step[r] - 1 \in 0..4 /\ step[r] - 1 \in Step
    BY <1>3 DEF NextComp, Step
  <2> QED BY <1>1, <1>3, <2>1, GotoStepFacts
<1> QED BY <1>2, <1>3

\* The end of a run, and the compensation.
LEMMA EndType ==
  ASSUME SagaInv, UNCHANGED env, NEW r \in Runner, Finish(r) \/ Close(r) \/ Fail(r) \/ SkipStep(r) \/ CompensateStep(r)
  PROVE  SagaInv'
<1>a. TypeOK /\ (\A q \in Runner : InPlace(q)) /\ nruns \in Nat
  BY NumberFacts DEF SagaInv, TypeOK
<1>b. pc[r] = "compensate" => step[r] \in Step /\ tries[r] < MaxTries
  BY <1>a DEF InPlace
<1>c. /\ eff \in [Step -> [Run -> Effect]] /\ qty \in Int /\ reserved \in Nat /\ bought \in Nat
      /\ step[r] \in 0..4 /\ tries[r] \in Nat /\ MaxTries \in Nat /\ MaxTries # 0
  BY <1>a, NumberFacts DEF TypeOK
<1>p. {"idle", "find", "advance", "convert", "release", "call", "save", "undo", "finish", "fail", "compensate", "close"}
        \subseteq PC
  BY DEF PC
<1>1. CASE Finish(r) \/ Close(r)
  <2>0. /\ UNCHANGED <<contract, stamped, requests, asked, step, refs, myVer, run, tries, allOK, nruns, stockVars, eff>>
        /\ Goto(r, "idle")
    BY <1>1 DEF Finish, Close
  <2>1. PICK s \in SagaState, o \in Outcome : Update(r, s, o)
    BY <1>1 DEF Finish, Close, SagaState, Outcome, Verdict
  <2>2. UNCHANGED nf \/ (\E f : Fault(f))
    BY <1>1, OutcomeFacts DEF Finish, Close
  <2>3. events' \in [{"completed", "failed"} -> Nat]
    <3>1. events \in [{"completed", "failed"} -> Nat]
      BY <1>a DEF TypeOK
    <3>2. \/ events' = events
          \/ events' = [events EXCEPT !["completed"] = @ + 1]
          \/ events' = [events EXCEPT !["failed"] = @ + 1]
      BY <1>1 DEF Finish, Close
    <3> QED BY <3>1, <3>2
  <2>4. pc' \in [Runner -> PC] /\ pc'[r] = "idle" /\ \A q \in Runner : q # r => pc'[q] = pc[q]
    BY <1>a, <1>p, <2>0, GotoFacts
  <2>5. st' \in SagaState \cup {"none"} /\ ver' \in Nat /\ log' \in [Step -> Ref]
    BY <1>a, <2>1, UpdateType
  <2>6. nf' \in 0..env'.maxFaults
    BY <1>a, <2>2, FaultFacts
  <2>7. TypeOK'
    BY <1>a, <2>0, <2>3, <2>4, <2>5, <2>6 DEF TypeOK, stockVars
  <2>8. InPlace(r)' /\ nruns' >= nruns
    BY <1>a, <2>0, <2>4 DEF InPlace, Running
  <2> QED BY <1>a, <2>0, <2>4, <2>7, <2>8, OthersInPlace DEF SagaInv
<1>2. CASE Fail(r)
  <2>0. /\ UNCHANGED <<tradingVars, refs, run, nruns, stockVars, eff>> /\ pc[r] = "fail" /\ GotoStep(r, "compensate", 4)
        /\ tries' = [tries EXCEPT ![r] = 0] /\ allOK' = [allOK EXCEPT ![r] = TRUE]
    BY <1>2 DEF Fail
  <2>1. PICK o \in Outcome : DbCall(o) /\ Update(r, "COMPENSATING", o) /\ Bump(r, o)
    BY <1>2 DEF Fail
  <2>2. /\ pc' \in [Runner -> PC] /\ pc'[r] = "compensate" /\ \A q \in Runner : q # r => pc'[q] = pc[q]
        /\ step' \in [Runner -> 0..4] /\ step'[r] = 4 /\ \A q \in Runner : q # r => step'[q] = step[q]
    <3>1. 4 \in 0..4
      OBVIOUS
    <3> QED BY <1>a, <1>p, <2>0, <3>1, GotoStepFacts
  <2>3. st' \in SagaState \cup {"none"} /\ ver' \in Nat /\ log' \in [Step -> Ref] /\ myVer' \in [Runner -> Nat]
    BY <1>a, <2>1, UpdateType, BumpType DEF SagaState
  <2>4. /\ tries' \in [Runner -> 0..MaxTries] /\ tries'[r] = 0
        /\ \A q \in Runner : q # r => tries'[q] = tries[q]
    BY <1>a, <1>c, <2>0 DEF TypeOK
  <2>5. allOK' \in [Runner -> BOOLEAN]
    <3>1. allOK \in [Runner -> BOOLEAN]
      BY <1>a DEF TypeOK
    <3> QED BY <2>0, <3>1
  <2>6. nf' \in 0..env'.maxFaults
    BY <1>a, <2>1, OutcomeFacts, FaultFacts
  <2>7. TypeOK'
    BY <1>a, <2>0, <2>2, <2>3, <2>4, <2>5, <2>6 DEF TypeOK, tradingVars, stockVars
  <2>8. InPlace(r)' /\ nruns' >= nruns
    BY <1>a, <1>c, <2>0, <2>2, <2>4 DEF InPlace, Running, Step
  <2> QED BY <1>a, <2>0, <2>2, <2>4, <2>7, <2>8, OthersInPlace DEF SagaInv
<1>3. CASE SkipStep(r)
  <2>0. /\ UNCHANGED <<tradingVars, rowVars, refs, myVer, run, tries, allOK, nruns, stockVars, eff, nf>>
        /\ pc[r] = "compensate" /\ NextComp(r)
    BY <1>3 DEF SkipStep
  <2>1. /\ pc' \in [Runner -> PC] /\ (\A q \in Runner : q # r => pc'[q] = pc[q])
        /\ step' \in [Runner -> 0..4] /\ (\A q \in Runner : q # r => step'[q] = step[q])
        /\ pc'[r] = "close" \/ (pc'[r] = "compensate" /\ step'[r] \in Step)
    BY <1>a, <1>b, <2>0, NextCompFacts
  <2>2. TypeOK'
    BY <1>a, <2>0, <2>1 DEF TypeOK, tradingVars, rowVars, stockVars
  <2>3. InPlace(r)' /\ nruns' >= nruns
    BY <1>a, <1>b, <2>0, <2>1 DEF InPlace, Running
  <2> QED BY <1>a, <2>0, <2>1, <2>2, <2>3, OthersInPlace DEF SagaInv
<1>4. CASE CompensateStep(r)
  <2>0. UNCHANGED <<tradingVars, refs, run, nruns>> /\ pc[r] = "compensate"
    BY <1>4 DEF CompensateStep
  <2>1. PICK o \in Outcome, d \in Outcome :
          /\ IF d = "ok" THEN Call(o) ELSE o = "ok" /\ DbCall(d)
          /\ Update(r, "COMPENSATING", d) /\ Bump(r, d)
          /\ IF o # "fail" THEN Undo(step[r], refs[r][step[r]]) ELSE UNCHANGED <<stockVars, eff>>
          /\ IF o = "ok" \/ tries[r] + 1 = MaxTries
             THEN NextComp(r) /\ tries' = [tries EXCEPT ![r] = 0]
             ELSE tries' = [tries EXCEPT ![r] = @ + 1] /\ UNCHANGED <<pc, step>>
          /\ allOK' = [allOK EXCEPT ![r] = @ /\ (o = "ok" \/ tries[r] + 1 < MaxTries)]
    BY <1>4 DEF CompensateStep
  <2>2. /\ pc' \in [Runner -> PC] /\ (\A q \in Runner : q # r => pc'[q] = pc[q])
        /\ step' \in [Runner -> 0..4] /\ (\A q \in Runner : q # r => step'[q] = step[q])
        /\ pc'[r] = "close" \/ (pc'[r] = "compensate" /\ step'[r] \in Step)
    <3>1. CASE NextComp(r)
      BY <1>a, <1>b, <2>0, <3>1, NextCompFacts
    <3>2. CASE UNCHANGED <<pc, step>>
      BY <1>a, <1>b, <2>0, <3>2 DEF TypeOK
    <3> QED BY <2>1, <3>1, <3>2
  <2>3. /\ tries' \in [Runner -> 0..MaxTries] /\ tries'[r] < MaxTries
        /\ \A q \in Runner : q # r => tries'[q] = tries[q]
    <3>1. tries \in [Runner -> 0..MaxTries] /\ tries[r] < MaxTries
      BY <1>a, <1>b, <2>0 DEF TypeOK
    <3>2. PICK t \in 0..MaxTries : t < MaxTries /\ tries' = [tries EXCEPT ![r] = t]
      <4>1. CASE o = "ok" \/ tries[r] + 1 = MaxTries
        <5>1. tries' = [tries EXCEPT ![r] = 0]
          BY <2>1, <4>1
        <5>2. 0 \in 0..MaxTries /\ 0 < MaxTries
          BY <1>c
        <5> QED BY <5>1, <5>2
      <4>2. CASE ~(o = "ok" \/ tries[r] + 1 = MaxTries)
        <5>1. tries' = [tries EXCEPT ![r] = tries[r] + 1]
          BY <2>1, <4>2
        <5>2. tries[r] + 1 \in 0..MaxTries /\ tries[r] + 1 < MaxTries
          BY <1>c, <3>1, <4>2
        <5> QED BY <5>1, <5>2
      <4> QED BY <4>1, <4>2
    <3> QED BY <3>1, <3>2
  <2>4. eff' \in [Step -> [Run -> Effect]] /\ qty' \in Int /\ reserved' \in Nat /\ bought' \in Nat
    BY <1>a, <1>b, <1>c, <2>0, <2>1, UndoType DEF stockVars
  <2>5. st' \in SagaState \cup {"none"} /\ ver' \in Nat /\ log' \in [Step -> Ref] /\ myVer' \in [Runner -> Nat]
    BY <1>a, <2>1, UpdateType, BumpType DEF SagaState
  <2>6. allOK' \in [Runner -> BOOLEAN]
    <3>1. allOK \in [Runner -> BOOLEAN]
      BY <1>a DEF TypeOK
    <3>2. PICK b \in BOOLEAN : allOK' = [allOK EXCEPT ![r] = b]
      <4>1. (allOK[r] /\ (o = "ok" \/ tries[r] + 1 < MaxTries)) \in BOOLEAN
        BY Zenon
      <4>2. allOK' = [allOK EXCEPT ![r] = (allOK[r] /\ (o = "ok" \/ tries[r] + 1 < MaxTries))]
        BY <2>1, Zenon
      <4> QED BY <4>1, <4>2, Zenon
    <3> QED BY <3>1, <3>2
  <2>7. nf' \in 0..env'.maxFaults
    BY <1>a, <2>1, OutcomeFacts, FaultFacts
  <2>8. TypeOK'
    BY <1>a, <2>0, <2>2, <2>3, <2>4, <2>5, <2>6, <2>7 DEF TypeOK, tradingVars
  <2>9. InPlace(r)' /\ nruns' >= nruns
    BY <1>a, <2>0, <2>2, <2>3 DEF InPlace, Running
  <2> QED BY <1>a, <2>0, <2>2, <2>3, <2>8, <2>9, OthersInPlace DEF SagaInv
<1> QED BY <1>1, <1>2, <1>3, <1>4

\* Every step keeps the types and everybody's place.
LEMMA SagaNext == SagaInv /\ [Next]_vars => SagaInv'
<1> SUFFICES ASSUME SagaInv, [Next]_vars PROVE SagaInv'
  OBVIOUS
<1>1. CASE UNCHANGED vars
  BY <1>1 DEF vars, tradingVars, rowVars, runnerVars, stockVars, SagaInv, TypeOK, InPlace, Running
<1>2. CASE Next
  BY <1>2, OuterType, StartType, ForwardType, EndType DEF Next, Handle
<1> QED BY <1>1, <1>2

\* Every state has the expected shape: among other things the retries of a
\* compensator stay within maxAttempts and the reserved quantity never goes
\* below zero (the clamps of ReservationService).
THEOREM SagaTypes == Spec => []TypeOK
<1>1. SagaInv => TypeOK
  BY DEF SagaInv
<1> QED BY <1>1, SagaInit, SagaNext, PTL DEF Spec
-----------------------------------------------------------------------------
(* What the steps do to the rows. *)

\* A row changes.
LEMMA EffUpdate ==
  ASSUME TypeOK, NEW s \in Step, NEW n \in Run, NEW e
  PROVE  /\ [eff EXCEPT ![s][n] = e][s][n] = e
         /\ \A t \in Step, m \in Run : t # s \/ m # n => [eff EXCEPT ![s][n] = e][t][m] = eff[t][m]
<1>1. eff \in [Step -> [Run -> Effect]]
  BY DEF TypeOK
<1> QED BY <1>1

\* The call of a step writes the row of its run.
LEMMA DoRows ==
  ASSUME TypeOK, NEW s \in Step, NEW n \in Run, Do(s, n)
  PROVE  /\ eff'[s][n] = "active" /\ (s = 4 => eff'[2][n] = "committed")
         /\ \A t \in Step, m \in Run : m # n \/ (t # s /\ ~(s = 4 /\ t = 2)) => eff'[t][m] = eff[t][m]
<1>0. eff \in [Step -> [Run -> Effect]] /\ 2 \in Step /\ 4 \in Step /\ s \in 1..4
  BY DEF TypeOK, Step
<1>1. CASE s # 4
  <2>1. eff' = [eff EXCEPT ![s][n] = "active"]
    BY <1>0, <1>1 DEF Do, ReserveStocks
  <2> QED BY <1>1, <2>1, EffUpdate
<1>2. CASE s = 4
  <2>1. eff' = [eff EXCEPT ![2][n] = "committed", ![4][n] = "active"]
    BY <1>2 DEF Do, TransferOwnership
  <2> QED BY <1>0, <1>2, <2>1
<1> QED BY <1>1, <1>2

\* A compensator writes an active row.
LEMMA UndoRows ==
  ASSUME TypeOK, NEW s \in Step, NEW n \in Ref, Undo(s, n)
  PROVE  /\ n \in Run => eff'[s][n] = IF eff[s][n] = "active" THEN "undone" ELSE eff[s][n]
         /\ \A t \in Step, m \in Run : t # s \/ m # n => eff'[t][m] = eff[t][m]
<1>1. CASE UNCHANGED <<stockVars, eff>> /\ (n = 0 \/ eff[s][n] # "active")
  BY <1>1, NumberFacts
<1>2. CASE n # 0 /\ eff[s][n] = "active" /\ eff' = [eff EXCEPT ![s][n] = "undone"]
  <2>1. n \in Run
    BY <1>2, NumberFacts
  <2> QED BY <1>2, <2>1, EffUpdate
<1> QED BY <1>1, <1>2 DEF Undo

\* The buyer's shares are the deliveries that stand.
Counted == bought = Cardinality(Active(4)) /\ qty + bought = Shares

\* Deliveries that stand can be counted.
LEMMA ActiveFinite ==
  ASSUME TypeOK, NEW s
  PROVE  IsFiniteSet(Active(s)) /\ Cardinality(Active(s)) \in Nat
<1>1. IsFiniteSet(Run)
  BY NumberFacts, FS_Interval DEF Run
<1>2. Active(s) \subseteq Run
  BY DEF Active
<1> QED BY <1>1, <1>2, FS_Subset, FS_CardinalityType

\* They still are after the call of a step that was not done before.
LEMMA DoCounted ==
  ASSUME TypeOK, Counted, NEW s \in Step, NEW n \in Run, Do(s, n), s = 4 => eff[4][n] # "active"
  PROVE  Counted'
<1>0. /\ IsFiniteSet(Active(4)) /\ Cardinality(Active(4)) \in Nat /\ qty \in Int /\ bought \in Nat /\ 4 \in Step
      /\ s \in 1..4 /\ Shares \in Nat
  BY ActiveFinite, NumberFacts DEF TypeOK, Step
<1>1. CASE s # 4
  <2>1. \A m \in Run : eff'[4][m] = eff[4][m]
    BY <1>0, <1>1, DoRows
  <2>2. Active(4)' = Active(4)
    BY <2>1 DEF Active
  <2>3. UNCHANGED <<qty, bought>>
    BY <1>0, <1>1 DEF Do, ReserveStocks, stockVars
  <2> QED BY <2>2, <2>3 DEF Counted
<1>2. CASE s = 4
  <2>1. eff'[4][n] = "active" /\ \A m \in Run : m # n => eff'[4][m] = eff[4][m]
    BY <1>0, <1>2, DoRows
  <2>2. Active(4)' = Active(4) \cup {n} /\ n \notin Active(4)
    BY <1>2, <2>1 DEF Active
  <2>3. Cardinality(Active(4)') = Cardinality(Active(4)) + 1
    BY <1>0, <2>2, FS_AddElement
  <2>4. qty' = qty - 1 /\ bought' = bought + 1
    BY <1>2 DEF Do, TransferOwnership
  <2> QED BY <1>0, <2>3, <2>4 DEF Counted
<1> QED BY <1>1, <1>2

\* And after a compensator.
LEMMA UndoCounted ==
  ASSUME TypeOK, Counted, NEW s \in Step, NEW n \in Ref, Undo(s, n)
  PROVE  Counted'
<1>0. /\ IsFiniteSet(Active(4)) /\ Cardinality(Active(4)) \in Nat /\ qty \in Int /\ bought \in Nat /\ 4 \in Step
      /\ s \in 1..4 /\ Shares \in Nat
  BY ActiveFinite, NumberFacts DEF TypeOK, Step
<1>1. CASE UNCHANGED <<stockVars, eff>>
  BY <1>1 DEF Counted, Active, stockVars
<1>2. CASE n # 0 /\ eff[s][n] = "active" /\ s # 4 /\ UNCHANGED <<qty, bought>>
  <2>1. \A m \in Run : eff'[4][m] = eff[4][m]
    BY <1>0, <1>2, UndoRows
  <2>2. Active(4)' = Active(4)
    BY <2>1 DEF Active
  <2> QED BY <1>2, <2>2 DEF Counted
<1>3. CASE n # 0 /\ eff[s][n] = "active" /\ s = 4 /\ qty' = qty + 1
           /\ bought' = (IF bought > 0 THEN bought - 1 ELSE bought)
  <2>1. n \in Run /\ eff'[4][n] = "undone" /\ \A m \in Run : m # n => eff'[4][m] = eff[4][m]
    BY <1>0, <1>3, UndoRows, NumberFacts
  <2>2. Active(4)' = Active(4) \ {n} /\ n \in Active(4)
    BY <1>3, <2>1 DEF Active
  <2>3. Cardinality(Active(4)') = Cardinality(Active(4)) - 1
    BY <1>0, <2>2, FS_RemoveElement
  <2>4. Cardinality(Active(4)') \in Nat
    <3>1. IsFiniteSet(Active(4)')
      BY <1>0, <2>2, FS_RemoveElement
    <3> QED BY <3>1, FS_CardinalityType
  <2>5. bought > 0 /\ bought' = bought - 1
    BY <1>0, <1>3, <2>3, <2>4 DEF Counted
  <2> QED BY <1>0, <1>3, <2>3, <2>5 DEF Counted
<1> QED BY <1>1, <1>2, <1>3 DEF Undo
-----------------------------------------------------------------------------
(* An exercised contract was paid for and delivered. *)

\* A step of runner r past findOrInitialize touches its own memory, the rows
\* of its run, the rows it has a reference to, and the saga row.
Own(r) ==
    /\ Running(r) /\ UNCHANGED <<run, nruns>>
    /\ \A q \in Runner : q # r => pc'[q] = pc[q] /\ step'[q] = step[q] /\ refs'[q] = refs[q]
    /\ \A s \in Step : refs'[r][s] \in {refs[r][s], run[r], 0}
    /\ \A s \in Step, n \in Run :
         eff'[s][n] # eff[s][n] => n = run[r] \/ \E t \in Step : n = refs[r][t]
    /\ UNCHANGED <<st, log>> \/ (st' \in SagaState /\ log' = refs[r])

\* A write of the saga row.
LEMMA UpdateFacts ==
  ASSUME NEW r, NEW s, NEW o, Update(r, s, o)
  PROVE  UNCHANGED <<st, log>> \/ (st' = s /\ log' = refs[r])
  BY DEF Update, rowVars

\* A compensator of a reference.
LEMMA UndoReference ==
  ASSUME TypeOK, NEW r \in Runner, NEW t \in Step, Undo(t, refs[r][t])
  PROVE  \A s \in Step, n \in Run : eff'[s][n] # eff[s][n] => n = refs[r][t]
<1>1. refs[r][t] \in Ref
  BY DEF TypeOK
<1> QED BY <1>1, UndoRows

\* The steps before the first call keep to what is their own.
LEMMA StartOwn ==
  ASSUME SagaInv, SagaInv', NEW r \in Runner, AdvanceState(r) \/ Convert(r)
  PROVE  Own(r)
<1>a. TypeOK
  BY DEF SagaInv
<1>p. {"idle", "convert", "call", "fail"} \subseteq PC /\ 1 \in 0..4
  BY DEF PC
<1>1. CASE AdvanceState(r)
  <2>1. PICK o \in Outcome : /\ Update(r, "IN_PROGRESS", o)
                             /\ Goto(r, IF Updated(r, o) THEN "convert" ELSE "idle")
    BY <1>1 DEF AdvanceState
  <2>2. PICK l \in {"convert", "idle"} : Goto(r, l)
    BY <2>1
  <2>3. \A q \in Runner : q # r => pc'[q] = pc[q]
    BY <1>a, <1>p, <2>2, GotoFacts
  <2>4. UNCHANGED <<step, refs, run, nruns, eff>> /\ pc[r] = "advance"
    BY <1>1 DEF AdvanceState
  <2>5. UNCHANGED <<st, log>> \/ (st' \in SagaState /\ log' = refs[r])
    BY <2>1, UpdateFacts DEF SagaState
  <2> QED BY <2>3, <2>4, <2>5 DEF Own, Running
<1>2. CASE Convert(r)
  <2>1. PICK l \in {"call", "fail"}, s \in {1, step[r]} : GotoStep(r, l, s)
    <3>1. CASE GotoStep(r, "call", 1)
      BY <3>1
    <3>2. CASE Goto(r, "fail") /\ UNCHANGED step
      <4>1. step' = [step EXCEPT ![r] = step[r]]
        BY <1>a, <3>2 DEF TypeOK
      <4> QED BY <3>2, <4>1 DEF GotoStep
    <3> QED BY <1>2, <3>1, <3>2 DEF Convert
  <2>2. \A q \in Runner : q # r => pc'[q] = pc[q] /\ step'[q] = step[q]
    <3>1. s \in 0..4
      BY <1>a, <1>p DEF TypeOK
    <3> QED BY <1>a, <1>p, <2>1, <3>1, GotoStepFacts
  <2>3. UNCHANGED <<rowVars, run, nruns, eff>> /\ pc[r] = "convert"
    BY <1>2 DEF Convert
  <2>4. refs' = refs \/ refs' = [refs EXCEPT ![r] = NoRefs]
    BY <1>2 DEF Convert
  <2>5. /\ \A q \in Runner : q # r => refs'[q] = refs[q]
        /\ \A s1 \in Step : refs'[r][s1] \in {refs[r][s1], run[r], 0}
    BY <1>a, <2>4 DEF TypeOK, NoRefs
  <2> QED BY <2>2, <2>3, <2>5 DEF Own, Running, rowVars
<1> QED BY <1>1, <1>2

\* So do the calls, their saves and the one-shot compensators.
LEMMA ForwardOwn ==
  ASSUME SagaInv, SagaInv', NEW r \in Runner, CallStep(r) \/ SaveStep(r) \/ ReleaseStep(r) \/ UndoStep(r)
  PROVE  Own(r)
<1>a. TypeOK /\ InPlace(r)
  BY DEF SagaInv
<1>b. Running(r) => run[r] \in Run
  BY <1>a, NumberFacts DEF InPlace, TypeOK, Run, Ref
<1>p. {"idle", "undo", "release", "call", "save", "finish", "fail"} \subseteq PC
  BY DEF PC
<1>1. CASE CallStep(r)
  <2>0. UNCHANGED <<rowVars, step, run, nruns>> /\ pc[r] = "call" /\ step[r] \in Step /\ run[r] \in Run
    BY <1>1, <1>a, <1>b DEF CallStep, InPlace, Running
  <2>1. PICK o \in Outcome :
          /\ IF o # "fail" /\ CanDo(step[r], run[r])
             THEN Do(step[r], run[r]) ELSE UNCHANGED <<stockVars, eff>>
          /\ IF Succeeded(o, step[r], run[r])
             THEN Goto(r, "save") /\ refs' = [refs EXCEPT ![r][step[r]] = run[r]]
             ELSE Goto(r, "fail") /\ UNCHANGED refs
    BY <1>1 DEF CallStep
  <2>2. PICK l \in {"save", "fail"} : Goto(r, l)
    BY <2>1
  <2>3. \A q \in Runner : q # r => pc'[q] = pc[q]
    BY <1>a, <1>p, <2>2, GotoFacts
  <2>4. /\ \A q \in Runner : q # r => refs'[q] = refs[q]
        /\ \A s1 \in Step : refs'[r][s1] \in {refs[r][s1], run[r], 0}
    <3>1. refs \in [Runner -> [Step -> Ref]]
      BY <1>a DEF TypeOK
    <3>2. refs' = refs \/ refs' = [refs EXCEPT ![r][step[r]] = run[r]]
      BY <2>1
    <3> QED BY <3>1, <3>2
  <2>5. \A s \in Step, n \in Run : eff'[s][n] # eff[s][n] => n = run[r]
    <3>1. CASE Do(step[r], run[r])
      BY <1>a, <2>0, <3>1, DoRows
    <3>2. CASE UNCHANGED <<stockVars, eff>>
      BY <3>2
    <3> QED BY <2>1, <3>1, <3>2
  <2> QED BY <2>0, <2>3, <2>4, <2>5 DEF Own, Running, rowVars
<1>2. CASE SaveStep(r)
  <2>0. UNCHANGED <<refs, run, nruns, eff>> /\ pc[r] = "save" /\ step[r] \in Step
    BY <1>2, <1>a DEF SaveStep, InPlace
  <2>1. PICK o \in Outcome :
          /\ Update(r, "IN_PROGRESS", o)
          /\ IF Updated(r, o)
             THEN GotoStep(r, AfterSave(step[r]), IF step[r] = 4 THEN 4 ELSE step[r] + 1)
             ELSE Goto(r, "undo") /\ UNCHANGED step
    BY <1>2 DEF SaveStep
  <2>2. PICK l \in PC, s \in 0..4 : GotoStep(r, l, s)
    <3>1. CASE Updated(r, o)
      <4>1. AfterSave(step[r]) \in PC /\ (IF step[r] = 4 THEN 4 ELSE step[r] + 1) \in 0..4
        BY <1>p, <2>0 DEF AfterSave, Step
      <4> QED BY <2>1, <3>1, <4>1
    <3>2. CASE ~Updated(r, o)
      <4>1. step' = [step EXCEPT ![r] = step[r]] /\ step[r] \in 0..4
        BY <1>a, <2>1, <3>2 DEF TypeOK
      <4> QED BY <1>p, <2>1, <3>2, <4>1 DEF GotoStep
    <3> QED BY <3>1, <3>2
  <2>3. \A q \in Runner : q # r => pc'[q] = pc[q] /\ step'[q] = step[q]
    BY <1>a, <2>2, GotoStepFacts
  <2>4. UNCHANGED <<st, log>> \/ (st' \in SagaState /\ log' = refs[r])
    BY <2>1, UpdateFacts DEF SagaState
  <2> QED BY <2>0, <2>3, <2>4 DEF Own, Running
<1>3. CASE ReleaseStep(r)
  <2>0. UNCHANGED <<rowVars, step, refs, run, nruns>> /\ pc[r] = "release" /\ run[r] \in Run
    BY <1>3, <1>b DEF ReleaseStep, Running
  <2>1. PICK o \in Outcome : Goto(r, IF o = "ok" THEN "call" ELSE "fail")
    BY <1>3 DEF ReleaseStep
  <2>2. PICK l \in {"call", "fail"} : Goto(r, l)
    BY <2>1
  <2>3. \A q \in Runner : q # r => pc'[q] = pc[q]
    BY <1>a, <1>p, <2>2, GotoFacts
  <2>4. \A s \in Step, n \in Run : eff'[s][n] # eff[s][n] => n = run[r]
    <3>1. eff' = eff \/ eff' = [eff EXCEPT ![1][run[r]] = "undone"]
      BY <1>3 DEF ReleaseStep
    <3>2. 1 \in Step /\ eff \in [Step -> [Run -> Effect]]
      BY <1>a DEF Step, TypeOK
    <3> QED BY <1>a, <2>0, <3>1, <3>2, EffUpdate
  <2> QED BY <2>0, <2>3, <2>4 DEF Own, Running, rowVars
<1>4. CASE UndoStep(r)
  <2>0. UNCHANGED <<rowVars, refs, run, nruns>> /\ pc[r] = "undo" /\ step[r] \in Step
    BY <1>4, <1>a DEF UndoStep, InPlace
  <2>1. Undo(step[r], refs[r][step[r]]) \/ UNCHANGED <<stockVars, eff>>
    BY <1>4 DEF UndoStep
  <2>2. PICK l \in PC, s \in 0..4 : GotoStep(r, l, s)
    <3>1. step[r] - 1 \in 0..4
      BY <2>0 DEF Step
    <3>2. \/ GotoStep(r, "idle", 0) \/ GotoStep(r, "undo", step[r] - 1)
      BY <1>4 DEF UndoStep
    <3> QED BY <1>p, <3>1, <3>2
  <2>3. \A q \in Runner : q # r => pc'[q] = pc[q] /\ step'[q] = step[q]
    BY <1>a, <2>2, GotoStepFacts
  <2>4. \A s1 \in Step, n \in Run : eff'[s1][n] # eff[s1][n] => n = refs[r][step[r]]
    BY <1>a, <2>0, <2>1, UndoReference
  <2> QED BY <2>0, <2>3, <2>4 DEF Own, Running, rowVars
<1> QED BY <1>1, <1>2, <1>3, <1>4

\* So do the end of a run and its compensation.
LEMMA EndOwn ==
  ASSUME SagaInv, SagaInv', NEW r \in Runner, Finish(r) \/ Close(r) \/ Fail(r) \/ SkipStep(r) \/ CompensateStep(r)
  PROVE  Own(r)
<1>a. TypeOK /\ InPlace(r)
  BY DEF SagaInv
<1>p. {"idle", "compensate"} \subseteq PC /\ 4 \in 0..4
  BY DEF PC
<1>1. CASE Finish(r) \/ Close(r)
  <2>0. UNCHANGED <<step, refs, run, nruns, eff>> /\ Goto(r, "idle") /\ pc[r] \in {"finish", "close"}
    BY <1>1 DEF Finish, Close
  <2>1. PICK s \in SagaState, o \in Outcome : Update(r, s, o)
    BY <1>1 DEF Finish, Close, SagaState, Outcome, Verdict
  <2>2. UNCHANGED <<st, log>> \/ (st' \in SagaState /\ log' = refs[r])
    BY <2>1, UpdateFacts
  <2>3. \A q \in Runner : q # r => pc'[q] = pc[q]
    BY <1>a, <1>p, <2>0, GotoFacts
  <2> QED BY <2>0, <2>2, <2>3 DEF Own, Running
<1>2. CASE Fail(r)
  <2>0. UNCHANGED <<refs, run, nruns, eff>> /\ GotoStep(r, "compensate", 4) /\ pc[r] = "fail"
    BY <1>2, Zenon DEF Fail
  <2>1. PICK o \in Outcome : Update(r, "COMPENSATING", o)
    BY <1>2 DEF Fail
  <2>2. UNCHANGED <<st, log>> \/ (st' \in SagaState /\ log' = refs[r])
    BY <2>1, UpdateFacts DEF SagaState
  <2>3. \A q \in Runner : q # r => pc'[q] = pc[q] /\ step'[q] = step[q]
    BY <1>a, <1>p, <2>0, GotoStepFacts
  <2> QED BY <2>0, <2>2, <2>3 DEF Own, Running
<1>3. CASE SkipStep(r)
  <2>0. UNCHANGED <<rowVars, refs, run, nruns, eff>> /\ NextComp(r) /\ pc[r] = "compensate" /\ step[r] \in Step
    BY <1>3, <1>a DEF SkipStep, InPlace
  <2>1. \A q \in Runner : q # r => pc'[q] = pc[q] /\ step'[q] = step[q]
    BY <1>a, <2>0, NextCompFacts
  <2> QED BY <2>0, <2>1 DEF Own, Running, rowVars
<1>4. CASE CompensateStep(r)
  <2>0. UNCHANGED <<refs, run, nruns>> /\ pc[r] = "compensate" /\ step[r] \in Step
    BY <1>4, <1>a DEF CompensateStep, InPlace
  <2>1. PICK d \in Outcome : Update(r, "COMPENSATING", d)
    BY <1>4 DEF CompensateStep
  <2>2. UNCHANGED <<st, log>> \/ (st' \in SagaState /\ log' = refs[r])
    BY <2>1, UpdateFacts DEF SagaState
  <2>3. Undo(step[r], refs[r][step[r]]) \/ UNCHANGED <<stockVars, eff>>
    BY <1>4 DEF CompensateStep
  <2>4. \A s1 \in Step, n \in Run : eff'[s1][n] # eff[s1][n] => n = refs[r][step[r]]
    BY <1>a, <2>0, <2>3, UndoReference
  <2>5. NextComp(r) \/ UNCHANGED <<pc, step>>
    BY <1>4 DEF CompensateStep
  <2>6. \A q \in Runner : q # r => pc'[q] = pc[q] /\ step'[q] = step[q]
    BY <1>a, <2>0, <2>5, NextCompFacts
  <2> QED BY <2>0, <2>2, <2>4, <2>6 DEF Own, Running
<1> QED BY <1>1, <1>2, <1>3, <1>4

\* What the types say of runs, rows and references.
LEMMA RunFacts ==
  ASSUME SagaInv
  PROVE  /\ \A q \in Runner : Running(q) => run[q] \in Run /\ run[q] =< nruns
         /\ \A q \in Runner : run[q] \in Ref /\ \A s \in Step : refs[q][s] \in Ref
         /\ \A s \in Step : log[s] \in Ref
         /\ nruns \in Nat /\ nruns =< MaxRuns
<1>1. TypeOK /\ \A q \in Runner : InPlace(q)
  BY DEF SagaInv
<1>2. nruns \in Nat /\ nruns =< MaxRuns /\ MaxRuns \in Nat
  BY <1>1, NumberFacts DEF TypeOK, Ref
<1>3. \A q \in Runner : Running(q) => run[q] \in Run /\ run[q] =< nruns
  BY <1>1, <1>2 DEF InPlace, Run
<1> QED BY <1>1, <1>2, <1>3 DEF TypeOK

\* Nothing that a run has reached is changed by the step of another one.
LEMMA OwnSafe ==
  ASSUME SagaInv, SagaInv', Numbered, \A q \in Runner : OnItsWay(q), NEW r \in Runner, Own(r)
  PROVE  /\ Numbered'
         /\ \A q \in Runner : q # r => OnItsWay(q)'
         /\ \A n \in Run : Final(n) => Final(n)'
<1>1. /\ Running(r) /\ UNCHANGED <<run, nruns>> /\ run[r] \in Run /\ run[r] =< nruns
      /\ \A q \in Runner : Running(q) => run[q] \in Run /\ run[q] =< nruns
      /\ \A q \in Runner, s \in Step : refs[q][s] \in Ref /\ refs'[q][s] \in Ref
      /\ nruns \in Nat
  BY RunFacts DEF Own, SagaInv, TypeOK
<1>2. \A q \in Runner : q # r => pc'[q] = pc[q] /\ step'[q] = step[q] /\ refs'[q] = refs[q]
  BY DEF Own
<1>3. \A q \in Runner : Running(q)' => Running(q)
  BY <1>1, <1>2 DEF Running
<1>4. \A n \in Run : n # run[r] /\ (\A t \in Step : refs[r][t] # n) => \A s \in Step : eff'[s][n] = eff[s][n]
  BY DEF Own
<1>5. ASSUME NEW n \in Run, n # run[r], \A t \in Step : refs[r][t] # n
      PROVE  (Shielded(n) => Shielded(n)') /\ \A s \in Step : refs'[r][s] # n
  <2>1. n # 0
    BY NumberFacts
  <2> QED BY <1>5, <2>1 DEF Own, Shielded
<1>6. Numbered'
  <2>1. \A q, p \in Runner : Running(q)' /\ Running(p)' /\ q # p => run'[q] # run'[p]
    BY <1>1, <1>3 DEF Numbered
  <2>2. \A q \in Runner, s \in Step : Running(q)' => refs'[q][s] =< nruns'
    <3>1. ASSUME NEW q \in Runner, NEW s \in Step, Running(q)', q # r PROVE refs'[q][s] =< nruns'
      BY <1>1, <1>2, <1>3, <3>1 DEF Numbered
    <3>2. ASSUME NEW s \in Step PROVE refs'[r][s] =< nruns'
      <4>1. refs'[r][s] \in {refs[r][s], run[r], 0}
        BY DEF Own
      <4>2. refs[r][s] =< nruns
        BY <1>1 DEF Numbered
      <4> QED BY <1>1, <4>1, <4>2
    <3> QED BY <3>1, <3>2
  <2>3. \A s \in Step : log'[s] =< nruns'
    BY <1>1 DEF Own, Numbered
  <2>4. ASSUME NEW s \in Step, NEW n \in Run, eff'[s][n] # "none" PROVE n =< nruns'
    <3>1. CASE n = run[r]
      BY <1>1, <3>1
    <3>2. CASE \E t \in Step : n = refs[r][t]
      BY <1>1, <3>2 DEF Numbered
    <3>3. CASE n # run[r] /\ \A t \in Step : refs[r][t] # n
      BY <1>1, <1>4, <2>4, <3>3 DEF Numbered
    <3> QED BY <3>1, <3>2, <3>3
  <2>5. st' = "none" => log' = NoRefs
    BY DEF Own, Numbered, SagaState
  <2> QED BY <2>1, <2>2, <2>3, <2>4, <2>5 DEF Numbered
<1>7. ASSUME NEW q \in Runner, q # r PROVE OnItsWay(q)'
  <2>1. SUFFICES ASSUME pc'[q] \in {"advance", "convert", "call", "save", "release", "finish"} PROVE OnItsWay(q)'
    BY DEF OnItsWay
  <2>2. pc'[q] = pc[q] /\ step'[q] = step[q] /\ refs'[q] = refs[q] /\ run'[q] = run[q]
    BY <1>1, <1>2, <1>7
  <2>3. Running(q) /\ run[q] \in Run /\ run[q] # run[r]
    BY <1>1, <1>7, <2>1, <2>2 DEF Running, Numbered
  <2>4. /\ Private(q) /\ eff[4][run[q]] = IF DeliveredBy(q) THEN "active" ELSE "none"
        /\ PaidBy(q) => eff[3][run[q]] = "active"
    BY <2>1, <2>2 DEF OnItsWay
  <2>5. \A t \in Step : refs[r][t] # run[q]
    BY <1>1, <1>7, <2>4 DEF Private
  <2>6. 3 \in Step /\ 4 \in Step
    BY DEF Step
  <2>7. eff'[4][run[q]] = eff[4][run[q]] /\ eff'[3][run[q]] = eff[3][run[q]]
    BY <1>4, <2>3, <2>5, <2>6
  <2>8. Shielded(run[q])' /\ \A s \in Step : refs'[r][s] # run[q]
    BY <1>5, <2>2, <2>3, <2>4, <2>5 DEF Private, Shielded
  <2>9. Private(q)'
    BY <1>2, <1>3, <2>2, <2>4, <2>8 DEF Private
  <2> QED BY <2>2, <2>4, <2>7, <2>9 DEF OnItsWay, DeliveredBy, PaidBy
<1>8. ASSUME NEW n \in Run, Final(n) PROVE Final(n)'
  <2>1. n # run[r] /\ \A t \in Step : refs[r][t] # n
    BY <1>1, <1>8 DEF Final
  <2>2. 3 \in Step /\ 4 \in Step
    BY DEF Step
  <2>3. eff'[4][n] = "active" /\ eff'[3][n] = "active"
    BY <1>4, <1>8, <2>1, <2>2 DEF Final
  <2>4. Shielded(n)' /\ \A s \in Step : refs'[r][s] # n
    BY <1>5, <1>8, <2>1 DEF Final
  <2>5. \A q \in Runner : Running(q)' => run'[q] # n /\ \A s \in Step : refs'[q][s] # n
    BY <1>1, <1>2, <1>3, <1>8, <2>1, <2>4 DEF Final
  <2> QED BY <2>3, <2>4, <2>5 DEF Final
<1> QED BY <1>6, <1>7, <1>8

\* A run that is still on its way after its own step keeps to itself.
LEMMA PrivateKept ==
  ASSUME SagaInv, NEW r \in Runner, Own(r), Private(r),
         UNCHANGED <<st, log>> \/ st' \in {"IN_PROGRESS", "COMPLETED"}
  PROVE  Private(r)'
<1>1. Shielded(run[r])'
  BY DEF Own, Private, Shielded
<1>2. \A q \in Runner \ {r} : Running(q)' => Running(q) /\ refs'[q] = refs[q]
  BY DEF Own, Running
<1> QED BY <1>1, <1>2 DEF Own, Private, Shielded

\* The step of a run on its way gets it further, or off it.
LEMMA OwnWay ==
  ASSUME SagaInv, SagaInv', Numbered, NEW r \in Runner, OnItsWay(r), Own(r),
         \/ AdvanceState(r) \/ Convert(r) \/ CallStep(r) \/ SaveStep(r) \/ ReleaseStep(r) \/ UndoStep(r)
         \/ Finish(r) \/ Close(r) \/ Fail(r) \/ SkipStep(r) \/ CompensateStep(r)
  PROVE  OnItsWay(r)'
<1>a. TypeOK /\ InPlace(r) /\ run'[r] = run[r] /\ run[r] \in Run /\ eff \in [Step -> [Run -> Effect]]
  BY RunFacts DEF SagaInv, TypeOK, Own
<1>b. 1 \in Step /\ 3 \in Step /\ 4 \in Step
  BY DEF Step
<1>p. {"idle", "convert", "call", "save", "release", "finish", "undo", "fail", "compensate"} \subseteq PC
  BY DEF PC
<1>w. Private(r) /\ (UNCHANGED <<st, log>> \/ st' \in {"IN_PROGRESS", "COMPLETED"}) => Private(r)'
  BY PrivateKept
<1>1. CASE AdvanceState(r)
  <2>0. pc[r] = "advance" /\ UNCHANGED eff
    BY <1>1 DEF AdvanceState
  <2>1. PICK o \in Outcome : /\ Update(r, "IN_PROGRESS", o)
                             /\ Goto(r, IF Updated(r, o) THEN "convert" ELSE "idle")
    BY <1>1 DEF AdvanceState
  <2>2. pc'[r] \in {"convert", "idle"}
    BY <1>a, <2>1 DEF Goto, TypeOK
  <2>3. Private(r)' /\ eff[4][run[r]] = "none"
    BY <1>w, <2>0, <2>1, UpdateFacts DEF OnItsWay, DeliveredBy
  <2> QED BY <1>a, <2>0, <2>2, <2>3 DEF OnItsWay, DeliveredBy, PaidBy
<1>2. CASE Convert(r)
  <2>0. pc[r] = "convert" /\ UNCHANGED <<rowVars, eff>>
    BY <1>2 DEF Convert
  <2>1. pc'[r] = "fail" \/ (pc'[r] = "call" /\ step'[r] = 1)
    BY <1>a, <1>2 DEF Convert, Goto, GotoStep, TypeOK
  <2>2. Private(r)' /\ eff[4][run[r]] = "none"
    BY <1>w, <2>0 DEF OnItsWay, DeliveredBy, rowVars
  <2> QED BY <1>a, <2>0, <2>1, <2>2 DEF OnItsWay, DeliveredBy, PaidBy
<1>3. CASE CallStep(r)
  <2>0. UNCHANGED <<rowVars, step>> /\ pc[r] = "call" /\ step[r] \in Step /\ step'[r] = step[r]
    BY <1>3, <1>a DEF CallStep, InPlace
  <2>1. PICK o \in Outcome :
          /\ IF o # "fail" /\ CanDo(step[r], run[r])
             THEN Do(step[r], run[r]) ELSE UNCHANGED <<stockVars, eff>>
          /\ IF Succeeded(o, step[r], run[r]) THEN Goto(r, "save") ELSE Goto(r, "fail")
    BY <1>3 DEF CallStep
  <2>2. Private(r)' /\ eff[4][run[r]] = "none" /\ (step[r] = 4 => eff[3][run[r]] = "active")
    BY <1>w, <2>0 DEF OnItsWay, DeliveredBy, PaidBy, rowVars
  <2>3. CASE Succeeded(o, step[r], run[r])
    <3>1. pc'[r] = "save"
      BY <1>a, <2>1, <2>3 DEF Goto, TypeOK
    <3>2. Do(step[r], run[r])
      BY <2>1, <2>3 DEF Succeeded
    <3>3. eff'[step[r]][run[r]] = "active"
          /\ \A t \in Step : t # step[r] /\ ~(step[r] = 4 /\ t = 2) => eff'[t][run[r]] = eff[t][run[r]]
      BY <1>a, <2>0, <3>2, DoRows
    <3>4. DeliveredBy(r)' <=> step[r] = 4
      BY <2>0, <3>1 DEF DeliveredBy
    <3>5. PaidBy(r)' <=> step[r] \in {3, 4}
      BY <2>0, <3>1, <3>4 DEF PaidBy
    <3>6. eff'[4][run[r]] = IF step[r] = 4 THEN "active" ELSE "none"
      BY <1>b, <2>0, <2>2, <3>3
    <3>7. step[r] \in {3, 4} => eff'[3][run[r]] = "active"
      BY <1>b, <2>0, <2>2, <3>3
    <3> QED BY <1>a, <2>2, <3>4, <3>5, <3>6, <3>7 DEF OnItsWay
  <2>4. CASE ~Succeeded(o, step[r], run[r])
    <3>1. pc'[r] = "fail"
      BY <1>a, <2>1, <2>4 DEF Goto, TypeOK
    <3> QED BY <3>1 DEF OnItsWay
  <2> QED BY <2>3, <2>4
<1>4. CASE SaveStep(r)
  <2>0. pc[r] = "save" /\ UNCHANGED eff /\ step[r] \in Step
    BY <1>4, <1>a DEF SaveStep, InPlace
  <2>1. PICK o \in Outcome :
          /\ Update(r, "IN_PROGRESS", o)
          /\ IF Updated(r, o)
             THEN GotoStep(r, AfterSave(step[r]), IF step[r] = 4 THEN 4 ELSE step[r] + 1)
             ELSE Goto(r, "undo") /\ UNCHANGED step
    BY <1>4 DEF SaveStep
  <2>2. Private(r)'
    BY <1>w, <2>0, <2>1, UpdateFacts DEF OnItsWay
  <2>3. CASE Updated(r, o)
    <3>1. pc'[r] = AfterSave(step[r]) /\ step'[r] = IF step[r] = 4 THEN 4 ELSE step[r] + 1
      BY <1>a, <2>1, <2>3 DEF GotoStep, Goto, TypeOK
    <3>2. DeliveredBy(r)' <=> DeliveredBy(r)
      BY <2>0, <3>1 DEF DeliveredBy, AfterSave
    <3>3. PaidBy(r)' => PaidBy(r)
      BY <2>0, <3>1, <3>2 DEF PaidBy, AfterSave, Step
    <3> QED BY <1>a, <2>0, <2>2, <3>2, <3>3 DEF OnItsWay
  <2>4. CASE ~Updated(r, o)
    <3>1. pc'[r] = "undo"
      BY <1>a, <2>1, <2>4 DEF Goto, TypeOK
    <3> QED BY <3>1 DEF OnItsWay
  <2> QED BY <2>3, <2>4
<1>5. CASE ReleaseStep(r)
  <2>0. UNCHANGED <<rowVars, step>> /\ pc[r] = "release" /\ step[r] = 3 /\ step'[r] = 3
    BY <1>5, <1>a DEF ReleaseStep, InPlace
  <2>1. pc'[r] \in {"call", "fail"}
    BY <1>5, <1>a DEF ReleaseStep, Goto, TypeOK
  <2>2. Private(r)' /\ eff[4][run[r]] = "none"
    BY <1>w, <2>0 DEF OnItsWay, DeliveredBy, rowVars
  <2>3. eff' = eff \/ eff' = [eff EXCEPT ![1][run[r]] = "undone"]
    BY <1>5 DEF ReleaseStep
  <2>4. eff'[4][run[r]] = "none"
    BY <1>a, <1>b, <2>2, <2>3, EffUpdate
  <2> QED BY <1>a, <2>0, <2>1, <2>2, <2>4 DEF OnItsWay, DeliveredBy, PaidBy
<1>6. CASE \/ UndoStep(r) \/ Finish(r) \/ Close(r) \/ Fail(r) \/ SkipStep(r) \/ CompensateStep(r)
  <2>1. pc'[r] \notin {"advance", "convert", "call", "save", "release", "finish"}
    <3>1. CASE UndoStep(r)
      BY <1>a, <3>1 DEF UndoStep, GotoStep, Goto, TypeOK
    <3>2. CASE Finish(r) \/ Close(r)
      BY <1>a, <3>2 DEF Finish, Close, Goto, TypeOK
    <3>3. CASE Fail(r)
      BY <1>a, <3>3 DEF Fail, GotoStep, Goto, TypeOK
    <3>4. CASE SkipStep(r)
      BY <1>a, <3>4 DEF SkipStep, NextComp, GotoStep, Goto, TypeOK
    <3>5. CASE CompensateStep(r)
      <4>1. NextComp(r) \/ UNCHANGED <<pc, step>>
        BY <3>5 DEF CompensateStep
      <4>2. pc[r] = "compensate"
        BY <3>5 DEF CompensateStep
      <4> QED BY <1>a, <4>1, <4>2 DEF NextComp, GotoStep, Goto, TypeOK
    <3> QED BY <1>6, <3>1, <3>2, <3>3, <3>4, <3>5
  <2> QED BY <2>1 DEF OnItsWay
<1> QED BY <1>1, <1>2, <1>3, <1>4, <1>5, <1>6

\* Each step of a runner keeps the count of the deliveries.
LEMMA OwnCounted ==
  ASSUME SagaInv, Counted, NEW r \in Runner, OnItsWay(r),
         \/ AdvanceState(r) \/ Convert(r) \/ CallStep(r) \/ SaveStep(r) \/ ReleaseStep(r) \/ UndoStep(r)
         \/ Finish(r) \/ Close(r) \/ Fail(r) \/ SkipStep(r) \/ CompensateStep(r)
  PROVE  Counted'
<1>a. TypeOK /\ InPlace(r) /\ eff \in [Step -> [Run -> Effect]]
  BY DEF SagaInv, TypeOK
<1>b. UNCHANGED <<stockVars, eff>> => Counted'
  BY DEF Counted, Active, stockVars
<1>1. CASE AdvanceState(r) \/ Convert(r) \/ SaveStep(r) \/ Finish(r) \/ Close(r) \/ Fail(r) \/ SkipStep(r)
  BY <1>1, <1>b DEF AdvanceState, Convert, SaveStep, Finish, Close, Fail, SkipStep
<1>2. CASE CallStep(r)
  <2>0. pc[r] = "call" /\ step[r] \in Step /\ run[r] \in Run
    BY <1>2, <1>a, RunFacts DEF CallStep, InPlace, Running
  <2>1. Do(step[r], run[r]) \/ UNCHANGED <<stockVars, eff>>
    BY <1>2 DEF CallStep
  <2>2. eff[4][run[r]] # "active"
    BY <2>0 DEF OnItsWay, DeliveredBy
  <2> QED BY <1>a, <1>b, <2>0, <2>1, <2>2, DoCounted
<1>3. CASE ReleaseStep(r)
  <2>0. UNCHANGED stockVars /\ run[r] \in Run /\ 1 \in Step /\ 4 \in Step
    BY <1>3, <1>a, RunFacts DEF ReleaseStep, Running, Step
  <2>1. eff' = eff \/ eff' = [eff EXCEPT ![1][run[r]] = "undone"]
    BY <1>3 DEF ReleaseStep
  <2>2. \A m \in Run : eff'[4][m] = eff[4][m]
    BY <1>a, <2>0, <2>1, EffUpdate
  <2>3. Active(4)' = Active(4)
    BY <2>2 DEF Active
  <2> QED BY <2>0, <2>3 DEF Counted, stockVars
<1>4. CASE UndoStep(r) \/ CompensateStep(r)
  <2>0. step[r] \in Step
    BY <1>4, <1>a DEF UndoStep, CompensateStep, InPlace
  <2>1. Undo(step[r], refs[r][step[r]]) \/ UNCHANGED <<stockVars, eff>>
    BY <1>4 DEF UndoStep, CompensateStep
  <2>2. refs[r][step[r]] \in Ref
    BY <1>a, <2>0 DEF TypeOK
  <2> QED BY <1>a, <1>b, <2>0, <2>1, <2>2, UndoCounted
<1> QED BY <1>1, <1>2, <1>3, <1>4

\* A step that starts no run and touches no row but the saga's.
LEMMA OuterSafe ==
  ASSUME SagaInv, Numbered, \A q \in Runner : OnItsWay(q),
         UNCHANGED <<step, refs, run, nruns, eff>>, \A q \in Runner : pc'[q] = pc[q] \/ pc'[q] \in {"idle", "find"},
         \A n \in Run : Shielded(n) => Shielded(n)', log' = log \/ log' = NoRefs, st' = "none" => log' = NoRefs
  PROVE  /\ Numbered'
         /\ \A q \in Runner : OnItsWay(q)'
         /\ \A n \in Run : Final(n) => Final(n)'
<1>1. \A q \in Runner : Running(q)' => Running(q) /\ pc'[q] = pc[q]
  BY DEF Running
<1>2. /\ \A q \in Runner : Running(q) => run[q] \in Run
      /\ nruns \in Nat
  BY RunFacts
<1>3. Numbered'
  <2>1. \A s \in Step : log'[s] =< nruns'
    BY <1>2 DEF Numbered, NoRefs
  <2> QED BY <1>1, <2>1 DEF Numbered
<1>4. ASSUME NEW q \in Runner PROVE OnItsWay(q)'
  <2>1. SUFFICES ASSUME pc'[q] \in {"advance", "convert", "call", "save", "release", "finish"} PROVE OnItsWay(q)'
    BY DEF OnItsWay
  <2>2. pc'[q] = pc[q] /\ Running(q) /\ run[q] \in Run
    BY <1>1, <1>2, <2>1 DEF Running
  <2>3. Private(q)
    BY <2>1, <2>2 DEF OnItsWay
  <2>4. Shielded(run[q])'
    BY <2>2, <2>3 DEF Private, Shielded
  <2>5. Private(q)'
    BY <1>1, <2>2, <2>3, <2>4 DEF Private
  <2> QED BY <2>1, <2>2, <2>5 DEF OnItsWay, DeliveredBy, PaidBy
<1>5. ASSUME NEW n \in Run, Final(n) PROVE Final(n)'
  BY <1>1, <1>5 DEF Final
<1> QED BY <1>3, <1>4, <1>5

\* A new run.
LEMMA FindSafe ==
  ASSUME SagaInv, SagaInv', Numbered, \A q \in Runner : OnItsWay(q), NEW r \in Runner, FindOrInitialize(r)
  PROVE  /\ Numbered'
         /\ \A q \in Runner : OnItsWay(q)'
         /\ \A n \in Run : Final(n) => Final(n)'
<1>a. TypeOK /\ UNCHANGED <<step, eff>> /\ pc[r] = "find" /\ ~Running(r)
  BY DEF SagaInv, FindOrInitialize, Running
<1>b. /\ \A q \in Runner : Running(q) => run[q] \in Run /\ run[q] =< nruns
      /\ \A q \in Runner, s \in Step : refs[q][s] \in Ref
      /\ \A s \in Step : log[s] \in Ref
      /\ nruns \in Nat /\ MaxRuns \in Nat /\ \A n \in Run : n \in Nat /\ n # 0
      /\ \A n \in Ref : n \in Nat
  BY RunFacts, NumberFacts
<1>1. CASE Goto(r, "idle") /\ UNCHANGED <<rowVars, refs, run, nruns>>
  <2>1. \A q \in Runner : pc'[q] = pc[q] \/ pc'[q] \in {"idle", "find"}
    BY <1>1, <1>a DEF Goto, TypeOK
  <2>2. \A n \in Run : Shielded(n) => Shielded(n)'
    BY <1>1 DEF Shielded, rowVars
  <2>3. log' = log /\ (st' = "none" => log' = NoRefs)
    BY <1>1 DEF rowVars, Numbered
  <2> QED BY <1>1, <1>a, <2>1, <2>2, <2>3, OuterSafe
<1>2. CASE /\ ~SkipState(st) /\ nruns < MaxRuns
           /\ nruns' = nruns + 1
           /\ run' = [run EXCEPT ![r] = nruns + 1]
           /\ st' = (IF st = "none" THEN "STARTED" ELSE st)
           /\ refs' = [refs EXCEPT ![r] = KeptRefs]
           /\ Goto(r, "advance")
           /\ UNCHANGED <<ver, log>>
  <2>1. /\ pc'[r] = "advance" /\ run'[r] = nruns + 1 /\ nruns + 1 \in Run /\ refs'[r] = KeptRefs
        /\ \A q \in Runner : q # r => pc'[q] = pc[q] /\ run'[q] = run[q] /\ refs'[q] = refs[q]
    BY <1>2, <1>a, <1>b DEF Goto, TypeOK, Run
  <2>2. \A q \in Runner : q # r => (Running(q)' <=> Running(q))
    BY <2>1 DEF Running
  <2>3. \A n \in Run : Shielded(n) => Shielded(n)' /\ \A s \in Step : KeptRefs[s] # n
    BY <1>2, <1>b DEF Shielded, KeptRefs, SkipState, Terminal, NoRefs, Numbered
  <2>4. \A s \in Step : KeptRefs[s] =< nruns /\ KeptRefs[s] \in Nat
    BY <1>b DEF KeptRefs, NoRefs, Numbered
  <2>5. Numbered'
    <3>1. \A q, p \in Runner : Running(q)' /\ Running(p)' /\ q # p => run'[q] # run'[p]
      BY <1>b, <2>1, <2>2 DEF Numbered
    <3>2. \A q \in Runner, s \in Step : Running(q)' => refs'[q][s] =< nruns'
      <4>1. ASSUME NEW q \in Runner, NEW s \in Step, Running(q)', q # r PROVE refs'[q][s] =< nruns'
        <5>1. refs[q][s] =< nruns /\ refs[q][s] \in Nat
          BY <1>b, <2>2, <4>1 DEF Numbered
        <5> QED BY <1>2, <1>b, <2>1, <4>1, <5>1
      <4>2. \A s \in Step : refs'[r][s] =< nruns'
        BY <1>2, <1>b, <2>1, <2>4
      <4> QED BY <4>1, <4>2
    <3>3. \A s \in Step : log'[s] =< nruns'
      BY <1>2, <1>b DEF Numbered
    <3>4. \A s \in Step, n \in Run : eff'[s][n] # "none" => n =< nruns'
      BY <1>2, <1>a, <1>b DEF Numbered
    <3>5. st' = "none" => log' = NoRefs
      BY <1>2
    <3> QED BY <3>1, <3>2, <3>3, <3>4, <3>5 DEF Numbered
  <2>6. OnItsWay(r)'
    <3>2. \A q \in Runner \ {r}, s \in Step : Running(q)' => refs'[q][s] # nruns + 1
      <4>1. ASSUME NEW q \in Runner \ {r}, NEW s \in Step, Running(q)' PROVE refs'[q][s] # nruns + 1
        <5>1. refs[q][s] =< nruns /\ refs[q][s] \in Nat
          BY <1>b, <2>2, <4>1 DEF Numbered
        <5> QED BY <1>b, <2>1, <4>1, <5>1
      <4> QED BY <4>1
    <3>3. Private(r)'
      <4>1. Shielded(run[r])'
        <5>1. \A s \in Step : log'[s] # run'[r]
          BY <1>2, <1>b, <2>1 DEF Numbered
        <5> QED BY <5>1 DEF Shielded
      <4> QED BY <2>1, <3>2, <4>1 DEF Private
    <3>4. 4 \in Step /\ eff'[4][run'[r]] = "none"
      BY <1>a, <1>b, <2>1 DEF Numbered, Step
    <3> QED BY <2>1, <3>3, <3>4 DEF OnItsWay, DeliveredBy, PaidBy
  <2>7. ASSUME NEW q \in Runner, q # r PROVE OnItsWay(q)'
    <3>1. SUFFICES ASSUME pc'[q] \in {"advance", "convert", "call", "save", "release", "finish"} PROVE OnItsWay(q)'
      BY DEF OnItsWay
    <3>2. pc'[q] = pc[q] /\ Running(q) /\ run[q] \in Run /\ run'[q] = run[q] /\ step'[q] = step[q] /\ eff' = eff
      BY <1>a, <1>b, <2>1, <2>7, <3>1 DEF Running
    <3>3. Private(q)
      BY <3>1, <3>2 DEF OnItsWay
    <3>4. Shielded(run[q])' /\ \A s \in Step : refs'[r][s] # run[q]
      BY <2>1, <2>3, <3>2, <3>3 DEF Private, Shielded
    <3>5. Private(q)'
      BY <2>1, <2>2, <3>2, <3>3, <3>4 DEF Private
    <3> QED BY <3>1, <3>2, <3>5 DEF OnItsWay, DeliveredBy, PaidBy
  <2>8. ASSUME NEW n \in Run, Final(n) PROVE Final(n)'
    <3>1. 3 \in Step /\ n =< nruns
      BY <2>8 DEF Final, Numbered, Step
    <3>2. Shielded(n)' /\ \A s \in Step : refs'[r][s] # n
      BY <2>1, <2>3, <2>8 DEF Final
    <3>3. run'[r] # n
      BY <1>b, <2>1, <3>1
    <3> QED BY <1>a, <2>1, <2>2, <2>8, <3>2, <3>3 DEF Final
  <2> QED BY <2>5, <2>6, <2>7, <2>8
<1> QED BY <1>1, <1>2 DEF FindOrInitialize, rowVars

\* An operator who does not retry a saga that runs or has completed.  (A retry
\* of either takes the references of its log into a run that may compensate
\* them: the code lets an operator do it, and an exercised contract is then not
\* settled.)
Rash == {<<"retry", "IN_PROGRESS">>, <<"retry", "COMPLETED">>}
Cautious == \A c \in Scenarios : c.operator \cap Rash = {}

\* Steps of trading-service and the operator, and a crash.
LEMMA OtherSafe ==
  ASSUME env.operator \cap Rash = {}, SagaInv, SagaInv', Numbered, \A q \in Runner : OnItsWay(q),
         \/ ExerciseContract \/ CompleteExercise \/ RevertExercise
         \/ Deliver \/ (\E op \in AdminOp : Recover(op)) \/ Crash
  PROVE  /\ Numbered'
         /\ \A q \in Runner : OnItsWay(q)'
         /\ \A n \in Run : Final(n) => Final(n)'
<1>a. TypeOK /\ \A n \in Run : n # 0
  BY NumberFacts DEF SagaInv
<1>1. CASE ExerciseContract \/ CompleteExercise \/ RevertExercise \/ Deliver \/ Crash
  <2>1. UNCHANGED <<rowVars, step, refs, run, nruns, eff>>
    BY <1>1 DEF ExerciseContract, CompleteExercise, RevertExercise, Deliver, Crash, runnerVars
  <2>2. \A q \in Runner : pc'[q] = pc[q] \/ pc'[q] \in {"idle", "find"}
    BY <1>1, <1>a DEF ExerciseContract, CompleteExercise, RevertExercise, Deliver, Crash, runnerVars, Goto, TypeOK
  <2>3. \A n \in Run : Shielded(n) => Shielded(n)'
    BY <2>1 DEF Shielded, rowVars
  <2>4. log' = log /\ (st' = "none" => log' = NoRefs)
    BY <2>1 DEF rowVars, Numbered
  <2> QED BY <2>1, <2>2, <2>3, <2>4, OuterSafe
<1>2. ASSUME NEW op \in AdminOp, Recover(op)
      PROVE  /\ Numbered'
             /\ \A q \in Runner : OnItsWay(q)'
             /\ \A n \in Run : Final(n) => Final(n)'
  <2>1. UNCHANGED <<step, refs, run, nruns, eff>> /\ Goto("admin", "find") /\ st # "none"
    BY <1>2 DEF Recover
  <2>2. \A q \in Runner : pc'[q] = pc[q] \/ pc'[q] \in {"idle", "find"}
    BY <1>a, <2>1 DEF Goto, TypeOK
  <2>3. op = "retry" => st \notin {"IN_PROGRESS", "COMPLETED"}
    <3>1. env \in Scenarios /\ <<op, st>> \in env.operator
      BY <1>2, <1>a DEF Recover, TypeOK
    <3> QED BY <3>1 DEF Rash
  <2>4. \/ UNCHANGED <<st, log>>
        \/ op = "restart" /\ st' = "STARTED" /\ log' = NoRefs
        \/ op = "resume" /\ st' = "IN_PROGRESS" /\ log' = log
        \/ op = "retry" /\ st' = "STARTED" /\ log' = log
    BY <1>2 DEF Recover, TargetState, AdminOp, rowVars
  <2>5. \A n \in Run : Shielded(n) => Shielded(n)'
    BY <1>a, <2>3, <2>4 DEF Shielded, NoRefs
  <2>6. (log' = log \/ log' = NoRefs) /\ (st' = "none" => log' = NoRefs)
    BY <2>1, <2>4
  <2> QED BY <2>1, <2>2, <2>5, <2>6, OuterSafe
<1> QED BY <1>1, <1>2

\* The result that is reported or taken over is final.
Recorded == events["completed"] > 0 \/ contract = "EXERCISED" => \E n \in Run : Final(n)

\* The end of a delivery is final.
LEMMA FinishFinal ==
  ASSUME SagaInv, SagaInv', Numbered, NEW r \in Runner, OnItsWay(r), Finish(r)
  PROVE  Final(run[r])'
<1>a. TypeOK /\ pc[r] = "finish" /\ Goto(r, "idle") /\ UNCHANGED <<refs, run, eff>> /\ run[r] \in Run /\ Running(r)
  BY RunFacts DEF SagaInv, Finish, Running
<1>1. Private(r) /\ eff[4][run[r]] = "active" /\ eff[3][run[r]] = "active"
  BY <1>a DEF OnItsWay, PaidBy, DeliveredBy
<1>2. PICK o \in Outcome : Update(r, "COMPLETED", o)
  BY DEF Finish, Outcome
<1>3. Shielded(run[r])'
  BY <1>a, <1>1, <1>2, UpdateFacts DEF Private, Shielded
<1>4. pc'[r] = "idle" /\ \A q \in Runner : q # r => pc'[q] = pc[q]
  BY <1>a DEF Goto, TypeOK
<1>5. \A q \in Runner : Running(q)' => Running(q) /\ q # r
  BY <1>4 DEF Running
<1>6. \A q \in Runner : Running(q)' => run'[q] # run[r] /\ \A s \in Step : refs'[q][s] # run[r]
  BY <1>a, <1>1, <1>5 DEF Numbered, Private
<1> QED BY <1>a, <1>1, <1>3, <1>6 DEF Final

\* Every step keeps what is recorded.
LEMMA RecordedKept ==
  ASSUME SagaInv, SagaInv', Numbered, \A q \in Runner : OnItsWay(q), Recorded, Next,
         \A n \in Run : Final(n) => Final(n)'
  PROVE  Recorded'
<1>a. events \in [{"completed", "failed"} -> Nat] /\ events' \in [{"completed", "failed"} -> Nat]
  BY DEF SagaInv, TypeOK
<1>1. CASE /\ events'["completed"] > 0 => events["completed"] > 0
           /\ contract' = "EXERCISED" => contract = "EXERCISED" \/ events["completed"] > 0
  BY <1>1 DEF Recorded
<1>2. CASE CompleteExercise \/ RevertExercise
  <2>1. /\ events'["completed"] > 0 => events["completed"] > 0
        /\ contract' = "EXERCISED" => contract = "EXERCISED" \/ events["completed"] > 0
    BY <1>2, <1>a DEF CompleteExercise, RevertExercise, Consume
  <2> QED BY <1>1, <2>1
<1>3. CASE ExerciseContract \/ Deliver \/ (\E op \in AdminOp : Recover(op)) \/ Crash
  <2>1. UNCHANGED <<contract, events>>
    BY <1>3 DEF ExerciseContract, Deliver, Recover, Crash, tradingVars
  <2> QED BY <1>1, <2>1
<1>4. ASSUME NEW r \in Runner, Handle(r) PROVE Recorded'
  <2>1. CASE Finish(r)
    <3>1. run[r] \in Run /\ run'[r] = run[r] /\ Final(run[r])'
      BY <2>1, FinishFinal, RunFacts DEF Finish, Running
    <3>2. PICK n \in Run : n = run[r]
      BY <3>1
    <3>3. Final(n)'
      BY <3>1, <3>2
    <3> QED BY <3>3 DEF Recorded
  <2>2. CASE Close(r)
    <3>1. UNCHANGED contract /\ (UNCHANGED events \/ events' = [events EXCEPT !["failed"] = @ + 1])
      BY <2>2 DEF Close
    <3>2. events'["completed"] = events["completed"]
      BY <1>a, <3>1
    <3> QED BY <1>1, <3>1, <3>2
  <2>3. CASE ~Finish(r) /\ ~Close(r)
    <3>1. UNCHANGED <<contract, events>>
      BY <1>4, <2>3 DEF Handle, FindOrInitialize, AdvanceState, Convert, CallStep, SaveStep, ReleaseStep, UndoStep,
           Fail, SkipStep, CompensateStep, tradingVars
    <3> QED BY <1>1, <3>1
  <2> QED BY <2>1, <2>2, <2>3
<1> QED BY <1>2, <1>3, <1>4 DEF Next

\* At the start nothing has been exercised.
LEMMA ExercisedInit == Init => ExercisedInv
<1> SUFFICES ASSUME Init PROVE ExercisedInv
  OBVIOUS
<1>1. SagaInv
  BY SagaInit
<1>2. /\ pc = [r \in Runner |-> "idle"] /\ log = NoRefs /\ eff = [s \in Step |-> [n \in Run |-> "none"]]
      /\ qty = Shares /\ bought = 0 /\ contract = "ACTIVE" /\ events = [k \in {"completed", "failed"} |-> 0]
      /\ nruns = 0
  BY DEF Init
<1>3. Numbered
  BY <1>2 DEF Numbered, Running, NoRefs
<1>4. \A r \in Runner : OnItsWay(r)
  BY <1>2 DEF OnItsWay
<1>5. bought = Cardinality(Active(4)) /\ qty + bought = Shares
  <2>1. 4 \in Step
    BY DEF Step
  <2>2. Active(4) = {}
    BY <1>2, <2>1 DEF Active
  <2>3. bought = Cardinality(Active(4))
    BY <1>2, <2>2, FS_EmptySet
  <2>4. qty + bought = Shares
    BY <1>2, NumberFacts
  <2> QED BY <2>3, <2>4
<1>6. events["completed"] > 0 \/ contract = "EXERCISED" => \E n \in Run : Final(n)
  BY <1>2
<1> QED BY <1>1, <1>3, <1>4, <1>5, <1>6 DEF ExercisedInv

\* Every step keeps the invariant, unless an operator is rash.
LEMMA ExercisedNext ==
  ASSUME env.operator \cap Rash = {}, ExercisedInv, [Next]_vars
  PROVE  ExercisedInv'
<1>a. SagaInv /\ Numbered /\ (\A r \in Runner : OnItsWay(r)) /\ Counted /\ Recorded
  BY DEF ExercisedInv, Counted, Recorded
<1>b. SagaInv'
  BY <1>a, SagaNext
<1>1. CASE UNCHANGED vars
  <2>1. UNCHANGED <<contract, events, st, log, pc, step, refs, run, nruns, eff, qty, bought>>
    BY <1>1 DEF vars, tradingVars, rowVars, runnerVars, stockVars
  <2>2. Numbered' /\ \A r \in Runner : OnItsWay(r)'
    BY <1>a, <2>1 DEF Numbered, OnItsWay, Running, Private, Shielded, DeliveredBy, PaidBy
  <2>3. \A n \in Run : Final(n)' <=> Final(n)
    BY <2>1 DEF Final, Shielded, Running
  <2>4. Counted' /\ Recorded'
    BY <1>a, <2>1, <2>3 DEF Counted, Recorded, Active
  <2> QED BY <1>b, <2>2, <2>4 DEF ExercisedInv, Counted, Recorded
<1>2. CASE Next
  <2>1. /\ Numbered'
        /\ \A q \in Runner : OnItsWay(q)'
        /\ \A n \in Run : Final(n) => Final(n)'
        /\ Counted'
    <3>1. CASE \/ ExerciseContract \/ CompleteExercise \/ RevertExercise
               \/ Deliver \/ (\E op \in AdminOp : Recover(op)) \/ Crash
      <4>1. UNCHANGED <<stockVars, eff>>
        BY <3>1 DEF ExerciseContract, CompleteExercise, RevertExercise, Deliver, Recover, Crash
      <4>2. Counted'
        BY <1>a, <4>1 DEF Counted, Active, stockVars
      <4> QED BY <1>a, <1>b, <3>1, <4>2, OtherSafe
    <3>2. ASSUME NEW r \in Runner, FindOrInitialize(r)
          PROVE  /\ Numbered'
                 /\ \A q \in Runner : OnItsWay(q)'
                 /\ \A n \in Run : Final(n) => Final(n)'
                 /\ Counted'
      <4>1. UNCHANGED <<stockVars, eff>>
        BY <3>2 DEF FindOrInitialize
      <4>2. Counted'
        BY <1>a, <4>1 DEF Counted, Active, stockVars
      <4> QED BY <1>a, <1>b, <3>2, <4>2, FindSafe
    <3>3. ASSUME NEW r \in Runner,
                 \/ AdvanceState(r) \/ Convert(r) \/ CallStep(r) \/ SaveStep(r) \/ ReleaseStep(r) \/ UndoStep(r)
                 \/ Finish(r) \/ Close(r) \/ Fail(r) \/ SkipStep(r) \/ CompensateStep(r)
          PROVE  /\ Numbered'
                 /\ \A q \in Runner : OnItsWay(q)'
                 /\ \A n \in Run : Final(n) => Final(n)'
                 /\ Counted'
      <4>1. Own(r)
        BY <1>a, <1>b, <3>3, StartOwn, ForwardOwn, EndOwn
      <4>2. OnItsWay(r)'
        BY <1>a, <1>b, <3>3, <4>1, OwnWay
      <4>3. Counted'
        BY <1>a, <3>3, OwnCounted
      <4> QED BY <1>a, <1>b, <4>1, <4>2, <4>3, OwnSafe
    <3> QED BY <1>2, <3>1, <3>2, <3>3 DEF Next, Handle
  <2>2. Recorded'
    BY <1>2, <1>a, <1>b, <2>1, RecordedKept
  <2> QED BY <1>b, <2>1, <2>2 DEF ExercisedInv, Counted, Recorded
<1> QED BY <1>1, <1>2

\* Whatever is lost, crashes or is recovered, a contract shown as EXERCISED was
\* paid for and its share delivered (OtcExerciseSagaService, CompleteExercise).
THEOREM ExerciseSafety ==
  ASSUME Cautious
  PROVE  Spec => []ExercisedIsSettled
<1>1. ExercisedInv => ExercisedIsSettled
  <2> SUFFICES ASSUME ExercisedInv, contract = "EXERCISED"
               PROVE  Active(3) # {} /\ Active(4) # {} /\ bought >= 1
    BY DEF ExercisedIsSettled
  <2>1. PICK n \in Run : Final(n)
    BY DEF ExercisedInv
  <2>2. n \in Active(3) /\ n \in Active(4)
    BY <2>1 DEF Final, Active
  <2>3. IsFiniteSet(Active(4)) /\ bought = Cardinality(Active(4)) /\ bought \in Nat
    BY ActiveFinite DEF ExercisedInv, SagaInv
  <2>4. bought # 0
    BY <2>2, <2>3, FS_EmptySet
  <2> QED BY <2>2, <2>3, <2>4
<1>2. ExercisedInv /\ [Next]_vars => ExercisedInv'
  <2> SUFFICES ASSUME ExercisedInv, [Next]_vars PROVE ExercisedInv'
    OBVIOUS
  <2>1. env.operator \cap Rash = {}
    BY DEF ExercisedInv, SagaInv, TypeOK, Cautious
  <2> QED BY <2>1, ExercisedNext
<1> QED BY <1>1, <1>2, ExercisedInit, PTL DEF Spec

-----------------------------------------------------------------------------
(* When every call is answered and runs do not overlap. *)

\* Every call is answered.
LEMMA AnsweredFacts ==
  ASSUME Answered
  PROVE  /\ ~Fault("db") /\ \A o : DbCall(o) => o = "ok"
         /\ \A o \in Outcome : Call(o) => o \in {"ok", "fail"}
<1>1. "db" \notin env.faults /\ "lost" \notin env.faults
  BY DEF Answered
<1> QED BY <1>1 DEF Fault, DbCall, Call, Outcome

\* The row of a run that is alone is not changed under it.
LEMMA AloneWrite ==
  ASSUME SagaInv, Alone, NEW r \in Runner, Running(r), NEW s, Update(r, s, "ok")
  PROVE  Updated(r, "ok") /\ st' = s /\ ver' = ver + 1 /\ (Bump(r, "ok") => myVer'[r] = ver')
<1>1. myVer[r] = ver /\ myVer \in [Runner -> Nat]
  BY DEF Alone, SagaInv, TypeOK
<1>2. Updated(r, "ok")
  BY <1>1 DEF Updated
<1>3. st' = s /\ ver' = ver + 1
  BY <1>1 DEF Update
<1>4. ASSUME Bump(r, "ok") PROVE myVer'[r] = ver'
  <2>1. myVer' = [myVer EXCEPT ![r] = myVer[r] + 1]
    BY <1>2, <1>4 DEF Bump
  <2> QED BY <1>1, <1>3, <2>1
<1> QED BY <1>2, <1>3, <1>4

\* What is known of the one run.
LEMMA AloneFacts ==
  ASSUME SagaInv, Alone, NEW r \in Runner, Running(r)
  PROVE  /\ run[r] = nruns /\ nruns \in Run /\ Forward(r, nruns) /\ Backward(r, nruns) /\ myVer[r] = ver
         /\ st \notin Terminal \cup {"none"} /\ pc[r] # "undo"
         /\ \A q \in Runner : q # r => pc[q] = "idle"
<1>1. run[r] \in Run
  BY RunFacts
<1>2. pc[r] # "idle"
  BY DEF Running
<1> QED BY <1>1, <1>2 DEF Alone

\* It goes on, alone.
LEMMA AloneGoesOn ==
  ASSUME SagaInv, Alone, NEW r \in Runner, Own(r), Running(r)', pc'[r] # "undo",
         myVer'[r] = ver', st' \notin Terminal \cup {"none"}, Forward(r, nruns)', Backward(r, nruns)',
         \A n \in Run : n # nruns => \A s \in Step : eff'[s][n] = eff[s][n]
  PROVE  Alone'
<1>1. /\ Running(r) /\ run' = run /\ nruns' = nruns /\ run[r] = nruns
      /\ \A q \in Runner : q # r => pc'[q] = "idle"
  BY AloneFacts DEF Own
<1>2. \A q \in Runner : Running(q)' => q = r
  BY <1>1 DEF Running
<1>3. Busy' /\ ~(\A q \in Runner : ~Running(q)')
  BY DEF Busy, Running
<1>4. \A n \in Run : n # nruns => Clean(n)'
  BY DEF Alone, Clean
<1>5. \A q, p \in Runner : pc'[q] # "idle" /\ pc'[p] # "idle" => q = p
  BY <1>1
<1>6. \A q \in Runner : Running(q)' =>
        /\ run'[q] = nruns' /\ myVer'[q] = ver' /\ st' \notin Terminal \cup {"none"} /\ pc'[q] # "undo"
        /\ Forward(q, nruns)' /\ Backward(q, nruns)'
  BY <1>1, <1>2
<1> QED BY <1>1, <1>3, <1>4, <1>5, <1>6 DEF Alone

\* It ends, and leaves the row.
LEMMA AloneEnds ==
  ASSUME SagaInv, Alone, NEW r \in Runner, Own(r), pc'[r] = "idle", st' \in Terminal, UNCHANGED eff, AtRest'
  PROVE  Alone'
<1>1. /\ Running(r) /\ run' = run /\ nruns' = nruns /\ run[r] = nruns
      /\ \A q \in Runner : q # r => pc'[q] = "idle"
  BY AloneFacts DEF Own
<1>2. \A q \in Runner : pc'[q] = "idle"
  BY <1>1
<1> QED BY <1>1, <1>2 DEF Alone, Running, Clean

\* A step of the runner that is alone does not bring a new request.
LEMMA UnaskedKept ==
  ASSUME Alone, Unasked, NEW r \in Runner, pc[r] # "idle", pc'[r] # "find",
         \A q \in Runner : q # r => pc'[q] = pc[q], UNCHANGED <<requests, asked, env>>,
         st # "none" => st' # "none"
  PROVE  Unasked'
<1>1. Busy /\ \A q \in Runner : q # r => pc[q] = "idle" /\ pc'[q] = "idle"
  BY DEF Alone, Busy
<1>2. "admin" \in Runner /\ "listener" \in Runner
  BY DEF Runner
<1>3. CASE env.operator = {}
  BY <1>1, <1>2, <1>3 DEF Unasked
<1>4. CASE env.operator # {}
  <2>1. ~(requests > 0) /\ asked # 0
    BY <1>1, <1>4 DEF Unasked
  <2>2. pc'["listener"] # "find"
    BY <1>1, <1>2
  <2>3. pc'["admin"] # "idle" => st' # "none"
    BY <1>1, <1>2, <1>4 DEF Unasked
  <2> QED BY <1>4, <2>1, <2>2, <2>3 DEF Unasked
<1> QED BY <1>3, <1>4

\* The steps before the call of the first one.
LEMMA AloneStart ==
  ASSUME SagaInv, Answered, Alone, NEW r \in Runner, Own(r), AdvanceState(r) \/ Convert(r)
  PROVE  Alone' /\ pc'[r] # "find"
<1>a. TypeOK /\ nruns' = nruns /\ Running(r)
  BY DEF SagaInv, Own
<1>b. /\ nruns \in Run /\ Forward(r, nruns) /\ myVer[r] = ver /\ st \notin Terminal \cup {"none"}
  BY <1>a, AloneFacts
<1>1. CASE AdvanceState(r)
  <2>1. /\ Update(r, "IN_PROGRESS", "ok") /\ Bump(r, "ok")
        /\ Goto(r, IF Updated(r, "ok") THEN "convert" ELSE "idle") /\ UNCHANGED eff /\ pc[r] = "advance"
    BY <1>1, AnsweredFacts DEF AdvanceState
  <2>2. Updated(r, "ok") /\ st' = "IN_PROGRESS" /\ myVer'[r] = ver'
    BY <1>a, <2>1, AloneWrite
  <2>3. pc'[r] = "convert"
    BY <1>a, <2>1, <2>2 DEF Goto, TypeOK
  <2>4. Forward(r, nruns)' /\ Backward(r, nruns)'
    BY <1>a, <1>b, <2>1, <2>3 DEF Forward, Backward, Has
  <2>5. st' \notin Terminal \cup {"none"} /\ Running(r)' /\ pc'[r] # "undo"
    BY <2>2, <2>3 DEF Terminal, Running
  <2> QED BY <2>1, <2>2, <2>3, <2>4, <2>5, AloneGoesOn
<1>2. CASE Convert(r)
  <2>1. UNCHANGED <<rowVars, myVer, eff>> /\ pc[r] = "convert" /\ Has(nruns, "none", "none", "none", "none")
    BY <1>2, <1>b DEF Convert, Forward
  <2>2. pc'[r] = "fail" \/ (pc'[r] = "call" /\ step'[r] = 1)
    BY <1>a, <1>2 DEF Convert, Goto, GotoStep, TypeOK
  <2>3. Forward(r, nruns)' /\ Backward(r, nruns)'
    BY <1>a, <2>1, <2>2 DEF Forward, Backward, Has, Step
  <2>4. myVer'[r] = ver' /\ st' \notin Terminal \cup {"none"} /\ Running(r)' /\ pc'[r] # "undo" /\ pc'[r] # "find"
    BY <1>b, <2>1, <2>2 DEF Running, rowVars
  <2> QED BY <2>1, <2>3, <2>4, AloneGoesOn
<1> QED BY <1>1, <1>2

\* The call of a step.
LEMMA AloneCall ==
  ASSUME SagaInv, Answered, Alone, NEW r \in Runner, Own(r), CallStep(r)
  PROVE  Alone' /\ pc'[r] # "find"
<1>a. TypeOK /\ nruns' = nruns /\ Running(r) /\ InPlace(r) /\ refs \in [Runner -> [Step -> Ref]]
  BY DEF SagaInv, Own, TypeOK
<1>b. /\ nruns \in Run /\ run[r] = nruns /\ Forward(r, nruns) /\ myVer[r] = ver /\ st \notin Terminal \cup {"none"}
  BY <1>a, AloneFacts
<1>c. UNCHANGED <<rowVars, step, myVer>> /\ pc[r] = "call" /\ step[r] \in Step /\ step'[r] = step[r]
  BY <1>a DEF CallStep, InPlace
<1>d. myVer'[r] = ver' /\ st' \notin Terminal \cup {"none"}
  BY <1>b, <1>c DEF rowVars
<1>e. /\ step[r] \in 1..4 /\ Step = {1, 2, 3, 4}
  BY <1>c DEF Step
<1>f. /\ step[r] = 1 => Has(nruns, "none", "none", "none", "none")
      /\ step[r] = 2 => Has(nruns, "active", "none", "none", "none")
      /\ step[r] = 3 => Has(nruns, "undone", "active", "none", "none")
      /\ step[r] = 4 => Has(nruns, "undone", "active", "active", "none")
      /\ \A s \in Step : s < step[r] => refs[r][s] = nruns
  BY <1>b, <1>c DEF Forward
<1>1. PICK o \in Outcome :
        /\ Call(o)
        /\ IF o # "fail" /\ CanDo(step[r], run[r])
           THEN Do(step[r], run[r]) ELSE UNCHANGED <<stockVars, eff>>
        /\ IF Succeeded(o, step[r], run[r])
           THEN Goto(r, "save") /\ refs' = [refs EXCEPT ![r][step[r]] = run[r]]
           ELSE Goto(r, "fail") /\ UNCHANGED refs
  BY DEF CallStep
<1>2. CASE Succeeded(o, step[r], run[r])
  <2>1. Do(step[r], nruns) /\ pc'[r] = "save" /\ refs' = [refs EXCEPT ![r][step[r]] = nruns]
    BY <1>a, <1>b, <1>1, <1>2 DEF Succeeded, Goto, TypeOK
  <2>2. /\ eff'[step[r]][nruns] = "active" /\ (step[r] = 4 => eff'[2][nruns] = "committed")
        /\ \A t \in Step, m \in Run : m # nruns \/ (t # step[r] /\ ~(step[r] = 4 /\ t = 2)) => eff'[t][m] = eff[t][m]
    BY <1>a, <1>b, <1>c, <2>1, DoRows
  <2>3. \A s \in Step : s =< step[r] => refs'[r][s] = nruns
    BY <1>a, <1>c, <1>e, <1>f, <2>1
  <2>4. /\ step[r] = 1 => Has(nruns, "active", "none", "none", "none")'
        /\ step[r] = 2 => Has(nruns, "active", "active", "none", "none")'
        /\ step[r] = 3 => Has(nruns, "undone", "active", "active", "none")'
        /\ step[r] = 4 => Has(nruns, "undone", "committed", "active", "active")'
    BY <1>a, <1>b, <1>e, <1>f, <2>2 DEF Has
  <2>5. Forward(r, nruns)' /\ Backward(r, nruns)'
    BY <1>a, <1>c, <2>1, <2>3, <2>4 DEF Forward, Backward
  <2>6. Running(r)' /\ pc'[r] # "undo" /\ pc'[r] # "find"
    BY <2>1 DEF Running
  <2> QED BY <1>d, <2>2, <2>5, <2>6, AloneGoesOn
<1>3. CASE ~Succeeded(o, step[r], run[r])
  <2>1. pc'[r] = "fail" /\ UNCHANGED <<refs, eff>>
    <3>1. o = "fail" \/ ~CanDo(step[r], run[r])
      BY <1>1, <1>3, AnsweredFacts DEF Succeeded
    <3> QED BY <1>a, <1>1, <1>3, <3>1 DEF Goto, TypeOK
  <2>2. /\ eff[4][nruns] = "none" /\ (\A s \in Step : eff[s][nruns] # "committed")
        /\ \A s \in Step : eff[s][nruns] = "active" => refs[r][s] = nruns
    BY <1>e, <1>f DEF Has
  <2>3. Forward(r, nruns)' /\ Backward(r, nruns)'
    BY <1>a, <2>1, <2>2 DEF Forward, Backward
  <2>4. Running(r)' /\ pc'[r] # "undo" /\ pc'[r] # "find"
    BY <2>1 DEF Running
  <2> QED BY <1>d, <2>1, <2>3, <2>4, AloneGoesOn
<1> QED BY <1>2, <1>3

\* The save after it, and the release of the funds.
LEMMA AloneSave ==
  ASSUME SagaInv, Answered, Alone, NEW r \in Runner, Own(r), SaveStep(r) \/ ReleaseStep(r)
  PROVE  Alone' /\ pc'[r] # "find"
<1>a. TypeOK /\ nruns' = nruns /\ Running(r) /\ InPlace(r) /\ eff \in [Step -> [Run -> Effect]]
  BY DEF SagaInv, Own, TypeOK
<1>b. /\ nruns \in Run /\ run[r] = nruns /\ Forward(r, nruns) /\ myVer[r] = ver /\ st \notin Terminal \cup {"none"}
      /\ Step = {1, 2, 3, 4}
  BY <1>a, AloneFacts DEF Step
<1>1. CASE SaveStep(r)
  <2>1. /\ Update(r, "IN_PROGRESS", "ok") /\ Bump(r, "ok") /\ UNCHANGED <<refs, eff>> /\ pc[r] = "save"
        /\ IF Updated(r, "ok")
           THEN GotoStep(r, AfterSave(step[r]), IF step[r] = 4 THEN 4 ELSE step[r] + 1)
           ELSE Goto(r, "undo") /\ UNCHANGED step
    BY <1>1, AnsweredFacts DEF SaveStep
  <2>2. Updated(r, "ok") /\ st' = "IN_PROGRESS" /\ myVer'[r] = ver'
    BY <1>a, <2>1, AloneWrite
  <2>3. pc'[r] = AfterSave(step[r]) /\ step'[r] = (IF step[r] = 4 THEN 4 ELSE step[r] + 1) /\ step[r] \in 1..4
    BY <1>a, <2>1, <2>2 DEF GotoStep, Goto, TypeOK, InPlace, Step
  <2>4. Forward(r, nruns)' /\ Backward(r, nruns)'
    <3>1. /\ step[r] = 1 => Has(nruns, "active", "none", "none", "none")
          /\ step[r] = 2 => Has(nruns, "active", "active", "none", "none")
          /\ step[r] = 3 => Has(nruns, "undone", "active", "active", "none")
          /\ step[r] = 4 => Has(nruns, "undone", "committed", "active", "active")
          /\ \A s \in Step : s =< step[r] => refs[r][s] = nruns
      BY <1>b, <2>1 DEF Forward
    <3>2. \A a, b, c, d : Has(nruns, a, b, c, d) => Has(nruns, a, b, c, d)'
      BY <1>a, <2>1 DEF Has
    <3>3. \/ step[r] = 1 /\ pc'[r] = "call" /\ step'[r] = 2
          \/ step[r] = 2 /\ pc'[r] = "release" /\ step'[r] = 3
          \/ step[r] = 3 /\ pc'[r] = "call" /\ step'[r] = 4
          \/ step[r] = 4 /\ pc'[r] = "finish"
      BY <2>3 DEF AfterSave
    <3>4. \A s \in Step : s \in 1..4
      BY DEF Step
    <3>5. Forward(r, nruns)'
      BY <1>a, <1>b, <2>1, <3>1, <3>2, <3>3, <3>4 DEF Forward
    <3> QED BY <3>3, <3>5 DEF Backward
  <2>5. st' \notin Terminal \cup {"none"} /\ Running(r)' /\ pc'[r] # "undo" /\ pc'[r] # "find"
    BY <2>2, <2>3 DEF Terminal, Running, AfterSave
  <2> QED BY <2>1, <2>2, <2>4, <2>5, AloneGoesOn
<1>2. CASE ReleaseStep(r)
  <2>0. UNCHANGED <<rowVars, step, refs, myVer>> /\ pc[r] = "release" /\ step[r] = 3
    BY <1>2, <1>a DEF ReleaseStep, InPlace
  <2>1. PICK o \in {"ok", "fail"} :
          /\ eff' = (IF o # "fail" /\ eff[1][run[r]] = "active"
                     THEN [eff EXCEPT ![1][run[r]] = "undone"] ELSE eff)
          /\ Goto(r, IF o = "ok" THEN "call" ELSE "fail")
    BY <1>2, AnsweredFacts DEF ReleaseStep
  <2>2. Has(nruns, "active", "active", "none", "none") /\ refs[r][1] = nruns /\ refs[r][2] = nruns
    BY <1>b, <2>0 DEF Forward
  <2>3. myVer'[r] = ver' /\ st' \notin Terminal \cup {"none"}
    BY <1>b, <2>0 DEF rowVars
  <2>4. CASE o = "ok"
    <3>1. pc'[r] = "call" /\ step'[r] = 3
      BY <1>a, <2>0, <2>1, <2>4 DEF Goto, TypeOK
    <3>2. eff' = [eff EXCEPT ![1][nruns] = "undone"]
      BY <1>b, <2>1, <2>2, <2>4 DEF Has
    <3>3. /\ eff'[1][nruns] = "undone"
          /\ \A t \in Step, m \in Run : t # 1 \/ m # nruns => eff'[t][m] = eff[t][m]
      BY <1>a, <1>b, <3>2, EffUpdate
    <3>4. Has(nruns, "undone", "active", "none", "none")'
      BY <1>a, <1>b, <2>2, <3>3 DEF Has
    <3>5. Forward(r, nruns)' /\ Backward(r, nruns)'
      BY <1>a, <1>b, <2>0, <2>2, <3>1, <3>4 DEF Forward, Backward
    <3>6. Running(r)' /\ pc'[r] # "undo" /\ pc'[r] # "find"
      BY <3>1 DEF Running
    <3> QED BY <1>b, <2>3, <3>3, <3>5, <3>6, AloneGoesOn
  <2>5. CASE o = "fail"
    <3>1. pc'[r] = "fail" /\ UNCHANGED eff
      BY <1>a, <2>1, <2>5 DEF Goto, TypeOK
    <3>2. Forward(r, nruns)' /\ Backward(r, nruns)'
      BY <1>a, <1>b, <2>0, <2>2, <3>1 DEF Forward, Backward, Has
    <3>3. Running(r)' /\ pc'[r] # "undo" /\ pc'[r] # "find"
      BY <3>1 DEF Running
    <3> QED BY <2>3, <3>1, <3>2, <3>3, AloneGoesOn
  <2> QED BY <2>4, <2>5
<1> QED BY <1>1, <1>2

\* The compensation.
LEMMA AloneBack ==
  ASSUME SagaInv, Answered, Alone, NEW r \in Runner, Own(r), Fail(r) \/ SkipStep(r)
  PROVE  Alone' /\ pc'[r] # "find"
<1>a. TypeOK /\ nruns' = nruns /\ Running(r) /\ InPlace(r)
  BY DEF SagaInv, Own
<1>b. /\ nruns \in Run /\ run[r] = nruns /\ Backward(r, nruns) /\ myVer[r] = ver /\ st \notin Terminal \cup {"none"}
      /\ Step = {1, 2, 3, 4}
  BY <1>a, AloneFacts DEF Step
<1>1. CASE Fail(r)
  <2>1. /\ Update(r, "COMPENSATING", "ok") /\ Bump(r, "ok") /\ UNCHANGED <<refs, eff>> /\ pc[r] = "fail"
        /\ GotoStep(r, "compensate", 4)
    BY <1>1, AnsweredFacts, Zenon DEF Fail
  <2>2. st' = "COMPENSATING" /\ myVer'[r] = ver'
    BY <1>a, <2>1, AloneWrite
  <2>3. pc'[r] = "compensate" /\ step'[r] = 4
    BY <1>a, <2>1 DEF GotoStep, Goto, TypeOK
  <2>4. Forward(r, nruns)' /\ Backward(r, nruns)'
    BY <1>a, <1>b, <2>1, <2>3 DEF Forward, Backward
  <2>5. st' \notin Terminal \cup {"none"} /\ Running(r)' /\ pc'[r] # "undo" /\ pc'[r] # "find"
    BY <2>2, <2>3 DEF Terminal, Running
  <2> QED BY <2>1, <2>2, <2>4, <2>5, AloneGoesOn
<1>2. CASE SkipStep(r)
  <2>1. /\ UNCHANGED <<rowVars, refs, myVer, allOK, eff>> /\ pc[r] = "compensate" /\ refs[r][step[r]] = 0
        /\ NextComp(r) /\ step[r] \in Step
    BY <1>2, <1>a DEF SkipStep, InPlace
  <2>2. \/ step[r] = 1 /\ pc'[r] = "close"
        \/ step[r] # 1 /\ pc'[r] = "compensate" /\ step'[r] = step[r] - 1
    BY <1>a, <2>1, NextCompFacts
  <2>3. /\ eff[4][nruns] = "none" /\ (\A s \in Step : eff[s][nruns] # "committed")
        /\ \A s \in Step : eff[s][nruns] = "active" => (refs[r][s] = nruns /\ s =< step[r]) \/ ~allOK[r]
    BY <1>b, <2>1 DEF Backward
  <2>4. \A s \in Step : eff[s][nruns] = "active" /\ allOK[r] => refs[r][s] = nruns /\ s =< step[r] - 1
    <3>1. ASSUME NEW s \in Step, eff[s][nruns] = "active", allOK[r] PROVE refs[r][s] = nruns /\ s =< step[r] - 1
      <4>1. refs[r][s] = nruns /\ s =< step[r]
        BY <2>3, <3>1
      <4>2. nruns # 0
        BY <1>b, NumberFacts
      <4>3. s # step[r]
        BY <2>1, <4>1, <4>2
      <4> QED BY <1>b, <2>1, <4>1, <4>3
    <3> QED BY <3>1
  <2>5. Forward(r, nruns)'
    BY <2>2 DEF Forward
  <2>6. Backward(r, nruns)'
    BY <1>a, <1>b, <2>1, <2>2, <2>3, <2>4 DEF Backward
  <2>7. myVer'[r] = ver' /\ st' \notin Terminal \cup {"none"} /\ Running(r)' /\ pc'[r] # "undo" /\ pc'[r] # "find"
    BY <1>b, <2>1, <2>2 DEF Running, rowVars
  <2> QED BY <2>1, <2>5, <2>6, <2>7, AloneGoesOn
<1> QED BY <1>1, <1>2

\* An attempt of a compensator.
LEMMA AloneCompensate ==
  ASSUME SagaInv, Answered, Alone, NEW r \in Runner, Own(r), CompensateStep(r)
  PROVE  Alone' /\ pc'[r] # "find"
<1>a. TypeOK /\ nruns' = nruns /\ Running(r) /\ InPlace(r) /\ UNCHANGED refs /\ allOK \in [Runner -> BOOLEAN]
  BY DEF SagaInv, Own, CompensateStep, TypeOK
<1>b. /\ nruns \in Run /\ run[r] = nruns /\ Backward(r, nruns) /\ myVer[r] = ver /\ st \notin Terminal \cup {"none"}
      /\ Step = {1, 2, 3, 4}
  BY <1>a, AloneFacts DEF Step
<1>c. pc[r] = "compensate" /\ step[r] \in Step /\ tries[r] < MaxTries /\ tries[r] \in Nat /\ MaxTries \in Nat
  BY <1>a, NumberFacts DEF CompensateStep, InPlace, TypeOK
<1>d. refs[r][step[r]] \in Ref /\ refs[r][step[r]] # 0
  BY <1>a, <1>c DEF CompensateStep, TypeOK
<1>1. PICK o \in {"ok", "fail"} :
        /\ Update(r, "COMPENSATING", "ok") /\ Bump(r, "ok")
        /\ IF o # "fail" THEN Undo(step[r], refs[r][step[r]]) ELSE UNCHANGED <<stockVars, eff>>
        /\ IF o = "ok" \/ tries[r] + 1 = MaxTries
           THEN NextComp(r) ELSE UNCHANGED <<pc, step>>
        /\ allOK' = [allOK EXCEPT ![r] = @ /\ (o = "ok" \/ tries[r] + 1 < MaxTries)]
  BY AnsweredFacts DEF CompensateStep
<1>2. st' = "COMPENSATING" /\ myVer'[r] = ver'
  BY <1>a, <1>1, AloneWrite
<1>3. /\ eff[4][nruns] = "none" /\ (\A s \in Step : eff[s][nruns] # "committed")
      /\ \A s \in Step : eff[s][nruns] = "active" => (refs[r][s] = nruns /\ s =< step[r]) \/ ~allOK[r]
  BY <1>b, <1>c DEF Backward
<1>4. allOK'[r] <=> allOK[r] /\ (o = "ok" \/ tries[r] + 1 < MaxTries)
  <2>1. allOK' = [allOK EXCEPT ![r] = allOK[r] /\ (o = "ok" \/ tries[r] + 1 < MaxTries)]
    BY <1>1, Zenon
  <2>2. allOK \in [Runner -> BOOLEAN]
    BY <1>a
  <2> QED BY <2>1, <2>2, Zenon
<1>5. \A s \in Step, m \in Run : eff'[s][m] = eff[s][m] \/ (o = "ok" /\ s = step[r] /\ m = nruns /\ eff'[s][m] = "undone")
  <2>1. CASE o = "ok"
    <3>1. Undo(step[r], refs[r][step[r]]) /\ refs[r][step[r]] \in Run
      BY <1>d, <1>1, <2>1, NumberFacts
    <3>2. /\ eff'[step[r]][refs[r][step[r]]] = (IF eff[step[r]][refs[r][step[r]]] = "active" THEN "undone"
                                                ELSE eff[step[r]][refs[r][step[r]]])
          /\ \A t \in Step, m \in Run : t # step[r] \/ m # refs[r][step[r]] => eff'[t][m] = eff[t][m]
      BY <1>a, <1>c, <1>d, <3>1, UndoRows
    <3>3. refs[r][step[r]] # nruns => eff[step[r]][refs[r][step[r]]] # "active"
      BY <1>c, <3>1 DEF Alone, Clean
    <3> QED BY <2>1, <3>2, <3>3
  <2>2. CASE o # "ok"
    BY <1>1, <2>2
  <2> QED BY <2>1, <2>2
<1>6. o = "ok" => eff'[step[r]][nruns] # "active" \/ ~allOK[r]
  <2>1. SUFFICES ASSUME o = "ok", eff[step[r]][nruns] = "active", allOK[r] PROVE eff'[step[r]][nruns] # "active"
    BY <1>b, <1>c, <1>5
  <2>2. refs[r][step[r]] = nruns
    BY <1>c, <1>3, <2>1
  <2>3. Undo(step[r], nruns) /\ nruns \in Ref
    BY <1>1, <1>d, <2>1, <2>2
  <2> QED BY <1>a, <1>b, <1>c, <2>1, <2>3, UndoRows
<1>7. /\ eff'[4][nruns] = "none" /\ (\A s \in Step : eff'[s][nruns] # "committed")
      /\ \A s \in Step : eff'[s][nruns] = "active" => eff[s][nruns] = "active"
  <2>1. \A s \in Step : eff'[s][nruns] # "committed" /\ (eff'[s][nruns] = "active" => eff[s][nruns] = "active")
    BY <1>b, <1>3, <1>5
  <2>2. eff'[4][nruns] = "none"
    <3>1. eff[4][nruns] = "none" /\ 4 \in Step
      BY <1>b, <1>3
    <3>2. step[r] = 4 /\ o = "ok" => eff'[4][nruns] = "none"
      <4>1. SUFFICES ASSUME step[r] = 4, o = "ok" PROVE eff'[4][nruns] = "none"
        OBVIOUS
      <4>2. Undo(4, refs[r][4]) /\ refs[r][4] \in Ref
        BY <1>1, <1>d, <4>1
      <4>3. refs[r][4] \in Run
        BY <1>d, <4>1, NumberFacts
      <4> QED BY <1>a, <1>b, <3>1, <4>2, <4>3, UndoRows
    <3> QED BY <1>b, <1>5, <3>1, <3>2
  <2> QED BY <2>1, <2>2
<1>8. Running(r)' /\ pc'[r] # "undo" /\ pc'[r] # "find" /\ Forward(r, nruns)' /\ Backward(r, nruns)'
  <2>1. CASE o = "ok" \/ tries[r] + 1 = MaxTries
    <3>1. NextComp(r)
      BY <1>1, <2>1
    <3>2. \/ step[r] = 1 /\ pc'[r] = "close"
          \/ step[r] # 1 /\ pc'[r] = "compensate" /\ step'[r] = step[r] - 1
      BY <1>a, <1>c, <3>1, NextCompFacts
    <3>3. \A s \in Step : eff'[s][nruns] = "active" /\ allOK'[r] => refs[r][s] = nruns /\ s =< step[r] - 1
      <4>1. ASSUME NEW s \in Step, eff'[s][nruns] = "active", allOK'[r] PROVE refs[r][s] = nruns /\ s =< step[r] - 1
        <5>1. allOK[r] /\ o = "ok"
          <6>1. allOK[r] /\ (o = "ok" \/ tries[r] + 1 < MaxTries)
            BY <1>4, <4>1, Zenon
          <6>2. tries[r] + 1 < MaxTries => tries[r] + 1 # MaxTries
            BY <1>c
          <6> QED BY <2>1, <6>1, <6>2
        <5>2. refs[r][s] = nruns /\ s =< step[r]
          BY <1>3, <1>7, <4>1, <5>1
        <5>3. s # step[r]
          BY <1>6, <4>1, <5>1
        <5> QED BY <1>b, <1>c, <5>2, <5>3
      <4> QED BY <4>1
    <3>4. Forward(r, nruns)' /\ Running(r)' /\ pc'[r] # "undo" /\ pc'[r] # "find"
      BY <3>2 DEF Forward, Running
    <3>5. Backward(r, nruns)'
      BY <1>a, <1>b, <1>7, <3>2, <3>3 DEF Backward
    <3> QED BY <3>4, <3>5
  <2>2. CASE ~(o = "ok" \/ tries[r] + 1 = MaxTries)
    <3>1. UNCHANGED <<pc, step>>
      BY <1>1, <2>2
    <3>2. tries[r] + 1 < MaxTries
      BY <1>c, <2>2
    <3>3. allOK'[r] <=> allOK[r]
      BY <1>4, <3>2, Zenon
    <3>4. \A s \in Step : eff'[s][nruns] = "active" => (refs[r][s] = nruns /\ s =< step[r]) \/ ~allOK'[r]
      BY <1>3, <1>7, <3>3, Zenon
    <3>5. Forward(r, nruns)' /\ Running(r)' /\ pc'[r] # "undo" /\ pc'[r] # "find"
      BY <1>c, <3>1 DEF Forward, Running
    <3>6. Backward(r, nruns)'
      BY <1>a, <1>b, <1>c, <1>7, <3>1, <3>4 DEF Backward
    <3> QED BY <3>5, <3>6
  <2> QED BY <2>1, <2>2
<1>9. st' \notin Terminal \cup {"none"}
  BY <1>2 DEF Terminal
<1> QED BY <1>2, <1>5, <1>8, <1>9, AloneGoesOn

\* The end of a run, either way.
LEMMA AloneEnd ==
  ASSUME SagaInv, Answered, Alone, NEW r \in Runner, Own(r), Finish(r) \/ Close(r)
  PROVE  Alone' /\ pc'[r] # "find"
<1>a. /\ TypeOK /\ nruns' = nruns /\ Running(r) /\ UNCHANGED eff /\ eff \in [Step -> [Run -> Effect]]
      /\ pc'[r] = "idle" /\ allOK \in [Runner -> BOOLEAN]
  BY DEF SagaInv, Own, Finish, Close, Goto, TypeOK
<1>b. /\ nruns \in Run /\ Forward(r, nruns) /\ Backward(r, nruns) /\ Step = {1, 2, 3, 4}
      /\ \A n \in Run : n # nruns => Clean(n)
  BY <1>a, AloneFacts DEF Alone, Step
<1>1. CASE Finish(r)
  <2>1. Update(r, "COMPLETED", "ok") /\ pc[r] = "finish"
    BY <1>1, AnsweredFacts DEF Finish
  <2>2. st' = "COMPLETED"
    BY <1>a, <2>1, AloneWrite
  <2>3. Has(nruns, "undone", "committed", "active", "active")
    BY <1>b, <2>1 DEF Forward
  <2>4. AtRest'
    BY <1>a, <1>b, <2>2, <2>3 DEF AtRest, Has
  <2> QED BY <1>a, <2>2, <2>4, AloneEnds DEF Terminal
<1>2. CASE Close(r)
  <2>1. Update(r, Verdict(allOK[r]), "ok") /\ pc[r] = "close"
    BY <1>2, AnsweredFacts DEF Close
  <2>2. st' = Verdict(allOK[r])
    BY <1>a, <2>1, AloneWrite
  <2>3. /\ eff[4][nruns] = "none" /\ (\A s \in Step : eff[s][nruns] # "committed")
        /\ \A s \in Step : eff[s][nruns] = "active" => ~allOK[r]
    BY <1>b, <2>1 DEF Backward
  <2>4. \A n \in Run : eff'[4][n] # "active"
    BY <1>a, <1>b, <2>3 DEF Clean
  <2>5. ASSUME allOK[r] PROVE \A n \in Run : Clean(n)'
    <3>1. \A s \in Step : eff[s][nruns] \in {"none", "undone"}
      BY <1>a, <1>b, <2>3, <2>5 DEF Effect
    <3>2. \A n \in Run : Clean(n)
      BY <1>b, <3>1 DEF Clean
    <3> QED BY <1>a, <3>2 DEF Clean
  <2>6. AtRest'
    <3>1. CASE allOK[r]
      BY <2>2, <2>4, <2>5, <3>1 DEF AtRest, Verdict
    <3>2. CASE ~allOK[r]
      BY <2>2, <2>4, <3>2 DEF AtRest, Verdict
    <3> QED BY <3>1, <3>2
  <2>7. st' \in Terminal
    BY <2>2 DEF Verdict, Terminal
  <2> QED BY <1>a, <2>6, <2>7, AloneEnds
<1> QED BY <1>1, <1>2

\* A new run, or a saga that needs none.
LEMMA AloneFind ==
  ASSUME SagaInv, Numbered, Answered, Alone, NEW r \in Runner, FindOrInitialize(r)
  PROVE  /\ Alone' /\ pc'[r] # "find" /\ (\A q \in Runner : q # r => pc'[q] = pc[q])
         /\ st # "none" => st' # "none"
<1>a. TypeOK /\ UNCHANGED eff /\ pc[r] = "find" /\ eff \in [Step -> [Run -> Effect]] /\ 1..4 = Step
  BY DEF SagaInv, FindOrInitialize, TypeOK, Step
<1>b. /\ \A q \in Runner : q # r => pc[q] = "idle"
      /\ \A q \in Runner : ~Running(q)
  BY <1>a DEF Alone, Running
<1>c. AtRest /\ (\A n \in Run : n # nruns => Clean(n)) /\ nruns \in Nat /\ MaxRuns \in Nat
  BY <1>b, RunFacts, NumberFacts DEF Alone
<1>1. CASE SkipState(st) /\ Goto(r, "idle") /\ UNCHANGED <<rowVars, refs, myVer, run, nruns>>
  <2>1. pc'[r] = "idle" /\ \A q \in Runner : q # r => pc'[q] = pc[q]
    BY <1>a, <1>1 DEF Goto, TypeOK
  <2>2. \A q \in Runner : pc'[q] = "idle"
    BY <1>b, <2>1
  <2>3. st' = st /\ st \in Terminal
    BY <1>1 DEF rowVars, SkipState
  <2>4. AtRest' /\ \A n \in Run : n # nruns' => Clean(n)'
    BY <1>a, <1>c, <1>1, <2>3 DEF AtRest, Clean, Has
  <2>5. Alone'
    BY <2>2, <2>3, <2>4 DEF Alone, Running
  <2> QED BY <2>1, <2>3, <2>5
<1>2. CASE /\ ~SkipState(st) /\ nruns < MaxRuns
           /\ nruns' = nruns + 1
           /\ run' = [run EXCEPT ![r] = nruns + 1]
           /\ st' = (IF st = "none" THEN "STARTED" ELSE st)
           /\ myVer' = [myVer EXCEPT ![r] = ver]
           /\ Goto(r, "advance")
           /\ UNCHANGED ver
  <2>1. pc'[r] = "advance" /\ (\A q \in Runner : q # r => pc'[q] = "idle") /\ run'[r] = nruns' /\ myVer'[r] = ver'
    BY <1>a, <1>b, <1>2 DEF Goto, TypeOK
  <2>2. st' \notin Terminal \cup {"none"} /\ st \notin {"COMPLETED", "FAILED"}
    BY <1>2 DEF SkipState, Terminal
  <2>3. \A n \in Run : Clean(n)
    BY <1>c, <2>2 DEF AtRest
  <2>4. nruns' \in Run /\ \A s \in Step : eff'[s][nruns'] = "none"
    <3>1. nruns' \in Run /\ ~(nruns' =< nruns)
      BY <1>c, <1>2 DEF Run
    <3> QED BY <1>a, <3>1 DEF Numbered
  <2>5. Forward(r, nruns)' /\ Backward(r, nruns)'
    <3>1. Has(nruns, "none", "none", "none", "none")'
      BY <1>a, <2>4 DEF Has
    <3> QED BY <2>1, <3>1 DEF Forward, Backward
  <2>6. \A q \in Runner : Running(q)' => q = r
    BY <2>1 DEF Running
  <2>7. Running(r)' /\ Busy'
    BY <2>1 DEF Running, Busy
  <2>8. \A n \in Run : Clean(n)'
    BY <1>a, <2>3 DEF Clean
  <2>9. \A q \in Runner : Running(q)' =>
          /\ run'[q] = nruns' /\ myVer'[q] = ver' /\ st' \notin Terminal \cup {"none"} /\ pc'[q] # "undo"
          /\ Forward(q, nruns)' /\ Backward(q, nruns)'
    BY <2>1, <2>2, <2>5, <2>6
  <2>10. Alone'
    BY <2>1, <2>7, <2>8, <2>9 DEF Alone
  <2> QED BY <1>b, <2>1, <2>2, <2>10
<1>3. ~Fault("db")
  BY AnsweredFacts
<1> QED BY <1>1, <1>2, <1>3 DEF FindOrInitialize

\* Steps of trading-service and the operator.
LEMMA AloneOther ==
  ASSUME SagaInv, Answered, OneRun, Alone, Unasked, UNCHANGED env,
         \/ ExerciseContract \/ CompleteExercise \/ RevertExercise
         \/ Deliver \/ (\E op \in AdminOp : Recover(op)) \/ Crash
  PROVE  Alone' /\ Unasked'
<1>a. /\ TypeOK /\ requests \in Nat /\ asked \in Nat /\ env.requests \in Nat
      /\ "listener" \in Runner /\ "admin" \in Runner /\ \A q \in Runner : q = "listener" \/ q = "admin"
  BY EnvFacts DEF SagaInv, TypeOK, Runner
<1>b. UNCHANGED <<st, ver, pc, step, refs, myVer, run, allOK, nruns, eff>> => Alone'
  BY DEF Alone, Busy, Running, Forward, Backward, Has, Clean, AtRest
<1>1. CASE ExerciseContract
  <2>1. /\ UNCHANGED <<rowVars, runnerVars, eff>> /\ asked < env.requests /\ asked' = asked + 1
        /\ requests' \in {requests, requests + 1}
    BY <1>1 DEF ExerciseContract
  <2>2. Alone'
    BY <1>b, <2>1 DEF rowVars, runnerVars
  <2>3. UNCHANGED <<st, nruns, pc, env>>
    BY <2>1 DEF rowVars, runnerVars
  <2>4. CASE env.operator = {}
    BY <2>2, <2>3, <2>4 DEF Unasked
  <2>5. CASE env.operator # {}
    <3>1. asked = 0 /\ asked' = 1
      BY <1>a, <2>1, <2>5 DEF OneRun
    <3>2. st = "none" /\ nruns = 0 /\ ~Busy /\ ~(requests > 0)
      BY <2>5, <3>1 DEF Unasked
    <3>3. requests' \in {0, 1}
      BY <1>a, <2>1, <3>2
    <3>4. \A q \in Runner : pc[q] = "idle"
      BY <3>2 DEF Busy
    <3> QED BY <1>a, <2>2, <2>3, <2>5, <3>1, <3>2, <3>3, <3>4 DEF Unasked, Busy
  <2> QED BY <2>2, <2>4, <2>5
<1>2. CASE CompleteExercise \/ RevertExercise
  <2>1. UNCHANGED <<rowVars, runnerVars, eff, requests, asked>>
    BY <1>2 DEF CompleteExercise, RevertExercise
  <2>2. Alone'
    BY <1>b, <2>1 DEF rowVars, runnerVars
  <2> QED BY <2>1, <2>2 DEF Unasked, Busy, rowVars, runnerVars
<1>3. CASE Deliver
  <2>1. /\ UNCHANGED <<rowVars, step, refs, myVer, run, allOK, nruns, eff, asked>>
        /\ requests > 0 /\ requests' = requests - 1 /\ pc["listener"] = "idle"
        /\ pc' = [pc EXCEPT !["listener"] = "find"]
    BY <1>3 DEF Deliver, Goto
  <2>2. pc["admin"] = "idle"
    BY <1>a, <2>1 DEF Unasked, Busy
  <2>3. pc'["listener"] = "find" /\ pc'["admin"] = "idle"
    BY <1>a, <2>1, <2>2 DEF TypeOK
  <2>4. \A q \in Runner : ~Running(q) /\ ~Running(q)'
    BY <1>a, <2>1, <2>2, <2>3 DEF Running
  <2>5. UNCHANGED <<st, nruns, eff, env, asked>>
    BY <2>1 DEF rowVars
  <2>6. AtRest' /\ \A n \in Run : n # nruns' => Clean(n)'
    BY <2>4, <2>5 DEF Alone, AtRest, Clean, Has
  <2>7. Alone'
    <3>1. Busy'
      BY <1>a, <2>3 DEF Busy
    <3>2. \A q, p \in Runner : pc'[q] # "idle" /\ pc'[p] # "idle" => q = p
      BY <1>a, <2>3
    <3> QED BY <2>4, <2>6, <3>1, <3>2 DEF Alone
  <2>8. Unasked'
    <3>1. CASE env.operator = {}
      BY <2>3, <2>5, <3>1 DEF Unasked
    <3>2. CASE env.operator # {}
      <4>1. requests' = 0 /\ st = "none" /\ nruns = 0 /\ asked = 1
        BY <2>1, <3>2 DEF Unasked
      <4> QED BY <2>3, <2>5, <3>2, <4>1 DEF Unasked
    <3> QED BY <3>1, <3>2
  <2> QED BY <2>7, <2>8
<1>4. ASSUME NEW op \in AdminOp, Recover(op) PROVE Alone' /\ Unasked'
  <2>1. /\ UNCHANGED <<tradingVars, step, refs, myVer, run, allOK, nruns, eff>> /\ <<op, st>> \in env.operator
        /\ pc["admin"] = "idle" /\ pc' = [pc EXCEPT !["admin"] = "find"]
    BY <1>4 DEF Recover, Goto
  <2>2. st = "COMPENSATED" /\ env.operator # {}
    BY <2>1 DEF OneRun
  <2>3. pc["listener"] = "idle"
    <3>1. pc["listener"] # "find"
      BY <2>2 DEF Unasked
    <3>2. ~Running("listener")
      BY <1>a, <2>2 DEF Alone, Terminal
    <3> QED BY <3>1, <3>2 DEF Running
  <2>4. pc'["admin"] = "find" /\ pc'["listener"] = "idle"
    BY <1>a, <2>1, <2>3 DEF TypeOK
  <2>5. \A q \in Runner : ~Running(q) /\ ~Running(q)'
    BY <1>a, <2>1, <2>3, <2>4 DEF Running
  <2>6. st' \in {"IN_PROGRESS", "STARTED"}
    BY <1>4, <2>2 DEF Recover, TargetState
  <2>7. \A n \in Run : Clean(n)'
    BY <2>1, <2>2, <2>5 DEF Alone, AtRest, Clean
  <2>8. AtRest'
    BY <2>6, <2>7 DEF AtRest
  <2>9. Alone'
    <3>1. Busy'
      BY <1>a, <2>4 DEF Busy
    <3>2. \A q, p \in Runner : pc'[q] # "idle" /\ pc'[p] # "idle" => q = p
      BY <1>a, <2>4
    <3> QED BY <2>5, <2>7, <2>8, <3>1, <3>2 DEF Alone
  <2>10. Unasked'
    <3>1. ~(requests > 0) /\ asked # 0 /\ UNCHANGED <<requests, asked>>
      BY <2>1, <2>2 DEF Unasked, tradingVars
    <3> QED BY <2>2, <2>4, <2>6, <3>1 DEF Unasked
  <2> QED BY <2>9, <2>10
<1>5. CASE Crash
  BY <1>5 DEF Crash, Fault, OneRun
<1> QED BY <1>1, <1>2, <1>3, <1>4, <1>5

\* At the start nobody runs.
LEMMA AloneInit == Init => AloneInv
<1> SUFFICES ASSUME Init PROVE AloneInv
  OBVIOUS
<1>1. SagaInv /\ ExercisedInv
  BY SagaInit, ExercisedInit
<1>2. /\ pc = [r \in Runner |-> "idle"] /\ eff = [s \in Step |-> [n \in Run |-> "none"]] /\ st = "none"
      /\ nruns = 0 /\ requests = 0 /\ asked = 0
  BY DEF Init
<1>3. \A q \in Runner : pc[q] = "idle"
  BY <1>2
<1>4. Alone
  <2>1. \A n \in Run : Clean(n)
    BY <1>2 DEF Clean
  <2>2. AtRest
    BY <1>2, <2>1 DEF AtRest
  <2> QED BY <1>2, <1>3, <2>1, <2>2 DEF Alone, Running
<1>5. Unasked
  BY <1>2, <1>3 DEF Unasked, Busy, Runner
<1> QED BY <1>1, <1>4, <1>5 DEF AloneInv

\* Every step keeps a run alone.
LEMMA AloneNext ==
  ASSUME AloneInv, [Next]_vars
  PROVE  AloneInv'
<1>a. SagaInv /\ SagaInv'
  BY SagaNext DEF AloneInv
<1>1. SUFFICES ASSUME Undisturbed' PROVE (ExercisedInv /\ Alone /\ Unasked)'
  BY <1>a DEF AloneInv
<1>2. UNCHANGED env
  BY DEF Next, vars
<1>3. Answered /\ OneRun /\ ExercisedInv /\ Alone /\ Unasked /\ Numbered /\ \A r \in Runner : OnItsWay(r)
  BY <1>1, <1>2 DEF Undisturbed, Answered, OneRun, AloneInv, ExercisedInv
<1>4. ExercisedInv'
  <2>1. env.operator \cap Rash = {}
    BY <1>3 DEF OneRun, Rash
  <2> QED BY <1>3, <2>1, ExercisedNext
<1>5. CASE UNCHANGED vars
  <2>1. UNCHANGED <<requests, asked, st, ver, pc, step, refs, myVer, run, allOK, nruns, eff, env>>
    BY <1>5 DEF vars, tradingVars, rowVars, runnerVars
  <2> QED BY <1>3, <1>4, <2>1 DEF Alone, Unasked, Busy, Running, Forward, Backward, Has, Clean, AtRest
<1>6. CASE \/ ExerciseContract \/ CompleteExercise \/ RevertExercise
           \/ Deliver \/ (\E op \in AdminOp : Recover(op)) \/ Crash
  BY <1>a, <1>2, <1>3, <1>4, <1>6, AloneOther
<1>7. ASSUME NEW r \in Runner, Handle(r) PROVE Alone' /\ Unasked'
  <2>1. UNCHANGED <<requests, asked, env>> /\ pc[r] # "idle"
    BY <1>2, <1>7 DEF Handle, FindOrInitialize, AdvanceState, Convert, CallStep, SaveStep, ReleaseStep, UndoStep,
         Finish, Close, Fail, SkipStep, CompensateStep, tradingVars
  <2>2. CASE FindOrInitialize(r)
    BY <1>a, <1>3, <2>1, <2>2, AloneFind, UnaskedKept
  <2>3. CASE \/ AdvanceState(r) \/ Convert(r) \/ CallStep(r) \/ SaveStep(r) \/ ReleaseStep(r)
             \/ Finish(r) \/ Close(r) \/ Fail(r) \/ SkipStep(r) \/ CompensateStep(r)
    <3>1. Own(r)
      BY <1>a, <2>3, StartOwn, ForwardOwn, EndOwn
    <3>2. Alone' /\ pc'[r] # "find"
      BY <1>a, <1>3, <2>3, <3>1, AloneStart, AloneCall, AloneSave, AloneBack, AloneCompensate, AloneEnd
    <3>3. (\A q \in Runner : q # r => pc'[q] = pc[q]) /\ (st # "none" => st' # "none")
      BY <3>1 DEF Own, SagaState
    <3> QED BY <1>3, <2>1, <3>2, <3>3, UnaskedKept
  <2>4. CASE UndoStep(r)
    <3>1. Running(r) /\ pc[r] = "undo"
      BY <2>4 DEF UndoStep, Running
    <3> QED BY <1>a, <1>3, <3>1, AloneFacts
  <2> QED BY <1>7, <2>2, <2>3, <2>4 DEF Handle
<1> QED BY <1>4, <1>5, <1>6, <1>7 DEF Next

\* Undisturbed, the one run is alone, always.
LEMMA AloneAlways == Spec => []AloneInv
<1>1. AloneInv /\ [Next]_vars => AloneInv'
  BY AloneNext
<1> QED BY <1>1, AloneInit, PTL DEF Spec

\* The runs that have a row of step s that stands: the last one, if any.
LEMMA OneRow ==
  ASSUME SagaInv, Alone, NEW s \in Step
  PROVE  /\ Active(s) \subseteq {nruns}
         /\ Cardinality(Active(s)) \in {0, 1}
         /\ \A n \in Active(s) : Active(s) = {n} /\ Cardinality(Active(s)) = 1
<1>1. Active(s) \subseteq {nruns}
  BY DEF Alone, Clean, Active
<1>2. CASE Active(s) = {}
  BY <1>1, <1>2, FS_EmptySet
<1>3. CASE Active(s) = {nruns}
  <2>1. Cardinality({nruns}) = 1
    BY FS_Singleton
  <2> QED BY <1>1, <1>3, <2>1
<1> QED BY <1>1, <1>2, <1>3

\* Undisturbed, the buyer pays the strike at most once (HandleExercise and its
\* retries).
THEOREM PaymentSafety == Spec => []PaidOnce
<1>1. AloneInv => PaidOnce
  <2> SUFFICES ASSUME AloneInv, Undisturbed PROVE Cardinality(Active(3)) =< 1
    BY DEF PaidOnce
  <2>1. 3 \in Step
    BY DEF Step
  <2>2. Cardinality(Active(3)) \in {0, 1}
    BY <2>1, OneRow DEF AloneInv
  <2> QED BY <2>2
<1> QED BY <1>1, AloneAlways, PTL

\* Undisturbed, a saga that ended is settled or undone (otcExerciseFail,
\* compensateWithRetry).
THEOREM SettledSafety == Spec => []Settled
<1>1. AloneInv => Settled
  <2> SUFFICES ASSUME AloneInv, Undisturbed, ~Busy
               PROVE  /\ st = "COMPLETED" => Cardinality(Active(3)) = 1 /\ Cardinality(Active(4)) = 1
                      /\ st = "COMPENSATED" => Active(3) = {} /\ Active(4) = {}
                      /\ st \in {"COMPLETED", "COMPENSATED"} => Active(1) = {} /\ Active(2) = {}
    BY DEF Settled
  <2>1. SagaInv /\ Alone /\ 1 \in Step /\ 2 \in Step /\ 3 \in Step /\ 4 \in Step
    BY DEF AloneInv, Step
  <2>2. AtRest
    BY <2>1 DEF Alone, Running, Busy
  <2>3. ASSUME st = "COMPLETED"
        PROVE  Cardinality(Active(3)) = 1 /\ Cardinality(Active(4)) = 1 /\ Active(1) = {} /\ Active(2) = {}
    <3>1. nruns \in Active(3) /\ nruns \in Active(4) /\ nruns \notin Active(1) /\ nruns \notin Active(2)
      BY <2>2, <2>3 DEF AtRest, Has, Active
    <3> QED BY <2>1, <3>1, OneRow
  <2>4. ASSUME st = "COMPENSATED"
        PROVE  Active(1) = {} /\ Active(2) = {} /\ Active(3) = {} /\ Active(4) = {}
    BY <2>1, <2>2, <2>4 DEF AtRest, Clean, Active
  <2> QED BY <2>3, <2>4
<1> QED BY <1>1, AloneAlways, PTL

\* Undisturbed, no share is made or lost, and none is with the buyer while the money for it
\* is back with him (TransferOwnership and its reversal).
THEOREM GoodsSafety == Spec => []GoodsArePaid
<1>1. AloneInv => GoodsArePaid
  <2> SUFFICES ASSUME AloneInv, Undisturbed
               PROVE  /\ qty + bought = Shares /\ qty >= 0
                      /\ \A n \in Run : eff[4][n] = "active" => eff[3][n] = "active"
    BY DEF GoodsArePaid
  <2>1. SagaInv /\ Alone /\ ExercisedInv /\ TypeOK /\ 3 \in Step /\ 4 \in Step
    BY DEF AloneInv, SagaInv, Step
  <2>2. bought = Cardinality(Active(4)) /\ qty + bought = Shares
    BY <2>1 DEF ExercisedInv
  <2>3. qty >= 0
    <3>1. Cardinality(Active(4)) \in {0, 1}
      BY <2>1, OneRow
    <3>2. qty \in Int /\ Shares \in Nat /\ Shares # 0
      BY <2>1, NumberFacts DEF TypeOK
    <3> QED BY <2>2, <3>1, <3>2
  <2>4. ASSUME NEW n \in Run, eff[4][n] = "active" PROVE eff[3][n] = "active"
    <3>1. n = nruns
      BY <2>1, <2>4 DEF Alone, Clean
    <3>2. CASE \E r \in Runner : Running(r)
      <4>1. PICK r \in Runner : Running(r)
        BY <3>2
      <4>2. Forward(r, nruns) /\ Backward(r, nruns) /\ pc[r] # "undo" /\ pc[r] \in PC /\ InPlace(r)
        BY <2>1, <4>1, AloneFacts DEF SagaInv, TypeOK
      <4>3. pc[r] \in {"finish", "save"}
        <5>1. pc[r] \notin {"fail", "compensate", "close"}
          BY <2>4, <3>1, <4>2 DEF Backward
        <5>2. pc[r] \notin {"advance", "convert", "release"}
          BY <2>4, <3>1, <4>2 DEF Forward, Has
        <5>3. pc[r] # "call"
          <6>1. pc[r] = "call" => step[r] \in 1..4
            BY <4>2 DEF InPlace, Step
          <6> QED BY <2>4, <3>1, <4>2, <6>1 DEF Forward, Has
        <5> QED BY <4>1, <4>2, <5>1, <5>2, <5>3 DEF PC, Running
      <4>4. pc[r] = "save" => step[r] \in 1..4
        BY <4>2 DEF InPlace, Step
      <4> QED BY <2>4, <3>1, <4>2, <4>3, <4>4 DEF Forward, Has
    <3>3. CASE \A r \in Runner : ~Running(r)
      <4>1. AtRest
        BY <2>1, <3>3 DEF Alone
      <4>2. st = "COMPLETED"
        BY <2>4, <4>1 DEF AtRest, Clean, Step
      <4> QED BY <3>1, <4>1, <4>2 DEF AtRest, Has
    <3> QED BY <3>2, <3>3
  <2> QED BY <2>2, <2>3, <2>4
<1> QED BY <1>1, AloneAlways, PTL

=============================================================================
