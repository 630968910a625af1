--------------------------- MODULE OtcTradingProofs ---------------------------
(***************************************************************************)
(* Machine-checked proofs about OtcTrading, for any number of offers,      *)
(* workers and shares.                                                     *)
(*                                                                         *)
(* The invariants build on each other: TypeOK, RowsHeld and Shares hold in *)
(* every scenario; Calm needs that no saga outlasts the settlement date;   *)
(* Cover needs besides that requests are served one at a time; Exact that  *)
(* nothing of what EnvClass lists happens.  Each has a lemma with one step *)
(* per action.                                                             *)
(***************************************************************************)
EXTENDS OtcTrading, SumTheorems

\* What a scenario provides.
LEMMA EnvFacts ==
  ASSUME TypeOK
  PROVE  /\ env.shares \in Nat /\ env.amounts \subseteq Nat \ {0} /\ env.workers \subseteq Worker
         /\ \A o \in Offer : amount[o] \in Nat
<1>1. env.shares \in Nat /\ env.amounts \subseteq Nat \ {0} /\ env.workers \subseteq Worker
  BY OtcAssumption DEF TypeOK
<1> QED BY <1>1 DEF TypeOK

\* What a worker's job says of it.
LEMMA JobFacts ==
  ASSUME NEW j \in Job
  PROVE  /\ j.pc \in {"idle", "read", "write", "publish"} /\ (j.pc = "idle" <=> j = Idle)
         /\ j.pc \in {"read", "write"} => j.op \in Op /\ j.on \in Offer
         /\ j.pc = "write" => j.seen \in Position
         /\ j.pc = "publish" => j.public \in Nat /\ j.isPublic \in BOOLEAN
  BY DEF Job, Idle

\* The fields of a position.
LEMMA PositionFacts ==
  ASSUME NEW p \in Position
  PROVE  p.qty \in Int /\ p.reserved \in Nat /\ p.public \in Int /\ p.isPublic \in BOOLEAN
  BY DEF Position

\* A position with new quantities is one.
LEMMA PositionUpdate ==
  ASSUME NEW p \in Position, NEW q \in Int, NEW r \in Nat, NEW b \in Int, NEW x \in BOOLEAN
  PROVE  /\ [p EXCEPT !.qty = q, !.reserved = r] \in Position
         /\ [p EXCEPT !.reserved = r] \in Position
         /\ [p EXCEPT !.reserved = r, !.public = b] \in Position
         /\ [p EXCEPT !.public = b, !.isPublic = x] \in Position
  BY DEF Position

\* The first values of the variables have their types.
LEMMA TypeInit == Init => TypeOK
  BY OtcAssumption DEF Init, TypeOK, OfferStatus, ContractStatus, ExerciseState, Position, Job, Idle

\* Every step keeps the types.
LEMMA TypeStep == TypeOK /\ [Next]_vars => TypeOK'
<1> SUFFICES ASSUME TypeOK, [Next]_vars PROVE TypeOK'
  OBVIOUS
<1>0. UNCHANGED env
  BY DEF Next, vars
<1>1. ASSUME NEW o \in Offer, NEW a \in env.amounts, CreateOffer(o, a) PROVE TypeOK'
  BY <1>0, <1>1 DEF CreateOffer, TypeOK, OfferStatus
<1>2. ASSUME NEW o \in Offer, NEW a \in env.amounts, NEW s \in {"PENDING_SELLER", "PENDING_BUYER"},
             CounterOffer(o, a, s)
      PROVE  TypeOK'
  BY <1>0, <1>2 DEF CounterOffer, TypeOK, OfferStatus
<1>3. ASSUME NEW o \in Offer, Reject(o) \/ Withdraw(o) PROVE TypeOK'
  BY <1>0, <1>3 DEF Reject, Withdraw, TypeOK, OfferStatus
<1>4. ASSUME NEW o \in Offer, CompletePremiumTransfer(o) PROVE TypeOK'
  BY <1>0, <1>4 DEF CompletePremiumTransfer, TypeOK, ContractStatus, dealVars
<1>5. ASSUME NEW o \in Offer, ExerciseContract(o) PROVE TypeOK'
  BY <1>0, <1>5 DEF ExerciseContract, TypeOK, ExerciseState, dealVars
<1>6. ASSUME NEW o \in Offer, CompleteExercise(o) PROVE TypeOK'
  BY <1>0, <1>6 DEF CompleteExercise, TypeOK, ExerciseState, ContractStatus, dealVars
<1>7. ASSUME NEW o \in Offer, Reserve(o) PROVE TypeOK'
  <2>3. pos.reserved + amount[o] \in Nat /\ pos \in Position
    BY EnvFacts, PositionFacts DEF TypeOK
  <2>1. pos' \in Position
    BY <1>7, <2>3 DEF Reserve, Position
  <2>2. exercise' \in [Offer -> ExerciseState]
    BY <1>7 DEF Reserve, TypeOK, ExerciseState
  <2> QED BY <1>0, <1>7, <2>1, <2>2 DEF Reserve, TypeOK, dealVars
<1>8. ASSUME NEW o \in Offer, Release(o) PROVE TypeOK'
  <2>1. Larger(0, pos.reserved - amount[o]) \in Nat
    BY EnvFacts, PositionFacts DEF TypeOK, Larger
  <2>2. pos' \in Position
    BY <1>8, <2>1, PositionUpdate, PositionFacts DEF Release, TypeOK
  <2>3. exercise' \in [Offer -> ExerciseState]
    BY <1>8 DEF Release, TypeOK, ExerciseState
  <2> QED BY <1>0, <1>8, <2>2, <2>3 DEF Release, TypeOK, dealVars
<1>9. ASSUME NEW o \in Offer, TransferOwnership(o) PROVE TypeOK'
  <2>1. Larger(0, pos.reserved - amount[o]) \in Nat /\ pos.qty - amount[o] \in Int
    BY EnvFacts, PositionFacts DEF TypeOK, Larger
  <2>2. pos' \in Position
    BY <1>9, <2>1, PositionUpdate, PositionFacts DEF TransferOwnership, TypeOK
  <2>3. exercise' \in [Offer -> ExerciseState]
    BY <1>9 DEF TransferOwnership, TypeOK, ExerciseState
  <2> QED BY <1>0, <1>9, <2>2, <2>3 DEF TransferOwnership, TypeOK, dealVars
<1>10. ASSUME NEW w \in env.workers, NEW o \in Offer,
              BeginAccept(w, o) \/ BeginFailPremiumTransfer(w, o) \/ BeginExpire(w, o)
       PROVE  TypeOK'
  <2>1. ASSUME NEW p \in Op, job' = [job EXCEPT ![w] = [pc |-> "read", op |-> p, on |-> o]]
        PROVE  job' \in [Worker -> Job]
    <3>1. [pc |-> "read", op |-> p, on |-> o] \in Job
      BY DEF Job
    <3> QED BY <2>1, <3>1 DEF TypeOK
  <2>2. job' \in [Worker -> Job]
    BY <1>10, <2>1 DEF BeginAccept, BeginFailPremiumTransfer, BeginExpire, Op
  <2> QED BY <1>0, <1>10, <2>2 DEF BeginAccept, BeginFailPremiumTransfer, BeginExpire, TypeOK, dealVars
<1>11. ASSUME NEW w \in env.workers, NEW n \in env.amounts, BeginAddPosition(w, n) \/ BeginUpdatePosition(w, n)
       PROVE  TypeOK'
  <2>1. ASSUME NEW x \in BOOLEAN, job' = [job EXCEPT ![w] = [pc |-> "publish", public |-> n, isPublic |-> x]]
        PROVE  job' \in [Worker -> Job]
    <3>1. [pc |-> "publish", public |-> n, isPublic |-> x] \in Job
      BY EnvFacts DEF Job
    <3> QED BY <2>1, <3>1 DEF TypeOK
  <2>2. job' \in [Worker -> Job]
    BY <1>11, <2>1, PositionFacts DEF BeginAddPosition, BeginUpdatePosition, TypeOK
  <2> QED BY <1>0, <1>11, <2>2 DEF BeginAddPosition, BeginUpdatePosition, TypeOK, dealVars
<1>12. ASSUME NEW w \in env.workers, BeginRemovePosition(w) PROVE TypeOK'
  <2>1. [pc |-> "publish", public |-> 0, isPublic |-> FALSE] \in Job
    BY DEF Job
  <2> QED BY <1>0, <1>12, <2>1 DEF BeginRemovePosition, TypeOK, dealVars
<1>13. ASSUME NEW w \in env.workers, CommitPosition(w) PROVE TypeOK'
  <2>1. job[w] \in Job /\ w \in Worker /\ Idle \in Job
    BY EnvFacts DEF TypeOK, Job
  <2>2. pos' \in Position
    <3>1. pos \in Position /\ job[w].public \in Nat /\ job[w].isPublic \in BOOLEAN
      BY <1>13, <2>1, JobFacts DEF CommitPosition, TypeOK
    <3>2. job[w].public \in Int
      BY <3>1
    <3>3. ASSUME NEW p \in Position, NEW b \in Int, NEW x \in BOOLEAN
          PROVE  [p EXCEPT !.public = b, !.isPublic = x] \in Position
      BY DEF Position
    <3>4. [pos EXCEPT !.public = job[w].public, !.isPublic = job[w].isPublic] \in Position
      BY <3>1, <3>2, <3>3, Zenon
    <3> QED BY <1>13, <3>4 DEF CommitPosition
  <2> QED BY <1>0, <1>13, <2>1, <2>2 DEF CommitPosition, TypeOK, dealVars
<1>14. ASSUME NEW w \in env.workers, ReadPosition(w) PROVE TypeOK'
  <2>1. job[w].op \in Op /\ job[w].on \in Offer /\ pos \in Position
    BY <1>14, EnvFacts, JobFacts DEF ReadPosition, TypeOK
  <2>2. [pc |-> "write", op |-> job[w].op, on |-> job[w].on, seen |-> pos] \in Job
    BY <2>1 DEF Job
  <2> QED BY <1>0, <1>14, <2>2 DEF ReadPosition, TypeOK, dealVars
<1>15. ASSUME NEW w \in env.workers, Accept(w) PROVE TypeOK'
  <2>1. job[w].on \in Offer /\ job[w].seen \in Position /\ Idle \in Job
    BY <1>15, EnvFacts, JobFacts DEF Accept, TypeOK, Job
  <2>2. /\ job[w].seen.reserved + amount[job[w].on] \in Nat
        /\ Larger(0, job[w].seen.public - amount[job[w].on]) \in Int
    BY <2>1, EnvFacts, PositionFacts DEF Larger
  <2>3. pos' \in Position
    BY <1>15, <2>2, PositionUpdate, PositionFacts DEF Accept, ReserveForContract, TypeOK
  <2>4. offer' \in [Offer -> OfferStatus] /\ contract' \in [Offer -> ContractStatus]
    BY <1>15, <2>1 DEF Accept, TypeOK, OfferStatus, ContractStatus
  <2> QED BY <1>0, <1>15, <2>1, <2>3, <2>4 DEF Accept, TypeOK
<1>16. ASSUME NEW w \in env.workers, EndContract(w) PROVE TypeOK'
  <2>1. job[w].on \in Offer /\ job[w].seen \in Position /\ Idle \in Job
    BY <1>16, EnvFacts, JobFacts DEF EndContract, TypeOK, Job
  <2>2. /\ Larger(0, job[w].seen.reserved - amount[job[w].on]) \in Nat
        /\ Smaller(job[w].seen.qty, job[w].seen.public + amount[job[w].on]) \in Int
    BY <2>1, EnvFacts, PositionFacts DEF Larger, Smaller
  <2>3. pos' \in Position
    BY <1>16, <2>2, PositionUpdate, PositionFacts DEF EndContract, ReleaseForContract, TypeOK
  <2>4. contract' \in [Offer -> ContractStatus]
    BY <1>16, <2>1 DEF EndContract, EndStatus, TypeOK, ContractStatus
  <2> QED BY <1>0, <1>16, <2>1, <2>3, <2>4 DEF EndContract, TypeOK, dealVars
<1>17. CASE Tick
  BY <1>0, <1>17 DEF Tick, TypeOK, dealVars
<1>18. CASE ListOverdue
  BY <1>0, <1>18 DEF ListOverdue, TypeOK, dealVars
<1>19. CASE UNCHANGED vars
  BY <1>19 DEF vars, TypeOK
<1> QED BY <1>1, <1>2, <1>3, <1>4, <1>5, <1>6, <1>7, <1>8, <1>9, <1>10, <1>11, <1>12, <1>13, <1>14,
           <1>15, <1>16, <1>17, <1>18, <1>19 DEF Next, OfferStep, WorkerStep

\* Offers, contracts, exercises, the position and every running transaction keep
\* to their types (otc_offers, option_contracts, portfolio), however requests,
\* sagas and the sweep interleave.
THEOREM OtcTypes == Spec => []TypeOK
  BY TypeInit, TypeStep, PTL DEF Spec
-------------------------------------------------------------------------------
(* Rows and shares, in every scenario. *)

\* An unlocked offer is in no transaction.
LEMMA Unlocked ==
  ASSUME NEW o, ~Locked(o), NEW w \in Worker, OnOffer(w) PROVE job[w].on # o
  BY DEF Locked, OnOffer

\* Every step keeps a transaction the only one on its rows.
LEMMA RowsStep == TypeOK /\ RowsHeld /\ [Next]_vars => RowsHeld'
<1> SUFFICES ASSUME TypeOK, RowsHeld, [Next]_vars PROVE RowsHeld'
  OBVIOUS
<1>0. UNCHANGED env
  BY DEF Next, vars
<1>1. ASSUME NEW o \in Offer, NEW a \in env.amounts, CreateOffer(o, a) PROVE RowsHeld'
  BY <1>0, <1>1 DEF CreateOffer, TypeOK, RowsHeld, OnOffer
<1>2. ASSUME NEW o \in Offer, NEW a \in env.amounts, NEW s \in {"PENDING_SELLER", "PENDING_BUYER"},
             CounterOffer(o, a, s)
      PROVE  RowsHeld'
  BY <1>0, <1>2 DEF CounterOffer, Counterable, TypeOK, RowsHeld, OnOffer
<1>3. ASSUME NEW o \in Offer, Reject(o) PROVE RowsHeld'
  BY <1>0, <1>3, Unlocked DEF Reject, TypeOK, RowsHeld, OnOffer
<1>20. ASSUME NEW o \in Offer, Withdraw(o) PROVE RowsHeld'
  BY <1>0, <1>20, Unlocked DEF Withdraw, TypeOK, RowsHeld, OnOffer
<1>4. ASSUME NEW o \in Offer, CompletePremiumTransfer(o) PROVE RowsHeld'
  BY <1>0, <1>4, Unlocked DEF CompletePremiumTransfer, TypeOK, RowsHeld, OnOffer, dealVars
<1>5. ASSUME NEW o \in Offer, ExerciseContract(o) PROVE RowsHeld'
  BY <1>0, <1>5 DEF ExerciseContract, TypeOK, RowsHeld, OnOffer, dealVars
<1>6. ASSUME NEW o \in Offer, CompleteExercise(o) PROVE RowsHeld'
  BY <1>0, <1>6, Unlocked DEF CompleteExercise, TypeOK, RowsHeld, OnOffer, dealVars
<1>7. ASSUME NEW o \in Offer, Reserve(o) \/ Release(o) \/ TransferOwnership(o) PROVE RowsHeld'
  BY <1>0, <1>7 DEF Reserve, Release, TransferOwnership, TypeOK, RowsHeld, OnOffer, dealVars
<1>10. ASSUME NEW w \in env.workers, NEW o \in Offer,
              BeginAccept(w, o) \/ BeginFailPremiumTransfer(w, o) \/ BeginExpire(w, o)
       PROVE  RowsHeld'
  BY <1>0, <1>10, Unlocked, EnvFacts DEF BeginAccept, BeginFailPremiumTransfer, BeginExpire, TypeOK, RowsHeld,
      OnOffer, dealVars
<1>11. ASSUME NEW w \in env.workers, NEW n \in env.amounts, BeginAddPosition(w, n) \/ BeginUpdatePosition(w, n)
       PROVE  RowsHeld'
  BY <1>0, <1>11, EnvFacts DEF BeginAddPosition, BeginUpdatePosition, TypeOK, RowsHeld, OnOffer, dealVars
<1>12. ASSUME NEW w \in env.workers, BeginRemovePosition(w) PROVE RowsHeld'
  BY <1>0, <1>12, EnvFacts DEF BeginRemovePosition, TypeOK, RowsHeld, OnOffer, dealVars
<1>13. ASSUME NEW w \in env.workers, CommitPosition(w) PROVE RowsHeld'
  BY <1>0, <1>13, EnvFacts DEF CommitPosition, TypeOK, RowsHeld, OnOffer, Idle, dealVars
<1>14. ASSUME NEW w \in env.workers, ReadPosition(w) PROVE RowsHeld'
  BY <1>0, <1>14, EnvFacts DEF ReadPosition, TypeOK, RowsHeld, OnOffer, dealVars
<1>15. ASSUME NEW w \in env.workers, Accept(w) PROVE RowsHeld'
  BY <1>0, <1>15, EnvFacts DEF Accept, TypeOK, RowsHeld, OnOffer, Idle
<1>16. ASSUME NEW w \in env.workers, EndContract(w) PROVE RowsHeld'
  BY <1>0, <1>16, EnvFacts DEF EndContract, EndStatus, TypeOK, RowsHeld, OnOffer, Idle, dealVars
<1>17. CASE Tick
  BY <1>0, <1>17 DEF Tick, RowsHeld, OnOffer, dealVars
<1>18. CASE ListOverdue
  BY <1>0, <1>18 DEF ListOverdue, RowsHeld, OnOffer, dealVars
<1>19. CASE UNCHANGED vars
  BY <1>19 DEF vars, RowsHeld, OnOffer
<1> QED BY <1>1, <1>2, <1>3, <1>4, <1>5, <1>6, <1>7, <1>10, <1>11, <1>12, <1>13, <1>14,
           <1>15, <1>16, <1>17, <1>18, <1>19, <1>20 DEF Next, OfferStep, WorkerStep
\* Sums of amounts.
LEMMA SumOfFacts ==
  ASSUME TypeOK, NEW S, S \subseteq Offer
  PROVE  IsFiniteSet(S) /\ (\A x \in S : amount[x] \in Nat) /\ SumOf(S) \in Nat
<1>1. IsFiniteSet(S)
  BY OtcAssumption, FS_Subset
<1>2. \A x \in S : amount[x] \in Nat
  BY EnvFacts
<1> QED BY <1>1, <1>2, SumNat DEF SumOf

\* One more offer.
LEMMA SumOfAdd ==
  ASSUME TypeOK, NEW S, S \subseteq Offer, NEW o \in Offer, o \notin S
  PROVE  SumOf(S \cup {o}) = SumOf(S) + amount[o]
<1>1. \A x \in S \cup {o} : amount[x] \in Int
  BY EnvFacts
<1> QED BY <1>1, SumOfFacts, SumAdd DEF SumOf

\* One offer less.
LEMMA SumOfRemove ==
  ASSUME TypeOK, NEW S, S \subseteq Offer, NEW o \in S
  PROVE  SumOf(S) = SumOf(S \ {o}) + amount[o] /\ amount[o] \in Nat /\ SumOf(S \ {o}) \in Nat
<1>1. \A x \in S : amount[x] \in Int
  BY SumOfFacts
<1>2. SumOf(S) = amount[o] + SumOf(S \ {o})
  BY <1>1, SumOfFacts, SumRemove DEF SumOf
<1>3. SumOf(S \ {o}) \in Nat /\ amount[o] \in Nat
  BY SumOfFacts
<1> QED BY <1>2, <1>3

\* Fewer offers have no larger sum.
LEMMA SumOfSubset ==
  ASSUME TypeOK, NEW S, S \subseteq Offer, NEW T, T \subseteq S
  PROVE  SumOf(T) =< SumOf(S)
  BY SumOfFacts, SumSubset DEF SumOf

\* A sum is not disturbed by what happens to other offers.
LEMMA SumOfSame ==
  ASSUME TypeOK, NEW S, S \subseteq Offer, \A x \in S : amount'[x] = amount[x]
  PROVE  SumFunctionOnSet(amount', S) = SumOf(S)
<1>1. \A x \in S : amount[x] = amount'[x]
  OBVIOUS
<1> QED BY <1>1, SumOfFacts, SumSame DEF SumOf

\* Delivered shares and the position change only together.
LEMMA SharesKept ==
  ASSUME TypeOK, Shares, UNCHANGED env, pos'.qty = pos.qty,
         Gone' = Gone, \A o \in Gone : amount'[o] = amount[o]
  PROVE  Shares'
<1>1. SumFunctionOnSet(amount', Gone) = SumOf(Gone)
  <2>1. Gone \subseteq Offer
    BY DEF Gone
  <2> HIDE DEF Gone
  <2> QED BY <2>1, SumOfSame
<1> QED BY <1>1 DEF Shares, SumOf

\* A contract's terms are frozen: only an offer without one is renegotiated.
LEMMA TermsFrozen ==
  ASSUME TypeOK, RowsHeld, [Next]_vars, NEW o \in Offer, contract[o] # "none"
  PROVE  amount'[o] = amount[o]
  BY DEF TypeOK, RowsHeld, Next, OfferStep, WorkerStep, vars, dealVars, CreateOffer, CounterOffer, Counterable,
      Reject, Withdraw, CompletePremiumTransfer, ExerciseContract, CompleteExercise, Reserve, Release,
      TransferOwnership, BeginAccept, BeginFailPremiumTransfer, BeginExpire, BeginAddPosition,
      BeginUpdatePosition, BeginRemovePosition, CommitPosition, ReadPosition, Accept, EndContract, Tick,
      ListOverdue
\* Only a transfer of ownership moves shares.
LEMMA GoneMoves ==
  ASSUME TypeOK, [Next]_vars
  PROVE  (pos'.qty = pos.qty /\ Gone' = Gone) \/ \E o \in Offer : TransferOwnership(o)
<1>1. ASSUME NEW o \in Offer, NEW a, NEW s, CreateOffer(o, a) \/ CounterOffer(o, a, s)
      PROVE  pos'.qty = pos.qty /\ Gone' = Gone
  BY <1>1 DEF CreateOffer, CounterOffer, Gone
<1>8. ASSUME NEW o \in Offer, Reject(o) \/ Withdraw(o) \/ CompletePremiumTransfer(o)
      PROVE  pos'.qty = pos.qty /\ Gone' = Gone
  BY <1>8 DEF Reject, Withdraw, CompletePremiumTransfer, Gone
<1>2. ASSUME NEW o \in Offer, ExerciseContract(o) PROVE pos'.qty = pos.qty /\ Gone' = Gone
  BY <1>2 DEF ExerciseContract, Gone, TypeOK
<1>3. ASSUME NEW o \in Offer, CompleteExercise(o) PROVE pos'.qty = pos.qty /\ Gone' = Gone
  BY <1>3 DEF CompleteExercise, Gone, TypeOK
<1>4. ASSUME NEW o \in Offer, Reserve(o) PROVE pos'.qty = pos.qty /\ Gone' = Gone
  BY <1>4 DEF Reserve, Gone, TypeOK, Position
<1>5. ASSUME NEW o \in Offer, Release(o) PROVE pos'.qty = pos.qty /\ Gone' = Gone
  BY <1>5 DEF Release, Gone, TypeOK, Position
<1>6. ASSUME NEW w \in env.workers, WorkerStep(w) PROVE pos'.qty = pos.qty /\ Gone' = Gone
  BY <1>6 DEF WorkerStep, BeginAccept, BeginFailPremiumTransfer, BeginExpire, BeginAddPosition,
      BeginUpdatePosition, BeginRemovePosition, CommitPosition, ReadPosition, Accept, EndContract,
      ReserveForContract, ReleaseForContract, Gone, TypeOK, Position
<1>7. CASE Tick \/ ListOverdue \/ UNCHANGED vars
  BY <1>7 DEF Tick, ListOverdue, vars, Gone
<1> QED BY <1>1, <1>2, <1>3, <1>4, <1>5, <1>6, <1>7, <1>8 DEF Next, OfferStep

\* Every step keeps the seller's and the delivered shares together.
LEMMA SharesStep == DeskInv /\ [Next]_vars => Shares'
<1> SUFFICES ASSUME DeskInv, [Next]_vars PROVE Shares'
  OBVIOUS
<1>0. TypeOK /\ RowsHeld /\ Shares /\ UNCHANGED env
  BY DEF DeskInv, Next, vars
<1>1. \A o \in Gone : amount'[o] = amount[o]
  BY <1>0, TermsFrozen DEF Gone, RowsHeld
<1>2. CASE pos'.qty = pos.qty /\ Gone' = Gone
  BY <1>0, <1>1, <1>2, SharesKept
<1>3. ASSUME NEW o \in Offer, TransferOwnership(o) PROVE Shares'
  <2>1. o \notin Gone /\ Gone' = Gone \cup {o} /\ Gone \subseteq Offer
    BY <1>0, <1>3 DEF TransferOwnership, Gone, TypeOK
  <2>2. pos'.qty = pos.qty - amount[o] /\ amount' = amount
    BY <1>0, <1>3 DEF TransferOwnership, TypeOK, Position, dealVars
  <2>3. SumOf(Gone \cup {o}) = SumOf(Gone) + amount[o]
    <3> HIDE DEF Gone
    <3> QED BY <1>0, <2>1, SumOfAdd
  <2>4. SumOf(Gone)' = SumOf(Gone) + amount[o]
    BY <2>1, <2>2, <2>3 DEF SumOf
  <2>5. SumOf(Gone) \in Nat /\ amount[o] \in Nat /\ pos.qty \in Int
    <3>1. pos \in Position
      BY <1>0 DEF TypeOK
    <3> HIDE DEF Gone
    <3> QED BY <1>0, <2>1, <3>1, SumOfFacts, EnvFacts, PositionFacts
  <2> QED BY <1>0, <2>2, <2>4, <2>5 DEF Shares
<1> QED BY <1>0, <1>2, <1>3, GoneMoves

\* Nothing is locked, agreed or sold at the start.
LEMMA DeskInit == Init => DeskInv
<1> SUFFICES ASSUME Init PROVE DeskInv
  OBVIOUS
<1>1. TypeOK
  BY TypeInit
<1>2. RowsHeld
  BY DEF Init, RowsHeld, OnOffer, Idle
<1>3. Gone = {} /\ pos.qty = env.shares
  BY DEF Init, Gone
<1>4. SumOf(Gone) = 0
  BY <1>3, SumEmpty DEF SumOf
<1>5. Shares
  BY <1>1, <1>3, <1>4, EnvFacts DEF Shares
<1> QED BY <1>1, <1>2, <1>5 DEF DeskInv

\* Every step keeps what holds in every scenario.
LEMMA DeskStep == DeskInv /\ [Next]_vars => DeskInv'
  BY TypeStep, RowsStep, SharesStep DEF DeskInv

\* Shares are neither made nor lost, and a contract has the terms of an accepted
\* offer for good: whatever transactions overlap, whatever the sweep, the sagas
\* and the reservation endpoints do, the seller's shares and the delivered ones
\* add up to what he had (TransferOwnership, CounterOffer, Accept).
THEOREM SharesSafety == Spec => []SharesConserved
<1>1. DeskInv => SharesConserved
  BY DEF DeskInv, RowsHeld, Shares, SharesConserved
<1> QED BY <1>1, DeskInit, DeskStep, PTL DEF Spec
-------------------------------------------------------------------------------
(* The settlement date, when no saga outlasts it. *)

\* Every step keeps the sweep and the exercises apart.
LEMMA CalmStep ==
  ASSUME TypeOK, RowsHeld, Calm, "late" \notin env.may, [Next]_vars PROVE Calm'
<1>1. ASSUME NEW o \in Offer, NEW a, NEW s, CreateOffer(o, a) \/ CounterOffer(o, a, s) PROVE Calm'
  BY <1>1 DEF CreateOffer, CounterOffer, Calm, OnOffer
<1>2. ASSUME NEW o \in Offer, Reject(o) \/ Withdraw(o) PROVE Calm'
  BY <1>2 DEF Reject, Withdraw, Calm, OnOffer
<1>3. ASSUME NEW o \in Offer, CompletePremiumTransfer(o) PROVE Calm'
  BY <1>3 DEF CompletePremiumTransfer, TypeOK, RowsHeld, Calm, OnOffer
<1>4. ASSUME NEW o \in Offer, ExerciseContract(o) PROVE Calm'
  BY <1>4 DEF ExerciseContract, TypeOK, Calm, OnOffer
<1>5. ASSUME NEW o \in Offer, CompleteExercise(o) PROVE Calm'
  BY <1>5, Unlocked DEF CompleteExercise, TypeOK, Calm, OnOffer
<1>6. ASSUME NEW o \in Offer, Reserve(o) \/ Release(o) \/ TransferOwnership(o) PROVE Calm'
  BY <1>6 DEF Reserve, Release, TransferOwnership, TypeOK, Calm, OnOffer
<1>7. ASSUME NEW w \in env.workers, NEW o \in Offer,
             BeginAccept(w, o) \/ BeginFailPremiumTransfer(w, o) \/ BeginExpire(w, o)
      PROVE  Calm'
  BY <1>7, EnvFacts DEF BeginAccept, BeginFailPremiumTransfer, BeginExpire, TypeOK, Calm, OnOffer, Sweeping
<1>8. ASSUME NEW w \in env.workers, NEW n, BeginAddPosition(w, n) \/ BeginUpdatePosition(w, n)
      PROVE  Calm'
  BY <1>8, EnvFacts DEF BeginAddPosition, BeginUpdatePosition, TypeOK, Calm, OnOffer
<1>9. ASSUME NEW w \in env.workers, BeginRemovePosition(w) \/ CommitPosition(w) PROVE Calm'
  BY <1>9, EnvFacts DEF BeginRemovePosition, CommitPosition, TypeOK, Calm, OnOffer, Idle
<1>10. ASSUME NEW w \in env.workers, ReadPosition(w) PROVE Calm'
  BY <1>10, EnvFacts DEF ReadPosition, TypeOK, Calm, OnOffer
<1>11. ASSUME NEW w \in env.workers, Accept(w) PROVE Calm'
  BY <1>11, EnvFacts DEF Accept, TypeOK, RowsHeld, Calm, OnOffer, Idle
<1>12. ASSUME NEW w \in env.workers, EndContract(w) PROVE Calm'
  BY <1>12, EnvFacts DEF EndContract, EndStatus, TypeOK, RowsHeld, Calm, OnOffer, Idle
<1>13. CASE Tick
  BY <1>13 DEF Tick, TypeOK, Calm, OnOffer
<1>14. CASE ListOverdue
  BY <1>14 DEF ListOverdue, TypeOK, Calm, OnOffer, Sweeping
<1>15. CASE UNCHANGED vars
  BY <1>15 DEF vars, Calm, OnOffer
<1> QED BY <1>1, <1>2, <1>3, <1>4, <1>5, <1>6, <1>7, <1>8, <1>9, <1>10, <1>11, <1>12, <1>13, <1>14,
           <1>15 DEF Next, OfferStep, WorkerStep

\* Before the first step nothing is exercised and nothing is overdue.
LEMMA CalmInit == Init => CalmInv
<1> SUFFICES ASSUME Init PROVE CalmInv
  OBVIOUS
<1>1. Calm
  BY DEF Init, Calm, OnOffer, Idle
<1> QED BY <1>1, DeskInit DEF CalmInv

\* ... in the scenarios where no saga outlasts the settlement date.
LEMMA CalmNext == CalmInv /\ [Next]_vars => CalmInv'
<1> SUFFICES ASSUME CalmInv, [Next]_vars PROVE CalmInv'
  OBVIOUS
<1>1. TypeOK /\ RowsHeld /\ UNCHANGED env
  BY DEF CalmInv, DeskInv, Next, vars
<1>2. "late" \notin env'.may => Calm'
  BY <1>1, CalmStep DEF CalmInv
<1> QED BY <1>2, DeskStep DEF CalmInv

\* One contract's status, across a step.
LEMMA LifecycleStep ==
  ASSUME TypeOK, RowsHeld, Calm, "late" \notin env.may, [Next]_vars, NEW o \in Offer, contract'[o] # contract[o]
  PROVE  contract'[o] \in Successor[contract[o]]
<1>1. CASE CompletePremiumTransfer(o)
  BY <1>1 DEF CompletePremiumTransfer, Successor, TypeOK
<1>2. CASE CompleteExercise(o)
  BY <1>2 DEF CompleteExercise, Successor, TypeOK
<1>3. ASSUME NEW w \in env.workers, Accept(w) PROVE contract'[o] \in Successor[contract[o]]
  BY <1>3, EnvFacts DEF Accept, Successor, TypeOK, RowsHeld, OnOffer
<1>4. ASSUME NEW w \in env.workers, EndContract(w) PROVE contract'[o] \in Successor[contract[o]]
  <2>1. w \in Worker /\ job[w].on = o /\ OnOffer(w) /\ contract'[o] = EndStatus(job[w].op)
    BY <1>4, EnvFacts DEF EndContract, TypeOK, OnOffer
  <2>2. \/ job[w].op = "cancel" /\ contract[o] = "PENDING_PREMIUM"
        \/ job[w].op = "expire" /\ contract[o] = "ACTIVE"
    BY <1>4, <2>1 DEF EndContract, RowsHeld, Calm
  <2> QED BY <2>1, <2>2 DEF EndStatus, Successor
<1>5. \/ CompletePremiumTransfer(o) \/ CompleteExercise(o)
      \/ \E w \in env.workers : Accept(w) \/ EndContract(w)
  BY ZenonT(40) DEF TypeOK, Next, OfferStep, WorkerStep, vars, dealVars, CreateOffer, CounterOffer,
      Reject, Withdraw, CompletePremiumTransfer, ExerciseContract, CompleteExercise, Reserve, Release,
      TransferOwnership, BeginAccept, BeginFailPremiumTransfer, BeginExpire, BeginAddPosition,
      BeginUpdatePosition, BeginRemovePosition, CommitPosition, ReadPosition, Tick, ListOverdue
<1> QED BY <1>1, <1>2, <1>3, <1>4, <1>5

\* As long as no saga outlasts the settlement date, a contract only moves along
\* PENDING_PREMIUM -> ACTIVE -> EXERCISED or EXPIRED, or PENDING_PREMIUM ->
\* CANCELED, however the sweep, which does not look at the status again, and the
\* sagas' answers interleave (UpdateOptionContractStatus).
THEOREM LifecycleSafety == Spec => ContractLifecycle
<1>1. CalmInv /\ [Next]_vars =>
        [\A o \in Offer : "late" \notin env.may /\ contract'[o] # contract[o]
                            => contract'[o] \in Successor[contract[o]]]_vars
  BY LifecycleStep DEF CalmInv, DeskInv
<1> QED BY <1>1, CalmInit, CalmNext, PTL DEF Spec, ContractLifecycle
-------------------------------------------------------------------------------
(* What the seller owes, when requests are served one at a time. *)

\* Only one transaction runs.
LEMMA OneWorker ==
  ASSUME TypeOK, RowsHeld, Serial, NEW w \in Worker, NEW v \in Worker, job[w] # Idle, job[v] # Idle
  PROVE  w = v
<1>1. w \in env.workers /\ v \in env.workers
  BY DEF RowsHeld
<1>2. IsFiniteSet(env.workers)
  BY OtcAssumption, EnvFacts, FS_Subset
<1>3. PICK x : env.workers = {x}
  BY <1>2, FS_Singleton DEF Serial
<1> QED BY <1>1, <1>3

\* The sums as numbers: what a running exercise or a fresh contract needs is
\* part of what is kept, and that of what is owed.
LEMMA KeptOwed ==
  ASSUME TypeOK
  PROVE  /\ Owed \in Nat /\ Kept \in Nat /\ Kept =< Owed
         /\ SumOf(Live) \in Nat /\ Owed =< SumOf(Live)
         /\ \A o \in Live \ Gone : amount[o] =< Owed
         /\ \A o \in Backing : amount[o] =< Kept
         /\ \A o, p \in Backing : o # p => amount[o] + amount[p] =< Kept
<1>1. Live \subseteq Offer /\ Live \ Gone \subseteq Live /\ Live \ Gone \subseteq Offer
  BY DEF Live
<1>2. Backing \subseteq Live \ Gone /\ Backing \subseteq Offer
  BY DEF Backing, Live
<1> DEFINE open == Live \ Gone
<1>3. open \subseteq Offer /\ open \subseteq Live /\ Backing \subseteq open
  BY <1>1, <1>2
<1>4. Owed = SumOf(open) /\ Kept = SumOf(Backing)
  BY DEF Owed, Kept
<1> HIDE DEF open
<1>5. SumOf(open) \in Nat /\ SumOf(Backing) \in Nat /\ SumOf(Live) \in Nat
  BY <1>1, <1>2, <1>3, SumOfFacts
<1>6. SumOf(Backing) =< SumOf(open) /\ SumOf(open) =< SumOf(Live)
  BY <1>1, <1>2, <1>3, SumOfSubset
<1>7. ASSUME NEW o \in open PROVE amount[o] =< Owed
  <2>1. SumOf(open) = SumOf(open \ {o}) + amount[o] /\ amount[o] \in Nat /\ SumOf(open \ {o}) \in Nat
    BY <1>3, <1>7, SumOfRemove
  <2> QED BY <1>4, <2>1
<1>8. ASSUME NEW o \in Backing PROVE amount[o] =< Kept
  <2>1. SumOf(Backing) = SumOf(Backing \ {o}) + amount[o] /\ amount[o] \in Nat /\ SumOf(Backing \ {o}) \in Nat
    BY <1>2, <1>8, SumOfRemove
  <2> QED BY <1>4, <2>1
<1>9. ASSUME NEW o \in Backing, NEW p \in Backing, o # p PROVE amount[o] + amount[p] =< Kept
  <2>1. SumOf(Backing) = SumOf(Backing \ {o}) + amount[o] /\ amount[o] \in Nat
    BY <1>2, SumOfRemove
  <2> DEFINE rest == Backing \ {o}
  <2>2. rest \subseteq Offer /\ p \in rest
    BY <1>2, <1>9
  <2>3. SumOf(Backing) = SumOf(rest) + amount[o]
    BY <2>1
  <2> HIDE DEF rest
  <2>4. SumOf(rest) = SumOf(rest \ {p}) + amount[p] /\ amount[p] \in Nat /\ SumOf(rest \ {p}) \in Nat
    BY <2>2, SumOfRemove
  <2> QED BY <1>4, <2>1, <2>3, <2>4
<1> QED BY <1>4, <1>5, <1>6, <1>7, <1>8, <1>9 DEF open

\* The amount a transaction works with does not change under it.
LEMMA JobTerms ==
  ASSUME TypeOK, RowsHeld, [Next]_vars, NEW w \in Worker, OnOffer(w)
  PROVE  job[w].on \in Offer /\ amount'[job[w].on] = amount[job[w].on]
<1>1. job[w].on \in Offer /\ job[w].op \in Op
  BY JobFacts DEF TypeOK, OnOffer
<1>2. CASE contract[job[w].on] # "none"
  BY <1>1, <1>2, TermsFrozen
<1>3. CASE contract[job[w].on] = "none"
  <2>1. offer[job[w].on] \in {"PENDING_SELLER", "PENDING_BUYER"} /\ Locked(job[w].on)
    BY <1>1, <1>3 DEF RowsHeld, OnOffer, Op, Locked
  <2> QED
    BY <1>1, <2>1 DEF TypeOK, Next, OfferStep, WorkerStep, vars, dealVars, CreateOffer, CounterOffer, Counterable,
      Reject, Withdraw, CompletePremiumTransfer, ExerciseContract, CompleteExercise, Reserve, Release,
      TransferOwnership, BeginAccept, BeginFailPremiumTransfer, BeginExpire, BeginAddPosition,
      BeginUpdatePosition, BeginRemovePosition, CommitPosition, ReadPosition, Accept, EndContract, Tick,
      ListOverdue
<1> QED BY <1>2, <1>3, <1>1

\* A sum over contracts, across a step.
LEMMA SumAfter ==
  ASSUME TypeOK, RowsHeld, [Next]_vars, NEW S, S \subseteq Offer, \A o \in S : contract[o] # "none"
  PROVE  SumFunctionOnSet(amount', S) = SumOf(S)
  BY TermsFrozen, SumOfSame

\* As long as the same contracts are owed and kept, so is the same number of
\* shares.
LEMMA SumsSame ==
  ASSUME TypeOK, RowsHeld, [Next]_vars, Live' \ Gone' = Live \ Gone, Backing' = Backing
  PROVE  Owed' = Owed /\ Kept' = Kept
<1> DEFINE open == Live \ Gone
<1>1. open \subseteq Offer /\ Backing \subseteq Offer
  BY DEF Backing, Live
<1>2. \A o \in open \cup Backing : contract[o] # "none"
  BY DEF Backing, Live
<1>3. Owed = SumOf(open) /\ Owed' = SumFunctionOnSet(amount', open)
      /\ Kept = SumOf(Backing) /\ Kept' = SumFunctionOnSet(amount', Backing)
  BY DEF Owed, Kept, SumOf
<1> HIDE DEF open
<1> QED BY <1>1, <1>2, <1>3, SumAfter

\* A contract that is settled, canceled or expired is owed no longer.
LEMMA OwedLess ==
  ASSUME TypeOK, RowsHeld, [Next]_vars, NEW o \in Live \ Gone, Live' \ Gone' = (Live \ Gone) \ {o}
  PROVE  Owed' = Owed - amount[o]
<1> DEFINE open == Live \ Gone
<1>1. open \subseteq Offer /\ open \ {o} \subseteq Offer /\ o \in open
  BY DEF Live
<1>2. \A p \in open \ {o} : contract[p] # "none"
  BY DEF Live
<1>3. Owed = SumOf(open) /\ Owed' = SumFunctionOnSet(amount', open \ {o})
  BY DEF Owed, SumOf
<1> HIDE DEF open
<1>4. Owed' = SumOf(open \ {o})
  BY <1>1, <1>2, <1>3, SumAfter
<1>5. SumOf(open) = SumOf(open \ {o}) + amount[o] /\ amount[o] \in Nat /\ SumOf(open \ {o}) \in Nat
  BY <1>1, SumOfRemove
<1> QED BY <1>3, <1>4, <1>5

\* ... and no shares are kept for it.
LEMMA KeptLess ==
  ASSUME TypeOK, RowsHeld, [Next]_vars, NEW o \in Backing, Backing' = Backing \ {o}
  PROVE  Kept' = Kept - amount[o]
<1>1. Backing \subseteq Offer /\ Backing \ {o} \subseteq Offer /\ \A p \in Backing \ {o} : contract[p] # "none"
  BY DEF Backing, Live
<1>2. Kept = SumOf(Backing) /\ Kept' = SumFunctionOnSet(amount', Backing \ {o})
  BY DEF Kept, SumOf
<1>3. Kept' = SumOf(Backing \ {o})
  BY <1>1, <1>2, SumAfter
<1>4. SumOf(Backing) = SumOf(Backing \ {o}) + amount[o] /\ amount[o] \in Nat /\ SumOf(Backing \ {o}) \in Nat
  BY <1>1, SumOfRemove
<1> QED BY <1>2, <1>3, <1>4

\* A new contract is owed and kept.
LEMMA SumsMore ==
  ASSUME TypeOK, RowsHeld, [Next]_vars, NEW o \in Offer, amount' = amount, o \notin Live,
         Live' \ Gone' = (Live \ Gone) \cup {o}, Backing' = Backing \cup {o}
  PROVE  Owed' = Owed + amount[o] /\ Kept' = Kept + amount[o]
<1> DEFINE open == Live \ Gone
<1>1. open \subseteq Offer /\ Backing \subseteq Offer /\ o \notin open /\ o \notin Backing
  BY DEF Live, Backing
<1>2. Owed = SumOf(open) /\ Owed' = SumOf(open \cup {o}) /\ Kept = SumOf(Backing) /\ Kept' = SumOf(Backing \cup {o})
  BY DEF Owed, Kept, SumOf
<1> HIDE DEF open
<1> QED BY <1>1, <1>2, SumOfAdd

\* The steps that neither make nor end a contract nor settle an exercise.
LEMMA SumsIdle ==
  ASSUME TypeOK, RowsHeld, [Next]_vars, UNCHANGED <<contract, exercise>>
  PROVE  Owed' = Owed /\ Kept' = Kept
<1>1. Live' \ Gone' = Live \ Gone /\ Backing' = Backing
  BY DEF Live, Gone, Backing
<1> QED BY <1>1, SumsSame

\* The premium's arrival, the request to exercise and the announcement of the
\* end of an exercise.
LEMMA SumsAnswer ==
  ASSUME TypeOK, RowsHeld, [Next]_vars, NEW o \in Offer,
         CompletePremiumTransfer(o) \/ ExerciseContract(o) \/ CompleteExercise(o)
  PROVE  Owed' = Owed /\ Kept' = Kept
<1>1. Live' \ Gone' = Live \ Gone
  BY DEF CompletePremiumTransfer, ExerciseContract, CompleteExercise, TypeOK, Live, Gone
<1>2. Backing' = Backing
  BY DEF CompletePremiumTransfer, ExerciseContract, CompleteExercise, TypeOK, Live, Gone, Backing
<1> QED BY <1>1, <1>2, SumsSame

\* The saga's calls: a running exercise is of a kept contract, before the
\* settlement date; it is kept until its shares are given back or delivered.
LEMMA SagaCall ==
  ASSUME TypeOK, RowsHeld, Calm, NEW o \in Offer, exercise[o] \in {"asked", "held"}
  PROVE  o \in Backing /\ o \in Live \ Gone /\ day = 0
  BY DEF TypeOK, Calm, Backing, Live, Gone

\* Reserve takes shares that are kept already.
LEMMA SumsReserve ==
  ASSUME TypeOK, RowsHeld, [Next]_vars, NEW o \in Offer, Reserve(o)
  PROVE  Owed' = Owed /\ Kept' = Kept
<1>1. Live' \ Gone' = Live \ Gone
  BY DEF Reserve, TypeOK, Live, Gone
<1>2. Backing' = Backing
  BY DEF Reserve, TypeOK, Live, Gone, Backing
<1> QED BY <1>1, <1>2, SumsSame

\* A failed exercise gives its shares back; they stay owed.
LEMMA SumsRelease ==
  ASSUME TypeOK, RowsHeld, Calm, [Next]_vars, NEW o \in Offer, Release(o)
  PROVE  Owed' = Owed /\ Kept' = Kept - amount[o]
<1>0. o \in Backing
  BY SagaCall DEF Release
<1>1. Live' \ Gone' = Live \ Gone
  BY DEF Release, TypeOK, Live, Gone
<1>2. Backing' = Backing \ {o}
  BY DEF Release, TypeOK, Live, Gone, Backing
<1>3. Kept' = Kept - amount[o]
  BY <1>0, <1>2, KeptLess
<1>4. Owed' = Owed
  <2> DEFINE open == Live \ Gone
  <2>1. open \subseteq Offer /\ \A p \in open : contract[p] # "none"
    BY DEF Live
  <2>2. Owed = SumOf(open) /\ Owed' = SumFunctionOnSet(amount', open)
    BY <1>1 DEF Owed, SumOf
  <2> HIDE DEF open
  <2> QED BY <2>1, <2>2, SumAfter
<1> QED BY <1>3, <1>4

\* Delivered shares are neither owed nor kept.
LEMMA SumsTransfer ==
  ASSUME TypeOK, RowsHeld, Calm, [Next]_vars, NEW o \in Offer, TransferOwnership(o)
  PROVE  Owed' = Owed - amount[o] /\ Kept' = Kept - amount[o]
<1>0. o \in Backing /\ o \in Live \ Gone
  BY SagaCall DEF TransferOwnership
<1>1. Live' \ Gone' = (Live \ Gone) \ {o}
  BY DEF TransferOwnership, TypeOK, Live, Gone
<1>2. Backing' = Backing \ {o}
  BY DEF TransferOwnership, TypeOK, Live, Gone, Backing
<1> QED BY <1>0, <1>1, <1>2, KeptLess, OwedLess

\* Accept adds its contract.
LEMMA SumsAccept ==
  ASSUME TypeOK, RowsHeld, [Next]_vars, NEW w \in Worker, Accept(w)
  PROVE  Owed' = Owed + amount[job[w].on] /\ Kept' = Kept + amount[job[w].on]
<1> DEFINE o == job[w].on
<1>1. OnOffer(w) /\ o \in Offer
  BY JobFacts DEF Accept, TypeOK, OnOffer
<1>2. contract[o] = "none" /\ exercise[o] = "none"
  BY <1>1 DEF Accept, RowsHeld
<1>3. contract' = [contract EXCEPT ![o] = "PENDING_PREMIUM"] /\ exercise' = exercise /\ amount' = amount
  BY DEF Accept
<1> HIDE DEF o
<1>4. o \notin Live /\ Live' \ Gone' = (Live \ Gone) \cup {o}
  BY <1>1, <1>2, <1>3 DEF TypeOK, Live, Gone
<1>5. Backing' = Backing \cup {o}
  BY <1>1, <1>2, <1>3 DEF TypeOK, Live, Gone, Backing
<1>6. Owed' = Owed + amount[o] /\ Kept' = Kept + amount[o]
  BY <1>1, <1>3, <1>4, <1>5, SumsMore
<1> QED BY <1>6 DEF o

\* Cancel and expire end a contract that is owed; a canceled one is kept, an
\* expired one is overdue.
LEMMA SumsEnd ==
  ASSUME TypeOK, RowsHeld, Calm, [Next]_vars, NEW w \in Worker, EndContract(w)
  PROVE  /\ job[w].on \in Live \ Gone /\ Owed' = Owed - amount[job[w].on]
         /\ \/ day = 2
            \/ job[w].on \in Backing /\ Kept' = Kept - amount[job[w].on]
<1> DEFINE o == job[w].on
<1>1. OnOffer(w) /\ o \in Offer
  BY JobFacts DEF EndContract, TypeOK, OnOffer
<1>2. \/ contract[o] = "PENDING_PREMIUM" /\ exercise[o] = "none"
      \/ day = 2 /\ contract[o] = "ACTIVE" /\ exercise[o] \in {"none", "released"}
  BY <1>1 DEF EndContract, RowsHeld, Calm
<1>3. contract' = [contract EXCEPT ![o] = EndStatus(job[w].op)] /\ exercise' = exercise /\ amount' = amount
  BY DEF EndContract, dealVars
<1>4. EndStatus(job[w].op) \notin {"ACTIVE", "PENDING_PREMIUM"}
  BY DEF EndStatus
<1> HIDE DEF o
<1>5. o \in Live \ Gone /\ Live' \ Gone' = (Live \ Gone) \ {o}
  BY <1>1, <1>2, <1>3, <1>4 DEF TypeOK, Live, Gone
<1>6. Owed' = Owed - amount[o]
  BY <1>5, OwedLess
<1>7. CASE contract[o] = "PENDING_PREMIUM" /\ exercise[o] = "none"
  <2>1. o \in Backing /\ Backing' = Backing \ {o}
    BY <1>1, <1>3, <1>4, <1>7 DEF TypeOK, Live, Gone, Backing
  <2>2. Kept' = Kept - amount[o]
    BY <2>1, KeptLess
  <2> QED BY <1>5, <1>6, <2>1, <2>2 DEF o
<1> QED BY <1>2, <1>5, <1>6, <1>7 DEF o

\* The numbers of a position, and of what a transaction has read or will write.
LEMMA Numbers ==
  ASSUME TypeOK
  PROVE  /\ pos.qty \in Int /\ pos.reserved \in Nat /\ pos.public \in Int
         /\ \A o \in Offer : amount[o] \in Nat
         /\ \A w \in Worker : OnOffer(w) => job[w].on \in Offer /\ job[w].op \in Op
         /\ \A w \in Worker : job[w].pc = "write" =>
                /\ job[w].seen.qty \in Int /\ job[w].seen.reserved \in Nat /\ job[w].seen.public \in Int
         /\ \A w \in Worker : job[w].pc = "publish" => job[w].public \in Nat
<1>1. pos \in Position /\ \A w \in Worker : job[w] \in Job
  BY DEF TypeOK
<1> QED BY <1>1, PositionFacts, JobFacts, EnvFacts DEF OnOffer

\* An idle worker promises nothing.
LEMMA IdleCovers == ASSUME NEW w, job[w] = Idle PROVE CoverJob(w) /\ ExactJob(w)
  BY DEF CoverJob, ExactJob, Idle, OnOffer

\* Steps that leave the position, the jobs and the sums alone.
LEMMA CoverRest ==
  ASSUME TypeOK, RowsHeld, Cover, [Next]_vars, pos' = pos, job' = job, day' = 0 => day = 0,
         Owed' = Owed, Kept' = Kept
  PROVE  Cover'
<1>1. CoverPos'
  BY DEF Cover, CoverPos
<1>2. ASSUME NEW w \in Worker PROVE CoverJob(w)'
  <2>1. OnOffer(w) => amount'[job[w].on] = amount[job[w].on]
    BY JobTerms
  <2> QED BY <2>1 DEF Cover, CoverJob, OnOffer
<1> QED BY <1>1, <1>2 DEF Cover

\* A worker enters a transaction or reads the position.
LEMMA CoverJobStep ==
  ASSUME TypeOK, RowsHeld, Cover, [Next]_vars, pos' = pos, day' = day, Owed' = Owed, Kept' = Kept,
         NEW w \in Worker, NEW j, job' = [job EXCEPT ![w] = j], CoverJob(w)'
  PROVE  Cover'
<1>1. CoverPos'
  BY DEF Cover, CoverPos
<1>2. ASSUME NEW v \in Worker, v # w PROVE CoverJob(v)'
  <2>1. OnOffer(v) => amount'[job[v].on] = amount[job[v].on]
    BY JobTerms
  <2>2. job'[v] = job[v]
    BY <1>2 DEF TypeOK
  <2> QED BY <2>1, <2>2 DEF Cover, CoverJob, OnOffer
<1> QED BY <1>1, <1>2 DEF Cover

\* The last write of the only running transaction.
LEMMA CoverCommit ==
  ASSUME TypeOK, RowsHeld, Serial, NEW w \in Worker, job[w] # Idle, job' = [job EXCEPT ![w] = Idle], CoverPos'
  PROVE  Cover'
<1>1. ASSUME NEW v \in Worker PROVE job'[v] = Idle
  BY OneWorker DEF TypeOK
<1>2. ASSUME NEW v \in Worker PROVE CoverJob(v)'
  BY <1>1, <1>2 DEF CoverJob, Idle, OnOffer
<1> QED BY <1>2 DEF Cover

\* Every step keeps what is owed covered, as long as requests are served one at a
\* time and no saga outlasts the settlement date.
LEMMA CoverStep ==
  ASSUME TypeOK, RowsHeld, Calm, Cover, Serial, "late" \notin env.may, [Next]_vars
  PROVE  Cover'
<1>a. CoverPos /\ \A w \in Worker : CoverJob(w)
  BY DEF Cover
<1>b. Owed \in Nat /\ Kept \in Nat /\ Kept =< Owed
  BY KeptOwed
<1>c. pos.qty \in Int /\ pos.reserved \in Nat /\ pos.public \in Int /\ pos \in Position
  BY Numbers DEF TypeOK
<1>1. ASSUME NEW o \in Offer, NEW a, NEW s, CreateOffer(o, a) \/ CounterOffer(o, a, s) PROVE Cover'
  BY <1>1, CoverRest, SumsIdle DEF CreateOffer, CounterOffer
<1>2. ASSUME NEW o \in Offer, Reject(o) \/ Withdraw(o) PROVE Cover'
  BY <1>2, CoverRest, SumsIdle DEF Reject, Withdraw
<1>3. ASSUME NEW o \in Offer, CompletePremiumTransfer(o) \/ ExerciseContract(o) \/ CompleteExercise(o) PROVE Cover'
  <2>1. Owed' = Owed /\ Kept' = Kept
    BY <1>3, SumsAnswer
  <2> QED BY <1>3, <2>1, CoverRest DEF CompletePremiumTransfer, ExerciseContract, CompleteExercise
<1>4. ASSUME NEW o \in Offer, Reserve(o) PROVE Cover'
  <2>1. o \in Backing /\ day = 0
    BY <1>4, SagaCall DEF Reserve
  <2>2. amount[o] =< Kept /\ amount[o] \in Nat
    BY <2>1, KeptOwed, EnvFacts
  <2>3. Consumes(o)
    BY <1>a, <1>b, <1>c, <2>1, <2>2 DEF CoverPos, Consumes
  <2>4. Owed' = Owed /\ Kept' = Kept
    BY <1>4, SumsReserve
  <2> QED BY <1>4, <2>3, <2>4, CoverRest DEF Reserve
<1>5. ASSUME NEW o \in Offer, Release(o) PROVE Cover'
  <2>1. o \in Backing /\ day = 0 /\ day' = 0
    BY <1>5, SagaCall DEF Release
  <2>2. amount[o] =< Kept /\ amount[o] \in Nat
    BY <2>1, KeptOwed, EnvFacts
  <2>3. Owed' = Owed /\ Kept' = Kept - amount[o]
    BY <1>5, SumsRelease
  <2>4. pos'.qty = pos.qty /\ pos'.public = pos.public /\ pos'.reserved = Larger(0, pos.reserved - amount[o])
    BY <1>5, <1>c DEF Release, Position
  <2>5. CoverPos'
    BY <1>a, <1>b, <1>c, <2>1, <2>2, <2>3, <2>4 DEF CoverPos, Larger
  <2>6. job' = job /\ amount' = amount
    BY <1>5 DEF Release, dealVars
  <2>7. ASSUME NEW w \in Worker PROVE CoverJob(w)'
    <3>1. CoverJob(w)
      BY <1>a
    <3>2. /\ job[w].pc = "write" => job[w].seen.reserved \in Nat
          /\ job[w].pc = "publish" => job[w].public \in Nat
      BY Numbers
    <3> QED BY <1>b, <1>c, <2>1, <2>2, <2>3, <2>4, <2>6, <3>1, <3>2 DEF CoverJob, OnOffer
  <2> QED BY <2>5, <2>7 DEF Cover
<1>6. ASSUME NEW o \in Offer, TransferOwnership(o) PROVE Cover'
  <2>1. o \in Backing /\ day = 0 /\ day' = 0
    BY <1>6, SagaCall DEF TransferOwnership
  <2>2. amount[o] =< Kept /\ amount[o] \in Nat
    BY <2>1, KeptOwed, EnvFacts
  <2>3. Owed' = Owed - amount[o] /\ Kept' = Kept - amount[o]
    BY <1>6, SumsTransfer
  <2>4. /\ pos'.qty = pos.qty - amount[o] /\ pos'.public = pos.public
        /\ pos'.reserved = Larger(0, pos.reserved - amount[o])
    BY <1>6, <1>c DEF TransferOwnership, Position
  <2>5. CoverPos'
    BY <1>a, <1>b, <1>c, <2>1, <2>2, <2>3, <2>4 DEF CoverPos, Larger
  <2>6. job' = job /\ amount' = amount
    BY <1>6 DEF TransferOwnership, dealVars
  <2>7. ASSUME NEW w \in Worker PROVE CoverJob(w)'
    <3>1. CoverJob(w)
      BY <1>a
    <3>2. /\ OnOffer(w) => job[w].on \in Offer /\ job[w].op \in Op /\ amount[job[w].on] \in Nat
          /\ job[w].pc = "write" =>
                job[w].seen.reserved \in Nat /\ job[w].seen.qty \in Int /\ job[w].seen.public \in Int
          /\ job[w].pc = "publish" => job[w].public \in Nat
      BY Numbers
    <3>3. OnOffer(w)' <=> OnOffer(w)
      BY <2>6 DEF OnOffer
    <3>4. OnOffer(w) /\ job[w].op = "accept" => Owed' + amount[job[w].on] =< pos'.qty
      BY <1>b, <1>c, <2>2, <2>3, <2>4, <3>1, <3>2 DEF CoverJob
    <3>5. ASSUME job[w].pc = "write", job[w].op # "accept"
          PROVE  Smaller(job[w].seen.qty, pos.public + amount[job[w].on]) =< pos'.qty
      <4>1. OnOffer(w) /\ job[w].op = "cancel"
        BY <2>1, <3>2, <3>5 DEF OnOffer, Calm, Op
      <4>2. contract[job[w].on] = "PENDING_PREMIUM" /\ exercise[job[w].on] = "none" /\ job[w].on \in Offer
        BY <3>2, <4>1 DEF RowsHeld
      <4>3. job[w].on \in Backing /\ job[w].on # o
        BY <1>6, <4>2 DEF Backing, Live, Gone, TransferOwnership
      <4>4. amount[job[w].on] + amount[o] =< Kept
        BY <2>1, <4>3, KeptOwed
      <4>5. pos.public + amount[job[w].on] =< pos.qty - amount[o]
        BY <1>a, <1>b, <1>c, <2>1, <2>2, <3>2, <4>1, <4>4 DEF CoverPos
      <4> QED BY <1>c, <2>2, <2>4, <3>2, <3>5, <4>1, <4>5 DEF Smaller
    <3>6. job[w].pc = "write" =>
            /\ job[w].seen.public = pos'.public /\ job[w].seen.qty >= 0
            /\ job[w].seen.reserved >= Kept'
      BY <1>b, <2>1, <2>2, <2>3, <2>4, <3>1, <3>2 DEF CoverJob
    <3>7. job[w].pc = "publish" => job[w].public =< pos'.qty /\ job[w].public + Kept' =< pos'.qty
      BY <1>b, <1>c, <2>1, <2>2, <2>3, <2>4, <3>1, <3>2 DEF CoverJob
    <3> QED BY <2>1, <2>4, <2>6, <3>3, <3>4, <3>5, <3>6, <3>7 DEF CoverJob
  <2> QED BY <2>5, <2>7 DEF Cover
<1>7. ASSUME NEW w \in env.workers, NEW o \in Offer, BeginAccept(w, o) PROVE Cover'
  <2> DEFINE j == [pc |-> "read", op |-> "accept", on |-> o]
  <2>1. w \in Worker /\ job' = [job EXCEPT ![w] = j] /\ pos' = pos /\ day' = day /\ amount' = amount
        /\ UNCHANGED <<contract, exercise>>
    BY <1>7, EnvFacts DEF BeginAccept, dealVars
  <2>2. Owed' = Owed /\ Kept' = Kept
    BY <2>1, SumsIdle
  <2>3. Owed + amount[o] =< pos.qty
    <3>1. SumOf(Live) + amount[o] =< SellerOwned
      BY <1>7 DEF BeginAccept, Covered
    <3>2. SellerOwned \in Int /\ SellerOwned =< pos.qty
      BY <1>a, <1>c DEF SellerOwned, CoverPos
    <3>3. SumOf(Live) \in Nat /\ Owed =< SumOf(Live) /\ amount[o] \in Nat
      BY KeptOwed, EnvFacts
    <3> QED BY <1>b, <1>c, <3>1, <3>2, <3>3
  <2>4. job'[w] = j
    BY <2>1 DEF TypeOK
  <2>5. CoverJob(w)'
    BY <2>1, <2>2, <2>3, <2>4 DEF CoverJob, OnOffer
  <2> HIDE DEF j
  <2> QED BY <2>1, <2>2, <2>5, CoverJobStep
<1>8. ASSUME NEW w \in env.workers, NEW o \in Offer, NEW p \in {"cancel", "expire"},
             job' = [job EXCEPT ![w] = [pc |-> "read", op |-> p, on |-> o]],
             UNCHANGED <<contract, exercise, pos, day>>
      PROVE  Cover'
  <2> DEFINE j == [pc |-> "read", op |-> p, on |-> o]
  <2>1. w \in Worker /\ job' = [job EXCEPT ![w] = j] /\ pos' = pos /\ day' = day
    BY <1>8, EnvFacts
  <2>2. Owed' = Owed /\ Kept' = Kept
    BY <1>8, SumsIdle
  <2>3. job'[w] = j
    BY <2>1 DEF TypeOK
  <2>4. CoverJob(w)'
    BY <2>3 DEF CoverJob, OnOffer
  <2> HIDE DEF j
  <2> QED BY <2>1, <2>2, <2>4, CoverJobStep
<1>9. ASSUME NEW w \in env.workers, NEW o \in Offer, BeginFailPremiumTransfer(w, o) \/ BeginExpire(w, o)
      PROVE  Cover'
  BY <1>8, <1>9 DEF BeginFailPremiumTransfer, BeginExpire
<1>10. ASSUME NEW w \in env.workers, NEW n \in Nat, NEW x, n =< pos.qty, day = 0 => n + Kept =< pos.qty,
              job' = [job EXCEPT ![w] = [pc |-> "publish", public |-> n, isPublic |-> x]],
              UNCHANGED <<contract, exercise, pos, day>>
       PROVE  Cover'
  <2> DEFINE j == [pc |-> "publish", public |-> n, isPublic |-> x]
  <2>1. w \in Worker /\ job' = [job EXCEPT ![w] = j] /\ pos' = pos /\ day' = day
    BY <1>10, EnvFacts
  <2>2. Owed' = Owed /\ Kept' = Kept
    BY <1>10, SumsIdle
  <2>3. job'[w] = j
    BY <2>1 DEF TypeOK
  <2>4. CoverJob(w)'
    BY <1>10, <2>1, <2>2, <2>3 DEF CoverJob, OnOffer
  <2> HIDE DEF j
  <2> QED BY <2>1, <2>2, <2>4, CoverJobStep
<1>11. ASSUME NEW w \in env.workers, NEW n \in env.amounts, BeginAddPosition(w, n) \/ BeginUpdatePosition(w, n)
       PROVE  Cover'
  <2>1. n \in Nat /\ n =< pos.qty - pos.reserved
    BY <1>11, EnvFacts DEF BeginAddPosition, BeginUpdatePosition, MayExpose
  <2>2. n =< pos.qty /\ (day = 0 => n + Kept =< pos.qty)
    BY <1>a, <1>b, <1>c, <2>1 DEF CoverPos
  <2>3. UNCHANGED <<contract, exercise, pos, day>>
    BY <1>11 DEF BeginAddPosition, BeginUpdatePosition
  <2>4. \E x : job' = [job EXCEPT ![w] = [pc |-> "publish", public |-> n, isPublic |-> x]]
    BY <1>11, Zenon DEF BeginAddPosition, BeginUpdatePosition
  <2> QED BY <1>10, <2>1, <2>2, <2>3, <2>4
<1>12. ASSUME NEW w \in env.workers, BeginRemovePosition(w) PROVE Cover'
  <2>1. 0 =< pos.qty /\ (day = 0 => 0 + Kept =< pos.qty) /\ 0 \in Nat
    BY <1>a, <1>b, <1>c DEF CoverPos
  <2> QED BY <1>10, <1>12, <2>1 DEF BeginRemovePosition
<1>13. ASSUME NEW w \in env.workers, CommitPosition(w) PROVE Cover'
  <2>1. w \in Worker /\ job[w] # Idle /\ job' = [job EXCEPT ![w] = Idle] /\ day' = day
        /\ UNCHANGED <<contract, exercise>> /\ job[w].pc = "publish"
    BY <1>13, EnvFacts DEF CommitPosition, Idle
  <2>2. Owed' = Owed /\ Kept' = Kept
    BY <2>1, SumsIdle
  <2>3. pos'.qty = pos.qty /\ pos'.reserved = pos.reserved /\ pos'.public = job[w].public /\ job[w].public \in Nat
    BY <1>13, <1>c, <2>1, Numbers DEF CommitPosition, Position
  <2>4. CoverJob(w)
    BY <1>a, <2>1
  <2>5. CoverPos'
    BY <1>a, <1>b, <1>c, <2>1, <2>2, <2>3, <2>4 DEF CoverPos, CoverJob
  <2> QED BY <2>1, <2>5, CoverCommit
<1>14. ASSUME NEW w \in env.workers, ReadPosition(w) PROVE Cover'
  <2> DEFINE j == [pc |-> "write", op |-> job[w].op, on |-> job[w].on, seen |-> pos]
  <2>1. w \in Worker /\ job' = [job EXCEPT ![w] = j] /\ pos' = pos /\ day' = day /\ amount' = amount
        /\ UNCHANGED <<contract, exercise>> /\ OnOffer(w)
    BY <1>14, EnvFacts DEF ReadPosition, dealVars, OnOffer
  <2>2. Owed' = Owed /\ Kept' = Kept
    BY <2>1, SumsIdle
  <2>3. job'[w] = j
    BY <2>1 DEF TypeOK
  <2>4. j.pc = "write" /\ j.op = job[w].op /\ j.on = job[w].on /\ j.seen = pos
    OBVIOUS
  <2> HIDE DEF j
  <2>5. amount[job[w].on] \in Nat
    BY <2>1, Numbers
  <2>6. Smaller(pos.qty, pos.public + amount[job[w].on]) =< pos.qty /\ pos.qty >= 0
    BY <1>a, <1>c, <2>5 DEF Smaller, CoverPos
  <2>7. CoverJob(w)
    BY <1>a, <2>1
  <2>8. CoverJob(w)'
    BY <1>a, <2>1, <2>2, <2>3, <2>4, <2>6, <2>7 DEF CoverJob, CoverPos, OnOffer
  <2> QED BY <2>1, <2>2, <2>8, CoverJobStep
<1>15. ASSUME NEW w \in env.workers, Accept(w) PROVE Cover'
  <2>1. w \in Worker /\ job[w] # Idle /\ job' = [job EXCEPT ![w] = Idle] /\ day' = day /\ OnOffer(w)
        /\ job[w].pc = "write" /\ job[w].op = "accept"
    BY <1>15, EnvFacts DEF Accept, Idle, OnOffer
  <2>2. Owed' = Owed + amount[job[w].on] /\ Kept' = Kept + amount[job[w].on]
    BY <1>15, <2>1, SumsAccept
  <2>3. amount[job[w].on] \in Nat /\ job[w].seen.reserved \in Nat /\ job[w].seen.public \in Int
    BY <2>1, Numbers
  <2>4. /\ pos'.qty = pos.qty /\ pos'.reserved = job[w].seen.reserved + amount[job[w].on]
        /\ pos'.public = Larger(0, job[w].seen.public - amount[job[w].on])
    BY <1>15, <1>c DEF Accept, ReserveForContract, Position
  <2>5. CoverJob(w)
    BY <1>a, <2>1
  <2>6. /\ Owed + amount[job[w].on] =< pos.qty /\ job[w].seen.public = pos.public
        /\ day = 0 => job[w].seen.reserved >= Kept
    BY <2>1, <2>5 DEF CoverJob
  <2>7. CoverPos'
    BY <1>a, <1>b, <1>c, <2>1, <2>2, <2>3, <2>4, <2>6 DEF CoverPos, Larger
  <2> QED BY <2>1, <2>7, CoverCommit
<1>16. ASSUME NEW w \in env.workers, EndContract(w) PROVE Cover'
  <2>1. w \in Worker /\ job[w] # Idle /\ job' = [job EXCEPT ![w] = Idle] /\ day' = day /\ OnOffer(w)
        /\ job[w].pc = "write" /\ job[w].op # "accept"
    BY <1>16, EnvFacts DEF EndContract, Idle, OnOffer
  <2>2. /\ Owed' = Owed - amount[job[w].on]
        /\ \/ day = 2
           \/ Kept' = Kept - amount[job[w].on] /\ amount[job[w].on] =< Kept
    BY <1>16, <2>1, SumsEnd, KeptOwed
  <2>3. amount[job[w].on] \in Nat /\ job[w].seen.reserved \in Nat /\ job[w].seen.public \in Int
        /\ job[w].seen.qty \in Int
    BY <2>1, Numbers
  <2>4. /\ pos'.qty = pos.qty /\ pos'.reserved = Larger(0, job[w].seen.reserved - amount[job[w].on])
        /\ pos'.public = Smaller(job[w].seen.qty, job[w].seen.public + amount[job[w].on])
    BY <1>16, <1>c DEF EndContract, ReleaseForContract, Position
  <2>5. CoverJob(w)
    BY <1>a, <2>1
  <2>6. /\ job[w].seen.public = pos.public /\ job[w].seen.qty >= 0
        /\ day = 0 => job[w].seen.reserved >= Kept
        /\ Smaller(job[w].seen.qty, pos.public + amount[job[w].on]) =< pos.qty
    BY <2>1, <2>5 DEF CoverJob
  <2>7. CoverPos'
    BY <1>a, <1>b, <1>c, <2>1, <2>2, <2>3, <2>4, <2>6 DEF CoverPos, Larger, Smaller
  <2> QED BY <2>1, <2>7, CoverCommit
<1>17. CASE Tick
  <2>1. Owed' = Owed /\ Kept' = Kept
    BY <1>17, SumsIdle DEF Tick
  <2>2. pos' = pos /\ job' = job /\ (day' = 0 => day = 0)
    BY <1>17 DEF Tick, TypeOK
  <2> QED BY <2>1, <2>2, CoverRest
<1>18. CASE ListOverdue \/ UNCHANGED vars
  BY <1>18, SumsIdle, CoverRest DEF ListOverdue, vars
<1> QED BY <1>1, <1>2, <1>3, <1>4, <1>5, <1>6, <1>7, <1>9, <1>11, <1>12, <1>13, <1>14, <1>15, <1>16, <1>17,
           <1>18 DEF Next, OfferStep, WorkerStep

\* Nothing is owed at the start.
LEMMA CoverInit == Init => Owed = 0 /\ Kept = 0 /\ CoverInv
<1> SUFFICES ASSUME Init PROVE Owed = 0 /\ Kept = 0 /\ CoverInv
  OBVIOUS
<1>1. CalmInv /\ TypeOK
  BY CalmInit, TypeInit
<1>2. Live \ Gone = {} /\ Backing = {}
  BY DEF Init, Live, Gone, Backing
<1>3. Owed = 0 /\ Kept = 0
  BY <1>2, SumEmpty DEF Owed, Kept, SumOf
<1>4. pos.qty \in Nat /\ pos.reserved = 0 /\ pos.public = 0
  BY <1>1, EnvFacts DEF Init
<1>5. CoverPos
  BY <1>3, <1>4 DEF CoverPos
<1>6. ASSUME NEW w \in Worker PROVE CoverJob(w)
  BY IdleCovers DEF Init
<1> QED BY <1>1, <1>3, <1>5, <1>6 DEF CoverInv, Cover

\* Every step keeps the invariant behind NotOversold.
LEMMA CoverNext == CoverInv /\ [Next]_vars => CoverInv'
<1> SUFFICES ASSUME CoverInv, [Next]_vars PROVE CoverInv'
  OBVIOUS
<1>1. CalmInv /\ TypeOK /\ RowsHeld /\ UNCHANGED env
  BY DEF CoverInv, CalmInv, DeskInv, Next, vars
<1>2. ASSUME Serial', "late" \notin env'.may PROVE Cover'
  <2>1. Serial /\ "late" \notin env.may
    BY <1>1, <1>2 DEF Serial
  <2> QED BY <1>1, <2>1, CoverStep DEF CoverInv, CalmInv
<1> QED BY <1>1, <1>2, CalmNext DEF CoverInv

\* When requests are served one at a time and no saga outlasts the settlement
\* date, the seller never owes more shares than he has: Accept's reserved-stock
\* check is enough although it counts the live contracts and not the reserved
\* quantity, whichever saga calls fall between its read and its write and however
\* many exercises fail.
THEOREM OversoldSafety == Spec => []NotOversold
<1>1. CoverInv => NotOversold
  BY DEF CoverInv, Cover, CoverPos, NotOversold
<1> QED BY <1>1, CoverInit, CoverNext, PTL DEF Spec
-------------------------------------------------------------------------------
(* The reserved quantity, when nothing of EnvClass happens. *)

\* A worker's step that leaves the position and the sums alone.
LEMMA ExactJobStep ==
  ASSUME TypeOK, Exact, pos' = pos, exercise' = exercise, Owed' = Owed,
         NEW w \in Worker, NEW j, job' = [job EXCEPT ![w] = j], ExactJob(w)'
  PROVE  Exact'
<1>1. ExactPos'
  BY DEF Exact, ExactPos
<1>2. ASSUME NEW v \in Worker, v # w PROVE ExactJob(v)'
  <2>1. job'[v] = job[v]
    BY <1>2 DEF TypeOK
  <2> QED BY <2>1 DEF Exact, ExactJob
<1> QED BY <1>1, <1>2 DEF Exact

\* The last write of the only running transaction.
LEMMA ExactCommit ==
  ASSUME TypeOK, RowsHeld, Serial, NEW w \in Worker, job[w] # Idle, job' = [job EXCEPT ![w] = Idle], ExactPos'
  PROVE  Exact'
<1>1. ASSUME NEW v \in Worker PROVE job'[v] = Idle
  BY OneWorker DEF TypeOK
<1>2. ASSUME NEW v \in Worker PROVE ExactJob(v)'
  BY <1>1, <1>2 DEF ExactJob, Idle
<1> QED BY <1>2 DEF Exact

\* Every step keeps the reserved quantity exact.
LEMMA ExactStep ==
  ASSUME TypeOK, RowsHeld, Calm, Cover, Exact, Serial, env.may = {}, [Next]_vars
  PROVE  Exact'
<1>a. ExactPos /\ CoverPos /\ \A w \in Worker : CoverJob(w) /\ ExactJob(w)
  BY DEF Cover, Exact
<1>b. Owed \in Nat
  BY KeptOwed
<1>c. pos.qty \in Int /\ pos.reserved \in Nat /\ pos.public \in Int /\ pos \in Position
  BY Numbers DEF TypeOK
<1>1. ASSUME UNCHANGED <<pos, job>>, Owed' = Owed, \A o \in Offer : exercise'[o] # "released" PROVE Exact'
  BY <1>1 DEF Exact, ExactPos, ExactJob
<1>2. ASSUME NEW o \in Offer, NEW a, NEW s, CreateOffer(o, a) \/ CounterOffer(o, a, s) \/ Reject(o) \/ Withdraw(o)
      PROVE  Exact'
  <2>1. UNCHANGED <<contract, exercise, pos, job>>
    BY <1>2 DEF CreateOffer, CounterOffer, Reject, Withdraw
  <2> QED BY <1>1, <1>a, <2>1, SumsIdle DEF ExactPos
<1>3. ASSUME NEW o \in Offer, CompletePremiumTransfer(o) \/ ExerciseContract(o) \/ CompleteExercise(o) PROVE Exact'
  <2>1. Owed' = Owed
    BY <1>3, SumsAnswer
  <2>2. UNCHANGED <<pos, job>> /\ \A p \in Offer : exercise'[p] # "released"
    BY <1>3, <1>a DEF CompletePremiumTransfer, ExerciseContract, CompleteExercise, ExactPos, TypeOK
  <2> QED BY <1>1, <2>1, <2>2
<1>4. ASSUME NEW o \in Offer, Reserve(o) PROVE Exact'
  <2>1. o \in Live \ Gone
    BY <1>4, SagaCall DEF Reserve
  <2>2. amount[o] =< Owed /\ amount[o] \in Nat
    BY <2>1, KeptOwed, EnvFacts
  <2>3. Consumes(o)
    BY <1>a, <1>b, <1>c, <2>2 DEF ExactPos, Consumes
  <2>4. Owed' = Owed
    BY <1>4, SumsReserve
  <2>5. UNCHANGED <<pos, job>> /\ \A p \in Offer : exercise'[p] # "released"
    BY <1>4, <1>a, <2>3 DEF Reserve, ExactPos, TypeOK
  <2> QED BY <1>1, <2>4, <2>5
<1>5. ASSUME NEW o \in Offer PROVE ~Release(o)
  BY DEF Release
<1>6. ASSUME NEW o \in Offer, TransferOwnership(o) PROVE Exact'
  <2>1. o \in Live \ Gone
    BY <1>6, SagaCall DEF TransferOwnership
  <2>2. amount[o] =< Owed /\ amount[o] \in Nat
    BY <2>1, KeptOwed, EnvFacts
  <2>3. Owed' = Owed - amount[o]
    BY <1>6, SumsTransfer
  <2>4. /\ pos'.qty = pos.qty - amount[o] /\ pos'.public = pos.public
        /\ pos'.reserved = Larger(0, pos.reserved - amount[o])
    BY <1>6, <1>c DEF TransferOwnership, Position
  <2>5. \A p \in Offer : exercise'[p] # "released"
    BY <1>6, <1>a DEF TransferOwnership, ExactPos, TypeOK
  <2>6. ExactPos'
    BY <1>a, <1>b, <1>c, <2>2, <2>3, <2>4, <2>5 DEF ExactPos, Larger
  <2>7. \A w \in Worker : job'[w] = Idle
    BY <1>6 DEF TransferOwnership, SagaMayCall, Quiet
  <2>8. \A w \in Worker : ExactJob(w)'
    BY <2>7 DEF ExactJob, Idle
  <2> QED BY <2>6, <2>8 DEF Exact
<1>7. ASSUME NEW w \in env.workers, NEW o \in Offer, NEW p,
             job' = [job EXCEPT ![w] = [pc |-> "read", op |-> p, on |-> o]],
             UNCHANGED <<contract, exercise, pos>>
      PROVE  Exact'
  <2> DEFINE j == [pc |-> "read", op |-> p, on |-> o]
  <2>1. w \in Worker /\ job' = [job EXCEPT ![w] = j] /\ pos' = pos /\ exercise' = exercise
    BY <1>7, EnvFacts
  <2>2. Owed' = Owed
    BY <1>7, SumsIdle
  <2>3. job'[w] = j
    BY <2>1 DEF TypeOK
  <2>4. ExactJob(w)'
    BY <2>3 DEF ExactJob
  <2> HIDE DEF j
  <2> QED BY <2>1, <2>2, <2>4, ExactJobStep
<1>8. ASSUME NEW w \in env.workers, NEW o \in Offer,
             BeginAccept(w, o) \/ BeginFailPremiumTransfer(w, o) \/ BeginExpire(w, o)
      PROVE  Exact'
  BY <1>7, <1>8 DEF BeginAccept, BeginFailPremiumTransfer, BeginExpire
<1>9. ASSUME NEW w \in env.workers, NEW n \in Nat, NEW x, n =< pos.qty - pos.reserved,
             job' = [job EXCEPT ![w] = [pc |-> "publish", public |-> n, isPublic |-> x]],
             UNCHANGED <<contract, exercise, pos>>
      PROVE  Exact'
  <2> DEFINE j == [pc |-> "publish", public |-> n, isPublic |-> x]
  <2>1. w \in Worker /\ job' = [job EXCEPT ![w] = j] /\ pos' = pos /\ exercise' = exercise
    BY <1>9, EnvFacts
  <2>2. Owed' = Owed
    BY <1>9, SumsIdle
  <2>3. job'[w] = j
    BY <2>1 DEF TypeOK
  <2>4. ExactJob(w)'
    BY <1>9, <2>1, <2>3 DEF ExactJob
  <2> HIDE DEF j
  <2> QED BY <2>1, <2>2, <2>4, ExactJobStep
<1>10. ASSUME NEW w \in env.workers, NEW n \in env.amounts, BeginAddPosition(w, n) \/ BeginUpdatePosition(w, n)
       PROVE  Exact'
  <2>1. n \in Nat /\ n =< pos.qty - pos.reserved /\ UNCHANGED <<contract, exercise, pos>>
    BY <1>10, EnvFacts DEF BeginAddPosition, BeginUpdatePosition, MayExpose
  <2>2. \E x : job' = [job EXCEPT ![w] = [pc |-> "publish", public |-> n, isPublic |-> x]]
    BY <1>10, Zenon DEF BeginAddPosition, BeginUpdatePosition
  <2> QED BY <1>9, <2>1, <2>2
<1>11. ASSUME NEW w \in env.workers, BeginRemovePosition(w) PROVE Exact'
  <2>1. 0 =< pos.qty - pos.reserved /\ 0 \in Nat
    BY <1>a, <1>b, <1>c DEF CoverPos, ExactPos
  <2> QED BY <1>9, <1>11, <2>1 DEF BeginRemovePosition
<1>12. ASSUME NEW w \in env.workers, CommitPosition(w) PROVE Exact'
  <2>1. w \in Worker /\ job[w] # Idle /\ job' = [job EXCEPT ![w] = Idle]
        /\ UNCHANGED <<contract, exercise>> /\ job[w].pc = "publish"
    BY <1>12, EnvFacts DEF CommitPosition, Idle
  <2>2. Owed' = Owed
    BY <2>1, SumsIdle
  <2>3. pos'.qty = pos.qty /\ pos'.reserved = pos.reserved /\ pos'.public = job[w].public
    BY <1>12, <1>c, <2>1 DEF CommitPosition, Position
  <2>4. job[w].public =< pos.qty - pos.reserved
    BY <1>a, <2>1 DEF ExactJob
  <2>5. ExactPos'
    BY <1>a, <2>1, <2>2, <2>3, <2>4 DEF ExactPos
  <2> QED BY <2>1, <2>5, ExactCommit
<1>13. ASSUME NEW w \in env.workers, ReadPosition(w) PROVE Exact'
  <2> DEFINE j == [pc |-> "write", op |-> job[w].op, on |-> job[w].on, seen |-> pos]
  <2>1. w \in Worker /\ job' = [job EXCEPT ![w] = j] /\ pos' = pos /\ UNCHANGED <<contract, exercise>>
    BY <1>13, EnvFacts DEF ReadPosition
  <2>2. Owed' = Owed
    BY <2>1, SumsIdle
  <2>3. job'[w] = j
    BY <2>1 DEF TypeOK
  <2>4. ExactJob(w)'
    BY <2>1, <2>3 DEF ExactJob
  <2> HIDE DEF j
  <2> QED BY <2>1, <2>2, <2>4, ExactJobStep
<1>14. ASSUME NEW w \in env.workers, Accept(w) PROVE Exact'
  <2>1. w \in Worker /\ job[w] # Idle /\ job' = [job EXCEPT ![w] = Idle] /\ exercise' = exercise /\ OnOffer(w)
        /\ job[w].pc = "write" /\ job[w].op = "accept"
    BY <1>14, EnvFacts DEF Accept, Idle, OnOffer
  <2>2. Owed' = Owed + amount[job[w].on]
    BY <1>14, <2>1, SumsAccept
  <2>3. amount[job[w].on] \in Nat
    BY <2>1, Numbers
  <2>4. job[w].seen = pos /\ Owed + amount[job[w].on] =< pos.qty
    BY <1>a, <2>1 DEF ExactJob, CoverJob
  <2>5. /\ pos'.qty = pos.qty /\ pos'.reserved = pos.reserved + amount[job[w].on]
        /\ pos'.public = Larger(0, pos.public - amount[job[w].on])
    BY <1>14, <1>c, <2>4 DEF Accept, ReserveForContract, Position
  <2>6. ExactPos'
    BY <1>a, <1>b, <1>c, <2>1, <2>2, <2>3, <2>4, <2>5 DEF ExactPos, Larger
  <2> QED BY <2>1, <2>6, ExactCommit
<1>15. ASSUME NEW w \in env.workers, EndContract(w) PROVE Exact'
  <2>1. w \in Worker /\ job[w] # Idle /\ job' = [job EXCEPT ![w] = Idle] /\ exercise' = exercise /\ OnOffer(w)
        /\ job[w].pc = "write"
    BY <1>15, EnvFacts DEF EndContract, Idle, OnOffer
  <2>2. Owed' = Owed - amount[job[w].on] /\ amount[job[w].on] =< Owed
    BY <1>15, <2>1, SumsEnd, KeptOwed
  <2>3. amount[job[w].on] \in Nat /\ job[w].seen = pos
    BY <1>a, <2>1, Numbers DEF ExactJob
  <2>5. /\ pos'.qty = pos.qty /\ pos'.reserved = Larger(0, pos.reserved - amount[job[w].on])
        /\ pos'.public = Smaller(pos.qty, pos.public + amount[job[w].on])
    BY <1>15, <1>c, <2>3 DEF EndContract, ReleaseForContract, Position
  <2>6. ExactPos'
    BY <1>a, <1>b, <1>c, <2>1, <2>2, <2>3, <2>5 DEF ExactPos, Larger, Smaller
  <2> QED BY <2>1, <2>6, ExactCommit
<1>16. CASE Tick \/ ListOverdue \/ UNCHANGED vars
  <2>1. UNCHANGED <<contract, exercise, pos, job>>
    BY <1>16 DEF Tick, ListOverdue, vars
  <2> QED BY <1>1, <1>a, <2>1, SumsIdle DEF ExactPos
<1> QED BY <1>2, <1>3, <1>4, <1>5, <1>6, <1>8, <1>10, <1>11, <1>12, <1>13, <1>14, <1>15, <1>16
        DEF Next, OfferStep, WorkerStep

\* The first position reserves nothing.
LEMMA ExactInit == Init => ExactInv
<1> SUFFICES ASSUME Init PROVE ExactInv
  OBVIOUS
<1>1. Owed = 0 /\ CoverInv /\ TypeOK
  BY CoverInit, TypeInit
<1>2. ExactPos
  <2>1. pos.qty \in Nat /\ pos.reserved = 0 /\ pos.public = 0
    BY <1>1, EnvFacts DEF Init
  <2>2. \A o \in Offer : exercise[o] # "released"
    BY DEF Init
  <2> QED BY <1>1, <2>1, <2>2 DEF ExactPos
<1>3. ASSUME NEW w \in Worker PROVE ExactJob(w)
  BY IdleCovers DEF Init
<1> QED BY <1>1, <1>2, <1>3 DEF ExactInv, Exact

\* Every step keeps the invariant behind HoldsMatch and NotOverexposed.
LEMMA ExactNext == ExactInv /\ [Next]_vars => ExactInv'
<1> SUFFICES ASSUME ExactInv, [Next]_vars PROVE ExactInv'
  OBVIOUS
<1>1. CoverInv /\ TypeOK /\ RowsHeld /\ UNCHANGED env
  BY DEF ExactInv, CoverInv, CalmInv, DeskInv, Next, vars
<1>2. ASSUME Serial', env'.may = {} PROVE Exact'
  <2>1. Serial /\ env.may = {}
    BY <1>1, <1>2 DEF Serial
  <2> QED BY <1>1, <2>1, ExactStep DEF ExactInv, CoverInv, CalmInv
<1> QED BY <1>1, <1>2, CoverNext DEF ExactInv

\* Unless exercises may fail, sagas end before the settlement date and call
\* between transactions.
Orderly == \A c \in Scenarios : "compensate" \notin c.may => c.may = {}

\* So while no exercise may fail, nothing of EnvClass happens.
LEMMA NothingHappens ==
  ASSUME Orderly, TypeOK, "compensate" \notin env.may PROVE env.may = {}
  BY DEF Orderly, TypeOK

\* When requests are served one at a time and saga calls do not fall inside a
\* request's transaction, the reserved quantity is exactly what the live,
\* unsettled contracts need: the absolute values that reserveForContract and
\* releaseForContract write lose no hold and leave none behind.  The run
\* otc_lost_update shows that Orderly is needed.
THEOREM HoldsSafety == ASSUME Orderly PROVE Spec => []HoldsMatch
<1>1. ExactInv => HoldsMatch
  BY NothingHappens DEF ExactInv, CoverInv, CalmInv, DeskInv, Exact, ExactPos, HoldsMatch
<1> QED BY <1>1, ExactInit, ExactNext, PTL DEF Spec

\* In the same scenarios what is offered to the public is free of every hold:
\* the limit of AddPosition and UpdatePosition survives every later accept,
\* release and delivery.
THEOREM ExposureSafety == ASSUME Orderly PROVE Spec => []NotOverexposed
<1>1. ExactInv => NotOverexposed
  BY NothingHappens DEF ExactInv, CoverInv, CalmInv, DeskInv, Exact, ExactPos, NotOverexposed
<1> QED BY <1>1, ExactInit, ExactNext, PTL DEF Spec
===============================================================================
