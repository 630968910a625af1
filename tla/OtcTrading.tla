----------------------------- MODULE OtcTrading -----------------------------
(***************************************************************************)
(* The OTC desk of trading-service for one seller and one stock: offers,   *)
(* option contracts and the seller's portfolio position, with the stock    *)
(* reservations an exercise saga makes (the saga itself is the module      *)
(* OtcExerciseSaga).                                                       *)
(*                                                                         *)
(* Every operation is a READ COMMITTED transaction.  Offer and contract    *)
(* rows are locked when they are read; the position is read without a lock *)
(* by accept, cancel, expire and the three position endpoints and written  *)
(* back with absolute values, so between the read and the commit another   *)
(* transaction may write it: these are steps of a worker.  The reservation *)
(* endpoints lock the position and are one step each.                      *)
(***************************************************************************)
EXTENDS Integers, FiniteSetsExt

CONSTANTS Offer,    \* offers; an accepted offer's contract has its name
          Worker,   \* request handlers that may be inside a transaction
          Scenarios \* the size and the environment of a behaviour, see below

\* "late": a saga may still be running when its contract is overdue.
\* "compensate": an exercise may fail after it reserved the shares.
\* "overlap": a call of a saga may fall inside another transaction.
EnvClass == {"late", "compensate", "overlap"}

\* A scenario is a record: the shares the seller owns, the share counts a
\* party may ask for, the workers that serve requests, and what the
\* environment may do.
ASSUME OtcAssumption ==
    /\ IsFiniteSet(Offer) /\ IsFiniteSet(Worker)
    /\ \A c \in Scenarios :
        /\ c.shares \in Nat /\ c.amounts \subseteq Nat \ {0}
        /\ c.workers \subseteq Worker /\ c.may \subseteq EnvClass

OfferStatus == {"none", "PENDING_SELLER", "PENDING_BUYER", "ACCEPTED", "REJECTED", "WITHDRAWN"}
ContractStatus == {"none", "PENDING_PREMIUM", "ACTIVE", "EXERCISED", "EXPIRED", "CANCELED"}
\* The exercise of a contract: asked for, shares HELD, RELEASED, transferred,
\* and its completion announced.
ExerciseState == {"none", "asked", "held", "released", "delivered", "done"}

Position == [qty : Int, reserved : Nat, public : Int, isPublic : BOOLEAN]
Op == {"accept", "cancel", "expire"}
Idle == [pc |-> "idle"]
Job ==
    {Idle} \cup [pc : {"read"}, op : Op, on : Offer]
           \cup [pc : {"write"}, op : Op, on : Offer, seen : Position]
           \cup [pc : {"publish"}, public : Nat, isPublic : BOOLEAN]

VARIABLES offer,     \* otc_offers.status
          amount,    \* otc_offers.amount, the contract's once accepted
          contract,  \* option_contracts.status
          exercise,  \* where the exercise of the contract stands
          pos,       \* the seller's portfolio row
          job,       \* what each worker's transaction is about to do
          stale,     \* overdue contracts the expiry sweep has listed
          day,       \* 0 before, 1 on and 2 after the settlement date
          env        \* the scenario, chosen at the start

dealVars == <<offer, amount>>
vars == <<offer, amount, contract, exercise, pos, job, stale, day, env>>

TypeOK ==
    /\ offer \in [Offer -> OfferStatus] /\ amount \in [Offer -> env.amounts \cup {0}]
    /\ contract \in [Offer -> ContractStatus] /\ exercise \in [Offer -> ExerciseState]
    /\ pos \in Position /\ job \in [Worker -> Job]
    /\ stale \subseteq Offer /\ day \in 0..2 /\ env \in Scenarios

Init ==
    /\ env \in Scenarios
    /\ offer = [o \in Offer |-> "none"] /\ amount = [o \in Offer |-> 0]
    /\ contract = [o \in Offer |-> "none"] /\ exercise = [o \in Offer |-> "none"]
    /\ pos = [qty |-> env.shares, reserved |-> 0, public |-> 0, isPublic |-> FALSE]
    /\ job = [w \in Worker |-> Idle]
    /\ stale = {} /\ day = 0

SumOf(S) == SumFunctionOnSet(amount, S)

\* Mutant: the two are mixed up.
LargerSwapped(a, b) == IF a < b THEN a ELSE b
Larger(a, b) == IF a > b THEN a ELSE b
Smaller(a, b) == IF a < b THEN a ELSE b

\* The row locks held by transactions that have not committed.
Locked(o) == \E w \in Worker : job[w].pc \in {"read", "write"} /\ job[w].on = o

------------------------------------------------------------------------------
(* Offers. *)

CreateOffer(o, a) ==
    /\ offer[o] = "none"
    /\ offer' = [offer EXCEPT ![o] = "PENDING_SELLER"]
    /\ amount' = [amount EXCEPT ![o] = a]
    /\ UNCHANGED <<contract, exercise, pos, job, stale, day>>

\* Mutant: an accepted offer can be renegotiated.
CounterableAny(o) == offer[o] \in {"PENDING_SELLER", "PENDING_BUYER", "WITHDRAWN", "ACCEPTED"}
\* The final statuses of CounterOffer; WITHDRAWN is not one of them.
Counterable(o) == offer[o] \in {"PENDING_SELLER", "PENDING_BUYER", "WITHDRAWN"}

CounterOffer(o, a, s) ==
    /\ Counterable(o) /\ ~Locked(o)
    /\ offer' = [offer EXCEPT ![o] = s]
    /\ amount' = [amount EXCEPT ![o] = a]
    /\ UNCHANGED <<contract, exercise, pos, job, stale, day>>

\* From any status, ACCEPTED included.
Reject(o) ==
    /\ offer[o] # "none" /\ ~Locked(o)
    /\ offer' = [offer EXCEPT ![o] = "REJECTED"]
    /\ UNCHANGED <<amount, contract, exercise, pos, job, stale, day>>

\* Only the party that is not on the clock withdraws.
Withdraw(o) ==
    /\ offer[o] \in {"PENDING_SELLER", "PENDING_BUYER"} /\ ~Locked(o)
    /\ offer' = [offer EXCEPT ![o] = "WITHDRAWN"]
    /\ UNCHANGED <<amount, contract, exercise, pos, job, stale, day>>

\* resolveSellerOwnedQuantity and SumActiveBySellerAndTicker.
SellerOwned == IF pos.isPublic /\ pos.public > 0 THEN pos.public ELSE pos.qty
Live == {o \in Offer : contract[o] \in {"ACTIVE", "PENDING_PREMIUM"}}

\* Mutant: only contracts whose premium is paid count.
CoveredByActive(o) == SumOf({p \in Live : contract[p] = "ACTIVE"}) + amount[o] =< SellerOwned
\* The reserved-stock check of Accept.
Covered(o) == SumOf(Live) + amount[o] =< SellerOwned

\* Accept, up to the read of the position: the offer is locked and checked.
BeginAccept(w, o) ==
    /\ job[w] = Idle /\ ~Locked(o)
    /\ offer[o] \in {"PENDING_SELLER", "PENDING_BUYER"}
    /\ Covered(o)
    /\ job' = [job EXCEPT ![w] = [pc |-> "read", op |-> "accept", on |-> o]]
    /\ UNCHANGED <<dealVars, contract, exercise, pos, stale, day>>

------------------------------------------------------------------------------
(* Contracts. *)

\* The answers of the premium saga.
CompletePremiumTransfer(o) ==
    /\ contract[o] = "PENDING_PREMIUM" /\ ~Locked(o)
    /\ contract' = [contract EXCEPT ![o] = "ACTIVE"]
    /\ UNCHANGED <<dealVars, exercise, pos, job, stale, day>>

BeginFailPremiumTransfer(w, o) ==
    /\ job[w] = Idle /\ ~Locked(o)
    /\ contract[o] = "PENDING_PREMIUM"
    /\ job' = [job EXCEPT ![w] = [pc |-> "read", op |-> "cancel", on |-> o]]
    /\ UNCHANGED <<dealVars, contract, exercise, pos, stale, day>>

\* A repeated request meets the saga of the first one and changes nothing.
ExerciseContract(o) ==
    /\ contract[o] = "ACTIVE" /\ day = 0 /\ ~Locked(o)
    /\ exercise[o] = "none"
    /\ exercise' = [exercise EXCEPT ![o] = "asked"]
    /\ UNCHANGED <<dealVars, contract, pos, job, stale, day>>

\* The saga announces its end; a contract that left ACTIVE is not touched.
CompleteExercise(o) ==
    /\ exercise[o] = "delivered" /\ ~Locked(o)
    /\ exercise' = [exercise EXCEPT ![o] = "done"]
    /\ contract' = IF contract[o] = "ACTIVE" THEN [contract EXCEPT ![o] = "EXERCISED"] ELSE contract
    /\ UNCHANGED <<dealVars, pos, job, stale, day>>

------------------------------------------------------------------------------
(* The reservation service, called by the exercise saga. *)

Quiet == \A w \in Worker : job[w] = Idle
SagaMayCall == "overlap" \in env.may \/ Quiet

\* Reserve: shares reserved at accept time are consumed, whoever they were
\* reserved for; otherwise free shares are reserved.
Consumes(o) == pos.reserved >= amount[o]

Reserve(o) ==
    /\ SagaMayCall
    /\ exercise[o] = "asked"
    /\ Consumes(o) \/ pos.qty - pos.reserved >= amount[o]
    /\ exercise' = [exercise EXCEPT ![o] = "held"]
    /\ pos' = IF Consumes(o) THEN pos ELSE [pos EXCEPT !.reserved = @ + amount[o]]
    /\ UNCHANGED <<dealVars, contract, job, stale, day>>

\* Release, the compensation of Reserve.
Release(o) ==
    /\ "compensate" \in env.may /\ SagaMayCall
    /\ exercise[o] = "held"
    /\ exercise' = [exercise EXCEPT ![o] = "released"]
    /\ pos' = [pos EXCEPT !.reserved = Larger(0, @ - amount[o])]
    /\ UNCHANGED <<dealVars, contract, job, stale, day>>

TransferOwnership(o) ==
    /\ SagaMayCall
    /\ exercise[o] = "held"
    /\ exercise' = [exercise EXCEPT ![o] = "delivered"]
    /\ pos' = [pos EXCEPT !.qty = @ - amount[o], !.reserved = Larger(0, @ - amount[o])]
    /\ UNCHANGED <<dealVars, contract, job, stale, day>>

------------------------------------------------------------------------------
(* The expiry sweep. *)

Tick ==
    /\ day < 2
    /\ "late" \in env.may \/ \A o \in Offer : exercise[o] \in {"none", "released", "done"}
    /\ day' = day + 1
    /\ UNCHANGED <<dealVars, contract, exercise, pos, job, stale>>

\* One goroutine sweeps, one contract after the other.
Sweeping == \E w \in Worker : job[w].pc \in {"read", "write"} /\ job[w].op = "expire"

\* ExpireOverdueContracts lists the overdue ACTIVE contracts first.
ListOverdue ==
    /\ day = 2 /\ stale = {} /\ ~Sweeping
    /\ stale' = {o \in Offer : contract[o] = "ACTIVE"}
    /\ stale' # {}
    /\ UNCHANGED <<dealVars, contract, exercise, pos, job, day>>

\* ... and expires each in a transaction of its own, whatever its status is by
\* then.
BeginExpire(w, o) ==
    /\ job[w] = Idle /\ ~Locked(o)
    /\ o \in stale /\ ~Sweeping
    /\ stale' = stale \ {o}
    /\ job' = [job EXCEPT ![w] = [pc |-> "read", op |-> "expire", on |-> o]]
    /\ UNCHANGED <<dealVars, contract, exercise, pos, day>>

------------------------------------------------------------------------------
(* Positions exposed for OTC. *)

\* Mutant: reserved shares are offered to the public again.
MayExposeAll(n) == n =< pos.qty
MayExpose(n) == n =< pos.qty - pos.reserved

\* AddPosition.
BeginAddPosition(w, n) ==
    /\ job[w] = Idle /\ MayExpose(n)
    /\ job' = [job EXCEPT ![w] = [pc |-> "publish", public |-> n, isPublic |-> TRUE]]
    /\ UNCHANGED <<dealVars, contract, exercise, pos, stale, day>>

\* UpdatePosition keeps the flag it read.
BeginUpdatePosition(w, n) ==
    /\ job[w] = Idle /\ MayExpose(n) /\ n >= pos.reserved
    /\ job' = [job EXCEPT ![w] = [pc |-> "publish", public |-> n, isPublic |-> pos.isPublic]]
    /\ UNCHANGED <<dealVars, contract, exercise, pos, stale, day>>

BeginRemovePosition(w) ==
    /\ job[w] = Idle /\ pos.reserved = 0
    /\ job' = [job EXCEPT ![w] = [pc |-> "publish", public |-> 0, isPublic |-> FALSE]]
    /\ UNCHANGED <<dealVars, contract, exercise, pos, stale, day>>

\* UpdatePublic and commit.
CommitPosition(w) ==
    /\ job[w].pc = "publish"
    /\ pos' = [pos EXCEPT !.public = job[w].public, !.isPublic = job[w].isPublic]
    /\ job' = [job EXCEPT ![w] = Idle]
    /\ UNCHANGED <<dealVars, contract, exercise, stale, day>>

------------------------------------------------------------------------------
(* The end of accept, cancel and expire. *)

\* findPortfolioByTicker.
ReadPosition(w) ==
    /\ job[w].pc = "read"
    /\ job' = [job EXCEPT ![w] = [pc |-> "write", op |-> job[w].op, on |-> job[w].on, seen |-> pos]]
    /\ UNCHANGED <<dealVars, contract, exercise, pos, stale, day>>

\* reserveForContract and releaseForContract of a shares, from the position as
\* it was read; quantity is not written.
ReserveForContract(p, a) ==
    [pos EXCEPT !.reserved = p.reserved + a, !.public = Larger(0, p.public - a)]
\* Mutant: a released share is not offered again but stays reserved.
ReleaseNothing(p, a) == pos
ReleaseForContract(p, a) ==
    [pos EXCEPT !.reserved = Larger(0, p.reserved - a), !.public = Smaller(p.qty, p.public + a)]

Accept(w) ==
    /\ job[w].pc = "write" /\ job[w].op = "accept"
    /\ offer' = [offer EXCEPT ![job[w].on] = "ACCEPTED"]
    /\ contract' = [contract EXCEPT ![job[w].on] = "PENDING_PREMIUM"]
    /\ pos' = ReserveForContract(job[w].seen, amount[job[w].on])
    /\ job' = [job EXCEPT ![w] = Idle]
    /\ UNCHANGED <<amount, exercise, stale, day>>

\* Mutant: the sweep's outcome for a contract is a canceled one.
EndStatusSwapped(op) == IF op = "cancel" THEN "EXPIRED" ELSE "CANCELED"
EndStatus(op) == IF op = "cancel" THEN "CANCELED" ELSE "EXPIRED"

EndContract(w) ==
    /\ job[w].pc = "write" /\ job[w].op \in {"cancel", "expire"}
    /\ contract' = [contract EXCEPT ![job[w].on] = EndStatus(job[w].op)]
    /\ pos' = ReleaseForContract(job[w].seen, amount[job[w].on])
    /\ job' = [job EXCEPT ![w] = Idle]
    /\ UNCHANGED <<dealVars, exercise, stale, day>>

------------------------------------------------------------------------------
OfferStep(o) ==
    \/ \E a \in env.amounts : CreateOffer(o, a)
    \/ \E a \in env.amounts, s \in {"PENDING_SELLER", "PENDING_BUYER"} : CounterOffer(o, a, s)
    \/ Reject(o) \/ Withdraw(o)
    \/ CompletePremiumTransfer(o) \/ ExerciseContract(o) \/ CompleteExercise(o)
    \/ Reserve(o) \/ Release(o) \/ TransferOwnership(o)

WorkerStep(w) ==
    \/ \E o \in Offer : BeginAccept(w, o) \/ BeginFailPremiumTransfer(w, o) \/ BeginExpire(w, o)
    \/ \E n \in env.amounts : BeginAddPosition(w, n) \/ BeginUpdatePosition(w, n)
    \/ BeginRemovePosition(w)
    \/ CommitPosition(w) \/ ReadPosition(w) \/ Accept(w) \/ EndContract(w)

Next ==
    /\ \/ \E o \in Offer : OfferStep(o)
       \/ \E w \in env.workers : WorkerStep(w)
       \/ Tick \/ ListOverdue
    /\ UNCHANGED env

Spec == Init /\ [][Next]_vars

------------------------------------------------------------------------------
(* Properties. *)

\* Contracts whose shares have left the seller.
Gone == {o \in Offer : exercise[o] \in {"delivered", "done"}}

\* The shares of the live contracts not yet settled.
Owed == SumOf(Live \ Gone)

\* Requests are served one at a time.
Serial == Cardinality(env.workers) = 1

\* When requests are served one at a time and no saga outlasts the settlement
\* date, the seller never owes more shares than he has: the live contracts not
\* yet settled are covered by his shares, through accepts, cancellations,
\* expiries, failed exercises and the saga calls that fall between them.
NotOversold == Serial /\ "late" \notin env.may => Owed =< pos.qty

\* As long as no exercise fails, the position's reserved quantity is exactly
\* what the live, unsettled contracts need: no hold is lost and none outlives
\* its contract.
HoldsMatch ==
    Serial /\ "compensate" \notin env.may /\ Quiet => pos.reserved = Owed

\* What is offered to the public is free: AddPosition's limit survives every
\* later accept, release and delivery.
NotOverexposed ==
    Serial /\ "compensate" \notin env.may => pos.public =< pos.qty - pos.reserved

\* However requests and saga calls overlap, shares are neither made nor lost,
\* and an offer's terms are those of its contract for good.
SharesConserved ==
    /\ pos.qty + SumOf(Gone) = env.shares
    /\ \A o \in Offer : contract[o] # "none" => offer[o] \in {"ACCEPTED", "REJECTED"}

\* As long as no saga outlasts the settlement date, a contract only moves along
\* PENDING_PREMIUM -> ACTIVE -> EXERCISED or EXPIRED, or PENDING_PREMIUM ->
\* CANCELED, whichever of the sweep, the sagas and the requests comes first.
Successor ==
    [none |-> {"PENDING_PREMIUM"}, PENDING_PREMIUM |-> {"ACTIVE", "CANCELED"},
     ACTIVE |-> {"EXERCISED", "EXPIRED"}, EXERCISED |-> {}, EXPIRED |-> {}, CANCELED |-> {}]

ContractLifecycle ==
    [][\A o \in Offer :
        "late" \notin env.may /\ contract'[o] # contract[o] => contract'[o] \in Successor[contract[o]]]_vars
------------------------------------------------------------------------------
(* The inductive invariants behind them. *)

OnOffer(w) == job[w].pc \in {"read", "write"}

\* A transaction holds its rows alone and finds them as it locked them; a
\* contract has an accepted offer, and an exercise or a sweep a contract whose
\* premium was paid.
RowsHeld ==
    /\ \A w \in Worker : job[w] # Idle => w \in env.workers
    /\ \A w \in Worker : OnOffer(w) =>
        /\ job[w].op = "accept" =>
                /\ offer[job[w].on] \in {"PENDING_SELLER", "PENDING_BUYER"}
                /\ contract[job[w].on] = "none"
        /\ job[w].op = "cancel" => contract[job[w].on] = "PENDING_PREMIUM"
        /\ job[w].op = "expire" => contract[job[w].on] \in {"ACTIVE", "EXERCISED", "EXPIRED"}
    /\ \A w, v \in Worker : OnOffer(w) /\ OnOffer(v) /\ job[w].on = job[v].on => w = v
    /\ \A o \in Offer :
        /\ contract[o] # "none" => offer[o] \in {"ACCEPTED", "REJECTED"}
        /\ exercise[o] # "none" \/ o \in stale => contract[o] \in {"ACTIVE", "EXERCISED", "EXPIRED"}

Shares == pos.qty + SumOf(Gone) = env.shares

DeskInv == TypeOK /\ RowsHeld /\ Shares

\* As long as no saga outlasts the settlement date, the sweep meets no running
\* exercise and finds every contract as it listed it.
Calm ==
    /\ \A o \in Offer :
        /\ day > 0 => exercise[o] \in {"none", "released", "done"}
        /\ exercise[o] \in {"asked", "held", "delivered"} => contract[o] = "ACTIVE"
        /\ exercise[o] = "done" => contract[o] = "EXERCISED"
        /\ o \in stale => day = 2 /\ contract[o] = "ACTIVE"
    /\ \A w \in Worker : OnOffer(w) /\ job[w].op = "expire" =>
        day = 2 /\ job[w].on \notin stale /\ contract[job[w].on] = "ACTIVE"

CalmInv == DeskInv /\ ("late" \notin env.may => Calm)

\* The contracts the position must still hold shares for: a failed exercise has
\* given its own back.
Backing == {o \in Live \ Gone : exercise[o] # "released"}
Kept == SumOf(Backing)

\* With requests served one at a time, what the seller owes is covered by his
\* shares; until the settlement date what he offers or is about to offer to the
\* public is free of it, and no saga call inside a transaction changes that.
CoverPos ==
    /\ Owed =< pos.qty /\ pos.public >= 0 /\ pos.public =< pos.qty
    /\ day = 0 => pos.reserved >= Kept /\ pos.public + Kept =< pos.qty

CoverJob(w) ==
    /\ OnOffer(w) /\ job[w].op = "accept" => Owed + amount[job[w].on] =< pos.qty
    /\ job[w].pc = "write" =>
        /\ job[w].seen.public = pos.public /\ job[w].seen.qty >= 0
        /\ day = 0 => job[w].seen.reserved >= Kept
        /\ job[w].op # "accept" => Smaller(job[w].seen.qty, pos.public + amount[job[w].on]) =< pos.qty
    /\ job[w].pc = "publish" =>
        /\ job[w].public =< pos.qty
        /\ day = 0 => job[w].public + Kept =< pos.qty

Cover == CoverPos /\ \A w \in Worker : CoverJob(w)

CoverInv == CalmInv /\ (Serial /\ "late" \notin env.may => Cover)

\* ... and when saga calls do not fall inside a transaction either and no
\* exercise fails, the reserved quantity is exact.
ExactPos ==
    /\ pos.reserved = Owed /\ pos.public =< pos.qty - pos.reserved
    /\ \A o \in Offer : exercise[o] # "released"

ExactJob(w) ==
    /\ job[w].pc = "write" => job[w].seen = pos
    /\ job[w].pc = "publish" => job[w].public =< pos.qty - pos.reserved

Exact == ExactPos /\ \A w \in Worker : ExactJob(w)

ExactInv == CoverInv /\ (Serial /\ env.may = {} => Exact)
==============================================================================
