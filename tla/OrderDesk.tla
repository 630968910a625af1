---------------------------- MODULE OrderDesk ----------------------------
(***************************************************************************)
(* The order desk of the trading service: drafts, confirmation, the        *)
(* supervisor's decision, cancellation, the expiry job, the execution      *)
(* worker, and the daily trading limit of agents                           *)
(* (trading-service-go/internal/order and internal/actuary).               *)
(*                                                                         *)
(* One listing.  Confirm, approve and decline load the order WITHOUT a row *)
(* lock and write the whole row back later, so each is two steps: Load and *)
(* the rest, which uses the loaded copy.  Cancel, the expiry job and the   *)
(* worker lock the row and are one step.  Locks of the position and of the *)
(* agent's row are held until commit, so the second step is atomic.        *)
(* Money is moved by remote calls that a rollback does not undo.           *)
(*                                                                         *)
(* Prices, quotes, order types and volumes are left open: an attempt fills *)
(* any quantity at any price of the scenario, or nothing.                  *)
(***************************************************************************)
EXTENDS Integers, FiniteSets, FiniteSetsExt

CONSTANTS
  Order,      \* orders
  Client,     \* clients
  Agent,      \* employees with an actuary_info row
  Handler,    \* concurrent requests of confirm, approve and decline
  Shares,     \* shares of the listing each user owns at first
  OtcHeld,    \* part of them reserved by OTC contracts
  Limit,      \* daily limit of an agent at first
  RefPrice,   \* reference price used by confirm
  MaxPaid,    \* bound: trade legs per order that end in a rollback
  Scenarios   \* [book, prices, limits, handlers, may]

VARIABLES
  env,        \* the scenario of this behaviour
  order,      \* rows of orders
  pos,        \* rows of portfolio
  act,        \* rows of actuary_info
  read,       \* the copy each handler holds
  queue,      \* attempts the worker has scheduled, per order
  tally,      \* what happened outside the orders table, per order
  expired     \* the listing's settlement date has passed

vars == <<env, order, pos, act, read, queue, tally, expired>>

User == Client \cup Agent
\* What may happen in a scenario: a stale copy is written ("race"), a draft is
\* cancelled, a transaction fails after its remote call ("abort"), a fund's
\* callback fails, the worker loses its schedule ("restart"), the limits are
\* reset, the need-approval flag changes, the settlement date passes.
Event == {"race", "draft", "abort", "callback", "restart", "reset", "approval", "expiry"}

\* What an order asks for: by whom, how much, all or none, for a fund, on the
\* bank's account.
Request == [by : User, dir : {"BUY", "SELL"}, qty : Nat, aon : BOOLEAN, fund : BOOLEAN, bank : BOOLEAN]

ASSUME DeskAssumption ==
  /\ IsFiniteSet(Order) /\ Client \cap Agent = {}
  /\ RefPrice \in Nat \ {0} /\ MaxPaid \in Nat /\ Limit \in Nat
  /\ Shares \in [User -> Nat] /\ OtcHeld \in [User -> Nat]
  /\ \A u \in User : OtcHeld[u] <= Shares[u]
  /\ \A s \in Scenarios :
       /\ s.may \subseteq Event /\ s.handlers \subseteq Handler
       /\ s.book \in [Order -> Request] /\ s.prices \subseteq Nat /\ s.limits \subseteq Nat

Status == {"none", "PENDING_CONFIRMATION", "PENDING", "APPROVED",
           "DECLINED", "DONE", "CANCELLED"}
Final == {"DECLINED", "DONE", "CANCELLED"}
Approver == {"none", "auto", "supervisor", "system"}

\* The row as it is inserted; by, dir, qty, aon, fund and bank never change.
OrderRow == [st : Status, rem : Nat, exp : Nat, appr : Approver]
NoCopy == [o |-> "none"]

--------------------------------------------------------------------------
Template(o) == env.book[o]
Owner(o) == Template(o).by
IsSell(o) == Template(o).dir = "SELL"
IsFund(o) == Template(o).fund

\* The account of the order is the bank's own: always for an agent's buy, by
\* the agent's choice for a sell, never for a client or for a fund.
BankFunded(o) ==
  Owner(o) \in Agent /\ ~IsFund(o) /\ (IsSell(o) => Template(o).bank)

Can(f) == f \in env.may

\* Outside the race scenarios nothing else happens to an order between the
\* unlocked read of a handler and its write.
Free(o) == Can("race") \/ \A h \in Handler : read[h].o # o

AtLeastZero(x) == IF x < 0 THEN 0 ELSE x
Least(x, y) == IF x <= y THEN x ELSE y
DivRound(x, y) == (2 * x + y) \div (2 * y)

\* executable: the guard of every execution attempt.
executable(o) == order[o].st = "APPROVED" /\ order[o].rem > 0

--------------------------------------------------------------------------
Init ==
  /\ env \in Scenarios
  /\ order = [o \in Order |-> [st |-> "none", rem |-> 0, exp |-> 0, appr |-> "none"]]
  /\ pos = [u \in User |-> [qty |-> Shares[u], res |-> OtcHeld[u]]]
  /\ act = [a \in Agent |-> [limit |-> Limit, used |-> 0, resv |-> 0, need |-> FALSE]]
  /\ read = [h \in Handler |-> NoCopy]
  /\ queue = [o \in Order |-> 0]
  /\ tally = [o \in Order |->
       [filled |-> 0, rows |-> 0, value |-> 0, paid |-> 0, lost |-> 0, fee |-> 0,
        holding |-> 0]]
  /\ expired = FALSE

Draft(o) ==
  /\ order[o].st = "none"
  /\ Template(o).qty > 0
  /\ order' = [order EXCEPT ![o].st = "PENDING_CONFIRMATION", ![o].rem = Template(o).qty]
  /\ UNCHANGED <<env, pos, act, read, queue, tally, expired>>

CreateBuyOrder(o) ==
  /\ ~IsSell(o)
  /\ Owner(o) \in Client => ~IsFund(o)
  /\ Draft(o)

\* ensurePortfolioOwnership only looks; nothing is reserved for a draft.
CreateSellOrder(o) ==
  /\ IsSell(o)
  /\ pos[Owner(o)].qty - pos[Owner(o)].res >= Template(o).qty
  /\ Draft(o)

--------------------------------------------------------------------------
\* The unlocked FindByID at the start of confirm, approve and decline; any
\* other status is refused without an effect.
Load(h, o) ==
  /\ read[h] = NoCopy
  /\ order[o].st \in {"PENDING_CONFIRMATION", "PENDING"}
  /\ Free(o)
  /\ read' = [read EXCEPT ![h] = [o |-> o, row |-> order[o]]]
  /\ UNCHANGED <<env, order, pos, act, queue, tally, expired>>

\* A check or a remote call fails before anything is written.
Refuse(h) ==
  /\ read[h] # NoCopy
  /\ read' = [read EXCEPT ![h] = NoCopy]
  /\ UNCHANGED <<env, order, pos, act, queue, tally, expired>>

--------------------------------------------------------------------------
\* calculateApproximatePrice: the whole quantity at the reference price.
Amount(o) == RefPrice * Template(o).qty

\* Mutant: orders that are not executed yet do not count.
NeedsApprovalUsedOnly(a, amount) ==
  act[a].need \/ act[a].used + amount > act[a].limit

\* determineOrderStatusAndReserveExposure, under the lock of the agent's row.
NeedsApproval(a, amount) ==
  \/ act[a].need
  \/ act[a].used + act[a].resv >= act[a].limit
  \/ act[a].used + act[a].resv + amount > act[a].limit

ConfirmedStatus(o) ==
  IF Owner(o) \in Agent /\ NeedsApproval(Owner(o), Amount(o)) THEN "PENDING" ELSE "APPROVED"

\* Mutant: sells pay at confirmation too.
FeeDueAlways(o) == Owner(o) \in Client /\ ConfirmedStatus(o) = "APPROVED"

\* transferFee does nothing when the funding account is the bank's, which it
\* is for every agent; funds pay no fee.
FeeDue(o) == ~IsSell(o) /\ Owner(o) \in Client /\ ConfirmedStatus(o) = "APPROVED"

\* reserveSellQuantityIfNeeded.
CanReserveSell(o, n) == IsSell(o) => pos[Owner(o)].qty - pos[Owner(o)].res >= n

ConfirmOrder(h) ==
  LET o == read[h].o  row == read[h].row  u == Owner(o)  st == ConfirmedStatus(o) IN
  /\ read[h] # NoCopy /\ row.st = "PENDING_CONFIRMATION"
  /\ ~expired
  /\ CanReserveSell(o, row.rem)
  /\ act' = IF u \in Agent THEN [act EXCEPT ![u].resv = @ + Amount(o)] ELSE act
  /\ pos' = IF IsSell(o) THEN [pos EXCEPT ![u].res = @ + row.rem] ELSE pos
  /\ tally' = IF FeeDue(o) THEN [tally EXCEPT ![o].fee = @ + 1] ELSE tally
  /\ order' = [order EXCEPT ![o] =
       [row EXCEPT !.st = st,
                   !.appr = IF st = "APPROVED" THEN "auto" ELSE "none",
                   !.exp = IF u \in Agent THEN Amount(o) ELSE 0]]
  /\ queue' = IF st = "APPROVED" THEN [queue EXCEPT ![o] = @ + 1] ELSE queue
  /\ read' = [read EXCEPT ![h] = NoCopy]
  /\ UNCHANGED <<env, expired>>

\* The fee is charged and the transaction then fails: only the fee stays.
ConfirmAborted(h) ==
  LET o == read[h].o IN
  /\ Can("abort")
  /\ read[h] # NoCopy /\ read[h].row.st = "PENDING_CONFIRMATION"
  /\ ~expired /\ FeeDue(o) /\ tally[o].fee <= MaxPaid
  /\ tally' = [tally EXCEPT ![o].fee = @ + 1]
  /\ read' = [read EXCEPT ![h] = NoCopy]
  /\ UNCHANGED <<env, order, pos, act, queue, expired>>

\* A draft whose settlement date has passed is declined by its confirmation.
ConfirmExpired(h) ==
  LET o == read[h].o IN
  /\ read[h] # NoCopy /\ read[h].row.st = "PENDING_CONFIRMATION"
  /\ expired
  /\ order' = [order EXCEPT ![o] =
       [read[h].row EXCEPT !.st = "DECLINED", !.appr = "system", !.rem = 0]]
  /\ read' = [read EXCEPT ![h] = NoCopy]
  /\ UNCHANGED <<env, pos, act, queue, tally, expired>>

\* Mutant: the execution is not scheduled.
ApproveOrderUnscheduled(h) ==
  LET o == read[h].o IN
  /\ read[h] # NoCopy /\ read[h].row.st = "PENDING"
  /\ ~expired
  /\ order' = [order EXCEPT ![o] =
       [read[h].row EXCEPT !.st = "APPROVED", !.appr = "supervisor"]]
  /\ read' = [read EXCEPT ![h] = NoCopy]
  /\ UNCHANGED <<env, pos, act, queue, tally, expired>>

ApproveOrder(h) ==
  LET o == read[h].o IN
  /\ read[h] # NoCopy /\ read[h].row.st = "PENDING"
  /\ ~expired
  /\ order' = [order EXCEPT ![o] =
       [read[h].row EXCEPT !.st = "APPROVED", !.appr = "supervisor"]]
  /\ queue' = [queue EXCEPT ![o] = @ + 1]
  /\ read' = [read EXCEPT ![h] = NoCopy]
  /\ UNCHANGED <<env, pos, act, tally, expired>>

--------------------------------------------------------------------------
\* Mutant: the clamp at zero is missing.
UnreservedBelowZero(o, n) ==
  IF IsSell(o) THEN [pos EXCEPT ![Owner(o)].res = @ - n] ELSE pos

\* releaseSellReservation.
Unreserved(o, n) ==
  IF IsSell(o) THEN [pos EXCEPT ![Owner(o)].res = AtLeastZero(@ - n)] ELSE pos

\* releaseAgentExposure: the part of the order's exposure that n of its
\* remaining portions carry.
Releasable(row, n) == IF n = 0 THEN 0 ELSE Least(DivRound(row.exp * n, row.rem), row.exp)

Unexposed(o, row, n) ==
  IF row.exp > 0 /\ Owner(o) \in Agent
  THEN [act EXCEPT ![Owner(o)].resv = AtLeastZero(@ - Releasable(row, n))]
  ELSE act

declinePendingOrder(o, row, approver) ==
  /\ pos' = Unreserved(o, row.rem)
  /\ act' = Unexposed(o, row, row.rem)
  /\ order' = [order EXCEPT ![o] =
       [st |-> "DECLINED", appr |-> approver, rem |-> 0,
        exp |-> row.exp - Releasable(row, row.rem)]]

DeclineOrder(h) ==
  /\ read[h] # NoCopy /\ read[h].row.st = "PENDING"
  /\ declinePendingOrder(read[h].o, read[h].row, "supervisor")
  /\ read' = [read EXCEPT ![h] = NoCopy]
  /\ UNCHANGED <<env, queue, tally, expired>>

\* Mutant: the status is not looked at again under the lock.
AutoDeclineUnchecked(o) ==
  /\ Free(o)
  /\ order[o].appr # "none" /\ expired
  /\ declinePendingOrder(o, order[o], "system")
  /\ UNCHANGED <<env, read, queue, tally, expired>>

AutoDeclineExpiredPendingOrders(o) ==
  /\ Free(o)
  /\ order[o].st = "PENDING" /\ expired
  /\ declinePendingOrder(o, order[o], "system")
  /\ UNCHANGED <<env, read, queue, tally, expired>>

\* The owner cancels all that remains, a supervisor any part of it.
CancelOrder(o, n) ==
  /\ Free(o)
  /\ order[o].st \notin Final \cup {"none"}
  /\ order[o].st = "PENDING_CONFIRMATION" => Can("draft")
  /\ ~(order[o].st = "PENDING" /\ expired)
  /\ n \in 1 .. order[o].rem
  /\ pos' = Unreserved(o, n)
  /\ act' = Unexposed(o, order[o], n)
  /\ order' = [order EXCEPT ![o].rem = @ - n,
                            ![o].exp = @ - Releasable(order[o], n),
                            ![o].st = IF order[o].rem = n THEN "CANCELLED" ELSE @]
  /\ UNCHANGED <<env, read, queue, tally, expired>>

--------------------------------------------------------------------------
\* The worker finds nothing to do and does not schedule the order again.
AttemptStops(o) ==
  /\ queue[o] > 0 /\ ~executable(o)
  /\ queue' = [queue EXCEPT ![o] = @ - 1]
  /\ UNCHANGED <<env, order, pos, act, read, tally, expired>>

\* currentExecutableCapacity and determineExecutionQuantity.
Quantities(o) == IF Template(o).aon THEN {order[o].rem} ELSE 1 .. order[o].rem

\* Mutant: a sale leaves its shares reserved.
TradedStillReserved(o, n) ==
  LET u == Owner(o) IN
  CASE IsSell(o) -> [pos EXCEPT ![u].qty = @ - n]
    [] ~IsSell(o) /\ IsFund(o) -> pos
    [] OTHER -> [pos EXCEPT ![u].qty = @ + n]

\* updatePortfolio.
Traded(o, n) ==
  LET u == Owner(o) IN
  CASE IsSell(o) -> [pos EXCEPT ![u].qty = @ - n, ![u].res = AtLeastZero(@ - n)]
    [] ~IsSell(o) /\ IsFund(o) -> pos
    [] OTHER -> [pos EXCEPT ![u].qty = @ + n]

\* Mutant: what is used stays reserved as well.
FinalizedTwice(o, v) ==
  IF BankFunded(o) THEN [act EXCEPT ![Owner(o)].used = @ + v] ELSE act

\* finalizeActuaryExposure.
Finalized(o, v) ==
  IF BankFunded(o)
  THEN [act EXCEPT ![Owner(o)].resv = AtLeastZero(@ - v), ![Owner(o)].used = @ + v]
  ELSE act

\* transferSellCommission: not due when the bank's own account is credited.
SellFee(o) == IF IsSell(o) /\ ~BankFunded(o) THEN 1 ELSE 0

\* The attempt that fills n portions at price p; kept tells whether the fund
\* recorded its holding, whose failure is only logged.
executeOrderPortion(o, n, p, kept) ==
  /\ queue[o] > 0 /\ executable(o) /\ Free(o)
  /\ n \in Quantities(o)
  /\ IsSell(o) => pos[Owner(o)].qty >= n
  /\ ~kept => Can("callback") /\ IsFund(o)
  /\ pos' = Traded(o, n)
  /\ act' = Finalized(o, n * p)
  /\ tally' = [tally EXCEPT ![o].filled = @ + n, ![o].rows = @ + 1,
                            ![o].value = @ + n * p, ![o].paid = @ + n * p,
                            ![o].fee = @ + SellFee(o),
                            ![o].holding = @ + IF IsFund(o) /\ kept THEN n ELSE 0]
  /\ order' = [order EXCEPT ![o].rem = @ - n,
                            ![o].exp = IF BankFunded(o) THEN AtLeastZero(@ - n * p) ELSE @,
                            ![o].st = IF order[o].rem = n THEN "DONE" ELSE @]
  /\ queue' = [queue EXCEPT ![o] = IF order[o].rem = n THEN @ - 1 ELSE @]
  /\ UNCHANGED <<env, read, expired>>

\* The trade leg has been paid when a later step fails: a sell that finds too
\* few shares always, any other one only if a call or the commit fails.  The
\* transaction rolls back and the worker tries again.
ExecutionRolledBack(o, n, p, fee) ==
  /\ queue[o] > 0 /\ executable(o) /\ Free(o)
  /\ n \in Quantities(o)
  /\ \/ IsSell(o) /\ pos[Owner(o)].qty < n /\ fee = 0
     \/ Can("abort") /\ fee \in {0, SellFee(o)}
  /\ tally[o].lost < MaxPaid
  /\ tally' = [tally EXCEPT ![o].paid = @ + n * p, ![o].lost = @ + 1,
                            ![o].fee = @ + fee,
                            ![o].holding = @ + IF IsFund(o) THEN n ELSE 0]
  /\ UNCHANGED <<env, order, pos, act, read, queue, expired>>

\* The worker keeps its schedule in memory, and an attempt that cannot load
\* its order ends without a new one.
Restart ==
  /\ Can("restart")
  /\ queue' = [o \in Order |-> 0]
  /\ read' = [h \in Handler |-> NoCopy]
  /\ UNCHANGED <<env, order, pos, act, tally, expired>>

LoadFailed(o) ==
  /\ Can("restart") /\ queue[o] > 0
  /\ queue' = [queue EXCEPT ![o] = @ - 1]
  /\ UNCHANGED <<env, order, pos, act, read, tally, expired>>

--------------------------------------------------------------------------
\* The limit may fall below what is used and reserved together.
SetLimit(a, l) ==
  /\ l \in env.limits /\ l >= act[a].used
  /\ act' = [act EXCEPT ![a].limit = l]
  /\ UNCHANGED <<env, order, pos, read, queue, tally, expired>>

SetNeedApproval(a) ==
  /\ Can("approval")
  /\ act' = [act EXCEPT ![a].need = ~@]
  /\ UNCHANGED <<env, order, pos, read, queue, tally, expired>>

ResetLimit(a) ==
  /\ Can("reset")
  /\ act' = [act EXCEPT ![a].used = 0, ![a].resv = 0]
  /\ UNCHANGED <<env, order, pos, read, queue, tally, expired>>

ResetAllLimits ==
  /\ Can("reset")
  /\ act' = [a \in Agent |-> [act[a] EXCEPT !.used = 0, !.resv = 0]]
  /\ UNCHANGED <<env, order, pos, read, queue, tally, expired>>

SettlementPasses ==
  /\ Can("expiry") /\ ~expired
  /\ expired' = TRUE
  /\ UNCHANGED <<env, order, pos, act, read, queue, tally>>

--------------------------------------------------------------------------
Fill(o) == \E n \in 1 .. order[o].rem, p \in env.prices, kept \in BOOLEAN :
             executeOrderPortion(o, n, p, kept)

Next ==
  \/ \E o \in Order :
       \/ CreateBuyOrder(o) \/ CreateSellOrder(o)
       \/ AutoDeclineExpiredPendingOrders(o)
       \/ \E n \in 1 .. order[o].rem : CancelOrder(o, n)
       \/ AttemptStops(o) \/ Fill(o) \/ LoadFailed(o)
       \/ \E n \in 1 .. order[o].rem, p \in env.prices, fee \in 0 .. 1 :
            ExecutionRolledBack(o, n, p, fee)
  \/ \E h \in env.handlers :
       \/ \E o \in Order : Load(h, o)
       \/ Refuse(h) \/ ConfirmOrder(h) \/ ConfirmAborted(h) \/ ConfirmExpired(h)
       \/ ApproveOrder(h) \/ DeclineOrder(h)
  \/ \E a \in Agent :
       \/ \E l \in env.limits : SetLimit(a, l)
       \/ SetNeedApproval(a) \/ ResetLimit(a)
  \/ ResetAllLimits \/ Restart \/ SettlementPasses

Spec == Init /\ [][Next]_vars

\* A scheduled attempt runs again until its order is filled or closed: the
\* worker reschedules every attempt that ends without a result.
FairSpec == Spec /\ \A o \in Order : WF_vars(Fill(o)) /\ WF_vars(AttemptStops(o))
--------------------------------------------------------------------------
TypeOK ==
  /\ env \in Scenarios
  /\ order \in [Order -> OrderRow]
  /\ pos \in [User -> [qty : Nat, res : Nat]]
  /\ act \in [Agent -> [limit : Nat, used : Nat, resv : Nat, need : BOOLEAN]]
  /\ read \in [Handler -> {NoCopy} \cup [o : Order, row : OrderRow]]
  /\ queue \in [Order -> Nat]
  /\ tally \in [Order -> [filled : Nat, rows : Nat, value : Nat, paid : Nat,
                          lost : Nat, fee : Nat, holding : Nat]]
  /\ expired \in BOOLEAN

Without(fs) == env.may \cap fs = {}
OrdersOf(u) == {o \in Order : Owner(o) = u}

\* What a confirmed sell order has reserved of its owner's position, on top of
\* the OTC contracts.
Unsold ==
  [o \in Order |-> IF IsSell(o) /\ order[o].st \in {"PENDING", "APPROVED"} THEN order[o].rem ELSE 0]

\* Every share a live sell order has left to sell is reserved exactly once:
\* "sell-order reserve on confirm, release on cancel/decline"
\* (portfolio.UpdateReservedQuantity).
SellsReserved ==
  \A u \in User : pos[u].res = OtcHeld[u] + SumFunctionOnSet(Unsold, OrdersOf(u))

\* SellsReserved holds through confirmation, partial fills, partial
\* cancellation, rejection and expiry as long as drafts are not cancelled and
\* the unlocked reads of confirm, approve and decline are not overtaken.
SellsStayReserved == Without({"race", "draft"}) => SellsReserved

SettledOnce(o) ==
  /\ tally[o].filled + order[o].rem <= Template(o).qty
  /\ tally[o].paid = tally[o].value
  /\ tally[o].holding = (IF IsFund(o) THEN tally[o].filled ELSE 0)
  /\ tally[o].fee = IF IsSell(o) THEN tally[o].rows * SellFee(o)
                    ELSE IF Owner(o) \in Client /\ order[o].appr = "auto" THEN 1
                    ELSE 0

\* Each portion is traded and paid once: an order never fills more than it
\* asks for, the trade legs, the fees and the fund's holding match the
\* transactions recorded, if no transaction fails after a remote call.
PortionsSettleOnce ==
  Without({"race", "draft", "abort", "callback"}) =>
    \A o \in Order : SettledOnce(o)

\* A done, cancelled or declined order stays as it is and nothing more is
\* traded for it, whatever attempts are still scheduled.
ClosedStaysClosed ==
  [][Without({"race"}) =>
       \A o \in Order : order[o].st \in Final =>
         order'[o] = order[o] /\ tally'[o] = tally[o]]_vars

\* What an order still holds of its agent's limit, what it has used of it, and
\* both together if no supervisor approved it.
Exposed == [o \in Order |-> order[o].exp]
Used == [o \in Order |-> IF BankFunded(o) THEN tally[o].value ELSE 0]
AutoTaken == [o \in Order |-> IF order[o].appr = "auto" THEN Exposed[o] + Used[o] ELSE 0]

Modest == \A p \in env.prices : p <= RefPrice

\* The agent's reserved limit is the sum of what its orders still hold, and a
\* closed order that the bank's account paid at the reference price holds
\* nothing.  A price above the reference takes from the other orders' part.
ExposureAccounted ==
  Without({"race", "reset"}) /\ Modest =>
    /\ \A a \in Agent : act[a].resv = SumFunctionOnSet(Exposed, OrdersOf(a))
    /\ env.prices = {RefPrice} /\ Without({"draft"}) =>
         \A o \in Order : BankFunded(o) /\ order[o].st \in Final => order[o].exp = 0

\* Orders that went through without a supervisor never take an agent past the
\* limit, neither by what they hold nor by what they have spent.
AutoApprovedWithinLimit ==
  Without({"race", "reset"}) /\ env.limits = {} /\ Modest =>
    \A a \in Agent : SumFunctionOnSet(AutoTaken, OrdersOf(a)) <= Limit

\* An approved order is eventually filled or closed, through any number of
\* partial fills and failed attempts, unless the worker loses its schedule.
ApprovedIsWorkedOff ==
  \A o \in Order :
    order[o].st = "APPROVED" /\ Without({"race", "draft", "restart"})
      ~> order[o].st \in Final
--------------------------------------------------------------------------
(* The inductive invariants behind them. *)

\* Outside the race scenarios a handler's copy is the row, and its alone.
CopiesFresh ==
  /\ \A h \in Handler : read[h] # NoCopy =>
       /\ read[h].row = order[read[h].o]
       /\ order[read[h].o].st \in {"PENDING_CONFIRMATION", "PENDING"}
  /\ \A h, g \in Handler : read[h] # NoCopy /\ read[g] # NoCopy /\ read[h].o = read[g].o => h = g

\* An order that was not confirmed holds nothing, one that was not approved has
\* traded nothing, and of a closed one nothing is left.
RowInOrder(o) ==
  /\ order[o].st \in {"none", "PENDING_CONFIRMATION"} => order[o].exp = 0
  /\ order[o].st \in {"none", "PENDING_CONFIRMATION", "PENDING"} =>
       order[o].appr = "none" /\ tally[o].filled = 0 /\ tally[o].rows = 0 /\ tally[o].value = 0
  /\ order[o].st \in Final \cup {"none"} => order[o].rem = 0
  /\ order[o].rem <= Template(o).qty
  /\ order[o].st = "PENDING_CONFIRMATION" /\ Without({"draft"}) => order[o].rem = Template(o).qty

RowsInOrder == CopiesFresh /\ \A o \in Order : RowInOrder(o)
DeskInv == TypeOK /\ (Without({"race"}) => RowsInOrder)

\* A position covers what is reserved of it, so that no sell finds too few
\* shares after its trade leg was paid.
SellsCovered == SellsReserved /\ \A u \in User : pos[u].res <= pos[u].qty
SellInv == DeskInv /\ (Without({"race", "draft"}) => SellsCovered)
SettleInv ==
  SellInv /\ (Without({"race", "draft", "abort", "callback"}) => \A o \in Order : SettledOnce(o))

\* An order on the bank's account holds at least the reference price of what is
\* left of it, and exactly that while every price is the reference price.
HoldsEnough(o) ==
  BankFunded(o) =>
    /\ order[o].st \in {"PENDING", "APPROVED"} => RefPrice * order[o].rem <= order[o].exp
    /\ env.prices = {RefPrice} /\ Without({"draft"})
       /\ order[o].st \notin {"none", "PENDING_CONFIRMATION"} => order[o].exp = RefPrice * order[o].rem

Accounted ==
  /\ \A a \in Agent : act[a].resv = SumFunctionOnSet(Exposed, OrdersOf(a))
  /\ \A o \in Order : HoldsEnough(o)

ExposureInv == DeskInv /\ (Without({"race", "reset"}) /\ Modest => Accounted)

\* With the limits left alone, what an agent has used is what the orders on the
\* bank's account have traded.
WithinLimit ==
  \A a \in Agent :
    /\ act[a].limit = Limit /\ act[a].used = SumFunctionOnSet(Used, OrdersOf(a))
    /\ SumFunctionOnSet(AutoTaken, OrdersOf(a)) <= Limit

LimitInv ==
  ExposureInv /\ (Without({"race", "reset"}) /\ env.limits = {} /\ Modest => WithinLimit)
==========================================================================
