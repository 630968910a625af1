------------------------------- MODULE Funds -------------------------------
(***************************************************************************)
(* Investment funds of trading-service (internal/funds), the fund and      *)
(* premium sagas of saga-orchestrator-service, and the bank accounts they  *)
(* move money on (banking-core, external).                                 *)
(*                                                                         *)
(* A request is a process; a transaction that holds the fund's row lock    *)
(* from start to end is one step.  RecordDividend is not: it calls         *)
(* DebitLiquidity, which opens a transaction of its own and waits for the  *)
(* row lock its caller holds.  Sagas are processes too, one per listener,  *)
(* with the negative process ids below.  Holdings are priced in USD and    *)
(* amounts are whole units of RSD.                                         *)
(***************************************************************************)
EXTENDS Integers, Sequences, FiniteSets, FiniteSetsExt, SequencesExt

CONSTANTS
  Funds0,          \* funds at the start: name, mgr, liq, min, strat
  Holdings0,       \* fund, ticker, qty, avg, del
  Positions0,      \* <<client, fund>> -> amount invested
  FBank0,          \* account -> balance
  Prices,          \* ticker -> current price in USD
  UsdRsd,          \* rate
  MinMonthlySnapshots,
  FundScenarios    \* [what: the requests, market: whether market-service answers, may, budget]

VARIABLES
  fenv,
  funds, fpos, ftx, hold, snaps, dists,
  flock,     \* fund -> the process whose open transaction holds its row
  fbank,     \* balances (banking-core)
  freq,      \* requests published to the sagas
  fres,      \* results published by the sagas
  fsaga,     \* saga rows: <<kind, id>> -> state
  fat,       \* process -> where it is
  fghost, ffaults

fundRows == <<funds, fpos, ftx, hold, snaps, dists>>
sagaVars == <<freq, fres, fsaga>>
fvars == <<fenv, funds, fpos, ftx, hold, snaps, dists, flock, fbank, freq, fres, fsaga, fat, fghost, ffaults>>

Order == fenv.what
Ordered == DOMAIN Order
FundId == DOMAIN funds
Listener == [subscribe |-> -1, redeem |-> -2, liquidate |-> -3, premium |-> -4]
SagaKinds == DOMAIN Listener

Nobody == 0              \* the client id of an event that carries none
BankInvestorID == -1
Free == 0                \* of flock
Nil == -999              \* a metric that is not available
ClientAcc(c) == 10 + c   \* accounts of the clients; a fund's account is its id

FMay(f) == f \in fenv.may
FFail(f) == FMay(f) /\ ffaults < fenv.budget /\ ffaults' = ffaults + 1

FundInit ==
  /\ fenv \in FundScenarios
  /\ funds = Funds0 /\ fpos = Positions0 /\ ftx = <<>> /\ hold = Holdings0
  /\ snaps = {} /\ dists = {}
  /\ flock = [f \in 1 .. Len(Funds0) |-> Free]
  /\ fbank = FBank0
  /\ freq = fenv.premiums /\ fres = <<>> /\ fsaga = <<>>
  /\ fat = [p \in Ordered \cup {Listener[k] : k \in SagaKinds} |-> [pc |-> "start"]]
  /\ fghost = [skewed |-> {}, moved |-> <<>>, premium |-> 0]
  /\ ffaults = 0

FGoto(p, s) == fat' = [fat EXCEPT ![p] = s]
FDone(p) == FGoto(p, [pc |-> IF p < 0 THEN "start" ELSE "done"])
FIs(r, kind, pc) == r \in Ordered /\ Order[r].kind = kind /\ fat[r].pc = pc
Skew(f) == fghost' = [fghost EXCEPT !.skewed = @ \cup {f}]
Put(fn, k, v) == [x \in DOMAIN fn \cup {k} |-> IF x = k THEN v ELSE fn[x]]
Ids(T, P(_)) == SelectSeq([i \in 1 .. Len(T) |-> i], P)
FSum(S, V(_)) == MapThenSumSet(V, S)
HalfUp(n, d) == (2 * n + d) \div (2 * d)
CeilDiv(n, d) == (n + d - 1) \div d
--------------------------------------------------------------------------
\* repository.go, repository_holdings.go: reads and single-statement writes.
FindFundByIDForUpdate(f) == f \in FundId /\ flock[f] = Free
FindFundsActive == [i \in 1 .. Len(funds) |-> i]
FindFundsByManager(m) == Ids(funds, LAMBDA i : funds[i].mgr = m)
InsertFund(name, mgr, min, strat) ==
  /\ funds' = Append(funds, [name |-> name, mgr |-> mgr, liq |-> 0, min |-> min, strat |-> strat])
  /\ flock' = Append(flock, Free)
UpdateFundLiquidity(f, v) == funds' = [funds EXCEPT ![f].liq = v]
UpdateFundManager(f, m) == funds' = [funds EXCEPT ![f].mgr = m]

FindPosition(c, f) == <<c, f>> \in DOMAIN fpos
FindPositionForUpdate(c, f) == FindPosition(c, f)
FindPositionsByClient(c) == {k \in DOMAIN fpos : k[1] = c}
FindPositionsByFund(f) == {k \in DOMAIN fpos : k[2] = f}
UpsertPosition(c, f, v) == fpos' = Put(fpos, <<c, f>>, v)

FindTransactionByID(i) == i \in DOMAIN ftx
FindTransactionsByClient(c) == Ids(ftx, LAMBDA i : ftx[i].client = c)
FindTransactionsByFund(f) == Ids(ftx, LAMBDA i : ftx[i].fund = f)
InsertTransaction(c, f, amt, inflow) ==
  ftx' = Append(ftx, [client |-> c, fund |-> f, amt |-> amt, inflow |-> inflow, st |-> "PENDING"])
UpdateTransactionStatus(i, st) == ftx' = [ftx EXCEPT ![i].st = st]

FindHoldingsActive(f) == Ids(hold, LAMBDA i : hold[i].fund = f /\ ~hold[i].del)
FindHolding(f, t) == {i \in DOMAIN hold : hold[i].fund = f /\ hold[i].ticker = t /\ ~hold[i].del}
InsertHolding(f, t, q, price) ==
  hold' = Append(hold, [fund |-> f, ticker |-> t, qty |-> q, avg |-> price, del |-> FALSE])
UpdateHolding(i, q, avg) == hold' = [hold EXCEPT ![i].qty = q, ![i].avg = avg, ![i].del = q = 0]

SnapsOf(f) == {s \in snaps : s.fund = f}
FindSnapshots(f) == SortSeq(SetToSeq(SnapsOf(f)), LAMBDA a, b : a.day < b.day)
FindSnapshotByDate(f, d) == {s \in snaps : s.fund = f /\ s.day = d}
UpsertSnapshot(f, d, v) ==
  snaps' = (snaps \ FindSnapshotByDate(f, d)) \cup {[fund |-> f, day |-> d, total |-> v]}
FindDistribution(f, t, d) == {x \in dists : x.fund = f /\ x.ticker = t /\ x.day = d}
--------------------------------------------------------------------------
\* Prices and conversions fall back when market-service does not answer: a
\* holding to its average price, an amount to itself, unconverted.
UnitPrice(h) == IF fenv.market THEN Prices[h.ticker] ELSE h.avg
RateNow == IF fenv.market THEN UsdRsd ELSE 1
convertUsdToRsd(u) == u * RateNow
\* Compared with amounts that are multiples of the rate's reciprocal.
SharesFor(rsd, price) == CeilDiv(rsd, price * RateNow)

List(f) == FindHoldingsActive(f)
ValueIn(H, f) ==
  convertUsdToRsd(FSum({i \in DOMAIN H : H[i].fund = f /\ ~H[i].del}, LAMBDA i : UnitPrice(H[i]) * H[i].qty))
CalculateHoldingsValue(f) == ValueIn(hold, f)
computeFundValue(f) == funds[f].liq + CalculateHoldingsValue(f)

Denominator(invested, total, value) == IF value > total THEN value ELSE total

TotalInvested(f) == FSum(FindPositionsByFund(f), LAMBDA k : fpos[k])
computeCurrentPositionValue(k) ==
  LET value == computeFundValue(k[2])
      total == TotalInvested(k[2])
  IN IF total <= 0 \/ value <= 0 THEN 0
     ELSE HalfUp(fpos[k] * value, Denominator(fpos[k], total, value))

EnrichedHoldings(f) ==
  [n \in 1 .. Len(List(f)) |-> LET i == List(f)[n] IN
     [ticker |-> hold[i].ticker, qty |-> hold[i].qty, cost |-> hold[i].avg * hold[i].qty,
      price |-> IF fenv.market THEN Prices[hold[i].ticker] ELSE Nil]]

AddOrUpdate(f, t, q, price) ==
  IF FindHolding(f, t) = {} THEN InsertHolding(f, t, q, price)
  ELSE LET i == Min(FindHolding(f, t)) IN
       UpdateHolding(i, hold[i].qty + q, HalfUp(hold[i].avg * hold[i].qty + price * q, hold[i].qty + q))

Reducible(f, t, q) == q > 0 /\ \E i \in FindHolding(f, t) : hold[i].qty >= q
Reduce(f, t, q) == LET i == Min(FindHolding(f, t)) IN UpdateHolding(i, hold[i].qty - q, hold[i].avg)
--------------------------------------------------------------------------
\* snapshot.go: one row per fund and day, the latest wins; failures of
\* RecordSilently are swallowed.
Record(f, d) == UpsertSnapshot(f, d, funds'[f].liq + ValueIn(hold', f))
RecordSilently(f) == Record(f, fenv.today) \/ (FMay("snap") /\ UNCHANGED snaps)

CaptureDailySnapshots(r) ==
  /\ FIs(r, "capture", "start")
  /\ snaps' = {s \in snaps : s.day # Order[r].day}
              \cup {[fund |-> f, day |-> Order[r].day, total |-> computeFundValue(f)] : f \in FundId}
  /\ FDone(r)
  /\ UNCHANGED <<fenv, funds, fpos, ftx, hold, dists, flock, fbank, sagaVars, fghost, ffaults>>

MonthOf(d) == d \div 2
MonthlySnapshots(f) ==
  SelectSeq(FindSnapshots(f), LAMBDA s : \A x \in SnapsOf(f) : MonthOf(x.day) = MonthOf(s.day) => x.day <= s.day)

\* Relative to the fund's first snapshot, in percent; none when that one is
\* not positive.
indexForDate(h, d) ==
  IF h = <<>> \/ h[1].total <= 0 THEN {}
  ELSE {HalfUp(h[i].total * 100, h[1].total) : i \in {j \in DOMAIN h : h[j].day = d}}

AveragePerformance(f) ==
  LET h == FindSnapshots(f)
      Known(d) == {g \in FundId : indexForDate(FindSnapshots(g), d) # {}}
  IN IF h = <<>> \/ h[1].total <= 0 THEN <<>>
     ELSE [i \in DOMAIN h |->
             [day |-> h[i].day, own |-> indexForDate(h, h[i].day),
              avg |-> HalfUp(FSum(Known(h[i].day), LAMBDA g : Min(indexForDate(FindSnapshots(g), h[i].day))),
                             Cardinality(Known(h[i].day)))]]

\* statistics.go.  The annual rate is the growth itself (raising it to a
\* power keeps the order), the volatility the variance (so does its root).
calculateAnnualizedReturn(v) ==
  IF v[1] <= 0 \/ Len(v) < 2 THEN Nil ELSE HalfUp(100 * v[Len(v)], v[1]) - 100
monthlyReturns(v) ==
  LET ok == SelectSeq([i \in 1 .. Len(v) |-> i], LAMBDA i : i > 1 /\ v[i - 1] > 0)
  IN [n \in 1 .. Len(ok) |-> HalfUp(100 * (v[ok[n]] - v[ok[n] - 1]), v[ok[n] - 1])]
calculateVolatility(v) ==
  LET r == monthlyReturns(v)
      mean == FSum(DOMAIN r, LAMBDA i : r[i]) \div Len(r)
  IN IF r = <<>> THEN Nil ELSE FSum(DOMAIN r, LAMBDA i : (r[i] - mean) ^ 2) \div Len(r)
calculateMaxDrawdown(v) ==
  Max({0} \cup {HalfUp(100 * (v[ij[1]] - v[ij[2]]), v[ij[1]]) :
                  ij \in {x \in (DOMAIN v) \X (DOMAIN v) : x[1] <= x[2] /\ v[x[1]] > 0}})
fromSnapshots(m) ==
  LET v == [i \in DOMAIN m |-> m[i].total] IN
  IF Len(m) < MinMonthlySnapshots
  THEN [used |-> Len(m), ret |-> Nil, vol |-> Nil, draw |-> Nil]
  ELSE [used |-> Len(m), ret |-> calculateAnnualizedReturn(v), vol |-> calculateVolatility(v),
        draw |-> calculateMaxDrawdown(v)]
MetricsFor(f) == fromSnapshots(MonthlySnapshots(f))

toDto(f) ==
  LET m == MetricsFor(f) IN
  [name |-> funds[f].name, total |-> computeFundValue(f), profit |-> computeFundValue(f) - TotalInvested(f),
   ret |-> m.ret, vol |-> m.vol, draw |-> m.draw]

decimalCompareNullsLast(a, b, desc) ==
  CASE a = Nil /\ b = Nil -> 0
    [] a = Nil /\ b # Nil -> 1
    [] a # Nil /\ b = Nil -> -1
    [] OTHER -> IF desc THEN b - a ELSE a - b
Sort(items, field, desc) ==
  SortSeq(items, LAMBDA a, b :
    LET c == decimalCompareNullsLast(toDto(a)[field], toDto(b)[field], desc)
    IN c < 0 \/ (c = 0 /\ funds[a].name < funds[b].name))

Discovery(field, desc) == Sort(FindFundsActive, field, desc)
SupervisedBy(m) == FindFundsByManager(m)
FundPerformance(f) ==
  LET point == [total |-> computeFundValue(f), profit |-> computeFundValue(f) - TotalInvested(f)] IN
  IF FindTransactionsByFund(f) = <<>> THEN << [tx |-> 0] @@ point >>
  ELSE [n \in 1 .. Len(FindTransactionsByFund(f)) |-> [tx |-> FindTransactionsByFund(f)[n]] @@ point]
positionToDto(k) ==
  [fund |-> k[2], invested |-> fpos[k], current |-> computeCurrentPositionValue(k),
   profit |-> computeCurrentPositionValue(k) - fpos[k]]
MyPositions(c) == [k \in FindPositionsByClient(c) |-> positionToDto(k)]
BankPositions == MyPositions(BankInvestorID)
FundPositions(f) == [k \in FindPositionsByFund(f) |-> positionToDto(k)]
MyTransactions(c) == FindTransactionsByClient(c)
--------------------------------------------------------------------------
\* account_number.go: fifteen digits and a weighted check digit.
Weight(i) == 2 + ((15 - i) % 6)
checkDigit(prefix) ==
  LET cd == 11 - (FSum(1 .. 15, LAMBDA i : prefix[i] * Weight(i)) % 11) IN IF cd >= 10 THEN 0 ELSE cd
GenerateAccountNumber(d) == Append([i \in 1 .. 15 |-> d], checkDigit([i \in 1 .. 15 |-> d]))

\* CreateFund: the row is committed before the account is asked for, and
\* stays when that fails.
CreateFund(r) ==
  /\ FIs(r, "create", "start") /\ Order[r].by = "SUPERVISOR"
  /\ InsertFund(Order[r].name, Order[r].who, Order[r].min, Order[r].strat)
  /\ FGoto(r, [pc |-> "account", fund |-> Len(funds) + 1, number |-> GenerateAccountNumber(Order[r].name)])
  /\ UNCHANGED <<fenv, fpos, ftx, hold, snaps, dists, fbank, sagaVars, fghost, ffaults>>

\* An existing account is left as it is; a new one opens with the liquidity
\* the fund records.
CreateSystemAccount(f, liq) == fbank' = IF f \in DOMAIN fbank THEN fbank ELSE Put(fbank, f, liq)

CreateFundAccount(r) ==
  /\ FIs(r, "create", "account")
  /\ UNCHANGED <<funds, hold>>
  /\ \/ CreateSystemAccount(fat[r].fund, 0) /\ RecordSilently(fat[r].fund) /\ UNCHANGED ffaults
     \/ FFail("account") /\ UNCHANGED <<fbank, snaps>>
  /\ FDone(r)
  /\ UNCHANGED <<fenv, fpos, ftx, dists, flock, sagaVars, fghost>>

\* ReassignManager: one statement per fund of the list read at the start.
ReassignManager(r) ==
  /\ FIs(r, "reassign", "start") /\ Order[r].by = "SERVICE"
  /\ FGoto(r, [pc |-> "each", todo |-> FindFundsByManager(Order[r].from)])
  /\ UNCHANGED <<fenv, fundRows, flock, fbank, sagaVars, fghost, ffaults>>

ReassignOne(r) ==
  /\ FIs(r, "reassign", "each")
  /\ \/ /\ fat[r].todo # <<>> /\ FindFundByIDForUpdate(Head(fat[r].todo))
        /\ UpdateFundManager(Head(fat[r].todo), Order[r].to)
        /\ FGoto(r, [fat[r] EXCEPT !.todo = Tail(@)]) /\ UNCHANGED ffaults
     \/ fat[r].todo # <<>> /\ FFail("db") /\ FDone(r) /\ UNCHANGED funds
     \/ fat[r].todo = <<>> /\ FDone(r) /\ UNCHANGED <<funds, ffaults>>
  /\ UNCHANGED <<fenv, fpos, ftx, hold, snaps, dists, flock, fbank, sagaVars, fghost>>
--------------------------------------------------------------------------
ensureFundAccountExists(f) == CreateSystemAccount(f, funds[f].liq)

Investor(r) == IF Order[r].by = "SUPERVISOR" THEN BankInvestorID ELSE Order[r].who
MayInvest(r) == Order[r].by \in {"SUPERVISOR", "CLIENT_TRADING"}

\* investImpl, redeemImpl: the PENDING row commits, the saga is asked after.
investImpl(r) ==
  /\ FIs(r, "invest", "start") /\ MayInvest(r)
  /\ LET f == Order[r].fund IN
     /\ FindFundByIDForUpdate(f)
     /\ ensureFundAccountExists(f)
     /\ Order[r].amt >= funds[f].min
     /\ InsertTransaction(Investor(r), f, Order[r].amt, TRUE)
     /\ FGoto(r, [pc |-> "publish", kind |-> "subscribe", id |-> Len(ftx) + 1])
  /\ UNCHANGED <<fenv, funds, fpos, hold, snaps, dists, flock, sagaVars, fghost, ffaults>>

\* Nothing is set aside: redemptions that are still pending are not counted.
redeemImpl(r) ==
  /\ FIs(r, "redeem", "start") /\ MayInvest(r)
  /\ LET f == Order[r].fund
         c == Investor(r)
     IN /\ FindFundByIDForUpdate(f)
        /\ ensureFundAccountExists(f)
        /\ FindPositionForUpdate(c, f)
        /\ Order[r].amt <= computeCurrentPositionValue(<<c, f>>)
        /\ InsertTransaction(c, f, Order[r].amt, FALSE)
        /\ FGoto(r, [pc |-> "publish", id |-> Len(ftx) + 1,
                     kind |-> IF funds[f].liq >= Order[r].amt THEN "redeem" ELSE "liquidate"])
  /\ UNCHANGED <<fenv, funds, fpos, hold, snaps, dists, flock, sagaVars, fghost, ffaults>>

PublishSagaRequest(r) ==
  /\ r \in Ordered /\ fat[r].pc = "publish"
  /\ \/ freq' = Append(freq, [kind |-> fat[r].kind, id |-> fat[r].id]) /\ UNCHANGED ffaults
     \/ FFail("pub") /\ UNCHANGED freq
  /\ FDone(r)
  /\ UNCHANGED <<fenv, fundRows, flock, fbank, fres, fsaga, fghost>>
--------------------------------------------------------------------------
\* Saga results.  The events of the orchestrator carry no client, and the
\* handler falls back to client 0.
EventClient(e) == Nobody

\* Mutant: a result is applied whatever the transaction's status.
PendingOrNot(i) == FindTransactionByID(i)
StillPending(i) == FindTransactionByID(i) /\ ftx[i].st = "PENDING"

CompleteInvest(e) ==
  LET f == ftx[e.id].fund
      c == EventClient(e)
  IN /\ FindFundByIDForUpdate(f)
     /\ UpdateTransactionStatus(e.id, "COMPLETED")
     /\ UpsertPosition(c, f, (IF FindPosition(c, f) THEN fpos[<<c, f>>] ELSE 0) + ftx[e.id].amt)
     /\ UpdateFundLiquidity(f, funds[f].liq + ftx[e.id].amt)
     /\ UNCHANGED fghost

\* Neither the position nor the liquidity goes below zero.
AtLeastZero(n) == IF n < 0 THEN 0 ELSE n
CompleteRedeem(e) ==
  LET f == ftx[e.id].fund
      c == EventClient(e)
      left == funds[f].liq - ftx[e.id].amt
  IN /\ FindFundByIDForUpdate(f)
     /\ UpdateTransactionStatus(e.id, "COMPLETED")
     /\ IF FindPosition(c, f) THEN UpsertPosition(c, f, AtLeastZero(fpos[<<c, f>>] - ftx[e.id].amt)) ELSE UNCHANGED fpos
     /\ UpdateFundLiquidity(f, AtLeastZero(left))
     /\ IF left < 0 THEN Skew(f) ELSE UNCHANGED fghost

FailTransaction(e) == UpdateTransactionStatus(e.id, "FAILED") /\ UNCHANGED <<funds, fpos, fghost>>

isInvestSaga(e) == e.kind = "subscribe"
ApplyResult(e) ==
  IF ~StillPending(e.id) THEN UNCHANGED <<funds, fpos, ftx, fghost>>
  ELSE CASE e.ok /\ isInvestSaga(e) -> CompleteInvest(e)
         [] e.ok /\ ~isInvestSaga(e) -> CompleteRedeem(e)
         [] OTHER -> FailTransaction(e)

\* buildSagaHandler: an error rejects the message, which is then gone.
SagaHandler ==
  /\ fres # <<>>
  /\ \/ fres' = Tail(fres) /\ ApplyResult(Head(fres)) /\ UNCHANGED ffaults
     \/ FFail("dup") /\ UNCHANGED fres /\ ApplyResult(Head(fres))
     \/ FFail("db") /\ fres' = Tail(fres) /\ UNCHANGED <<funds, fpos, ftx, fghost>>
  /\ UNCHANGED <<fenv, hold, snaps, dists, flock, fbank, freq, fsaga, fat>>
--------------------------------------------------------------------------
\* The order callbacks: execution has debited the fund's account; both calls
\* are best effort.
OrderPaid(r) ==
  /\ FIs(r, "order", "start")
  /\ Order[r].fund \in DOMAIN fbank /\ fbank[Order[r].fund] >= Order[r].amt
  /\ fbank' = [fbank EXCEPT ![Order[r].fund] = @ - Order[r].amt]
  /\ FGoto(r, [pc |-> "debit"])
  /\ UNCHANGED <<fenv, fundRows, flock, sagaVars, fghost, ffaults>>

DebitLiquidity(r) ==
  /\ FIs(r, "order", "debit")
  /\ \/ /\ FindFundByIDForUpdate(Order[r].fund)
        /\ UpdateFundLiquidity(Order[r].fund, funds[Order[r].fund].liq - Order[r].amt)
        /\ UNCHANGED <<fghost, ffaults>>
     \/ FFail("db") /\ Skew(Order[r].fund) /\ UNCHANGED funds
  /\ FGoto(r, [pc |-> "add"])
  /\ UNCHANGED <<fenv, fpos, ftx, hold, snaps, dists, flock, fbank, sagaVars>>

AddHolding(r) ==
  /\ FIs(r, "order", "add")
  /\ \/ /\ AddOrUpdate(Order[r].fund, Order[r].ticker, Order[r].qty, Prices[Order[r].ticker])
        /\ UNCHANGED <<funds, ffaults>>
        /\ RecordSilently(Order[r].fund)
     \/ FFail("db") /\ UNCHANGED <<funds, hold, snaps>>
  /\ FDone(r)
  /\ UNCHANGED <<fenv, fpos, ftx, dists, flock, fbank, sagaVars, fghost>>
--------------------------------------------------------------------------
\* liquidation.go.  The fund's row is read FOR UPDATE outside a transaction,
\* so the lock is gone at once: the liquidity read here is written back, with
\* the proceeds added, after the holdings are sold one statement at a time.
LargestFirst(f) == SortSeq(List(f), LAMBDA a, b : hold[a].qty > hold[b].qty)

\* One sale of the plan: all of the holding, or what still covers the need.
SaleOf(i, need) ==
  LET price == UnitPrice(hold[i])
      all == price * hold[i].qty * RateNow <= need
  IN [ticker |-> hold[i].ticker, price |-> price, qty |-> IF all THEN hold[i].qty ELSE SharesFor(need, price)]
Proceeds(sales) == convertUsdToRsd(FSum(DOMAIN sales, LAMBDA n : sales[n].price * sales[n].qty))
LiquidationPlan(f, target) ==
  FoldLeft(LAMBDA done, i : IF Proceeds(done) >= target THEN done
                            ELSE Append(done, SaleOf(i, target - Proceeds(done))), <<>>, LargestFirst(f))

StartSale(p, f, plan) ==
  FGoto(p, [pc |-> "sell", fund |-> f, liq |-> funds[f].liq, todo |-> plan, sum |-> Proceeds(plan)])

SellHolding(r) ==
  /\ FIs(r, "sell", "start") /\ Order[r].by = "SUPERVISOR" /\ Order[r].qty > 0
  /\ FindFundByIDForUpdate(Order[r].fund)
  /\ \E i \in FindHolding(Order[r].fund, Order[r].ticker) :
       /\ Order[r].qty <= hold[i].qty
       /\ StartSale(r, Order[r].fund, << [ticker |-> Order[r].ticker, price |-> UnitPrice(hold[i]), qty |-> Order[r].qty] >>)
  /\ UNCHANGED <<fenv, fundRows, flock, fbank, sagaVars, fghost, ffaults>>

\* An error ends a supervisor's request; a saga records the failure.
SaleFailed(p) == FGoto(p, IF p < 0 THEN [pc |-> "finalize", id |-> fat[p].id, ok |-> FALSE] ELSE [pc |-> "done"])
SaleMade(p) == FGoto(p, IF p < 0 THEN [pc |-> "save", id |-> fat[p].id] ELSE [pc |-> "done"])

ReduceNext(p) ==
  /\ fat[p].pc = "sell" /\ fat[p].todo # <<>>
  /\ LET s == Head(fat[p].todo) IN
     \/ /\ Reducible(fat[p].fund, s.ticker, s.qty) /\ Reduce(fat[p].fund, s.ticker, s.qty)
        /\ FGoto(p, [fat[p] EXCEPT !.todo = Tail(@)]) /\ UNCHANGED ffaults
     \/ ~Reducible(fat[p].fund, s.ticker, s.qty) /\ SaleFailed(p) /\ UNCHANGED <<hold, ffaults>>
     \/ FFail("db") /\ SaleFailed(p) /\ UNCHANGED hold
  /\ UNCHANGED <<fenv, funds, fpos, ftx, snaps, dists, flock, fbank, sagaVars, fghost>>

NewLiquidity(p) == fat[p].liq + fat[p].sum

WriteLiquidity(p) ==
  /\ fat[p].pc = "sell" /\ fat[p].todo = <<>>
  /\ FindFundByIDForUpdate(fat[p].fund)
  /\ UpdateFundLiquidity(fat[p].fund, NewLiquidity(p))
  /\ IF funds[fat[p].fund].liq # fat[p].liq THEN Skew(fat[p].fund) ELSE UNCHANGED fghost
  /\ FGoto(p, [fat[p] EXCEPT !.pc = "credit"])
  /\ UNCHANGED <<fenv, fpos, ftx, hold, snaps, dists, flock, fbank, sagaVars, ffaults>>

creditFundAccount(p) ==
  /\ fat[p].pc = "credit"
  /\ \/ /\ fat[p].fund \in DOMAIN fbank /\ fbank' = [fbank EXCEPT ![fat[p].fund] = @ + fat[p].sum]
        /\ UNCHANGED <<funds, hold>> /\ RecordSilently(fat[p].fund)
        /\ SaleMade(p) /\ UNCHANGED <<fghost, ffaults>>
     \/ FFail("account") /\ Skew(fat[p].fund) /\ SaleFailed(p) /\ UNCHANGED <<fbank, funds, hold, snaps>>
  /\ UNCHANGED <<fenv, fpos, ftx, dists, flock, sagaVars>>
--------------------------------------------------------------------------
\* dividend.go.  The check for an earlier distribution precedes the
\* transaction; the credit of the account is made inside it and is not undone
\* by a rollback.
convertToRsd(amt, cur) == IF cur = "RSD" THEN amt ELSE convertUsdToRsd(amt)
DividendKey(r) == FindDistribution(Order[r].fund, Order[r].ticker, Order[r].day)
Unlock(f) == flock' = [flock EXCEPT ![f] = Free]

RecordDividend(r) ==
  /\ FIs(r, "dividend", "start") /\ Order[r].by \in {"SERVICE", "SUPERVISOR"}
  /\ DividendKey(r) = {}
  /\ FGoto(r, [pc |-> "begin"])
  /\ UNCHANGED <<fenv, fundRows, flock, fbank, sagaVars, fghost, ffaults>>

BeginDividend(r) ==
  /\ FIs(r, "dividend", "begin") /\ FindFundByIDForUpdate(Order[r].fund)
  /\ \/ \E i \in FindHolding(Order[r].fund, Order[r].ticker) :
          /\ flock' = [flock EXCEPT ![Order[r].fund] = r]
          /\ FGoto(r, [pc |-> "gross", holding |-> i, gross |-> convertToRsd(Order[r].per * hold[i].qty, Order[r].cur)])
     \/ FindHolding(Order[r].fund, Order[r].ticker) = {} /\ FDone(r) /\ UNCHANGED flock
  /\ UNCHANGED <<fenv, fundRows, fbank, sagaVars, fghost, ffaults>>

CreditDividend(r) ==
  /\ FIs(r, "dividend", "gross")
  /\ \/ /\ Order[r].fund \in DOMAIN fbank
        /\ fbank' = [fbank EXCEPT ![Order[r].fund] = @ + fat[r].gross]
        /\ FGoto(r, [fat[r] EXCEPT !.pc = "split"]) /\ UNCHANGED <<flock, ffaults>>
     \/ FFail("account") /\ Unlock(Order[r].fund) /\ FDone(r) /\ UNCHANGED fbank
  /\ UNCHANGED <<fenv, fundRows, sagaVars, fghost>>

Strategy(r) == IF Order[r].strat = "" THEN funds[Order[r].fund].strat ELSE Order[r].strat
ReinvestedShares(r) == fat[r].gross \div convertUsdToRsd(UnitPrice(hold[fat[r].holding]))

\* The clients' shares in the order of their ids, the last one taking what
\* the others left; the bank's own position does not take part.
ClientsOf(f) == SortSeq(SetToSeq({k[1] : k \in FindPositionsByFund(f)} \ {BankInvestorID}), LAMBDA a, b : a < b)
Payouts(r) ==
  LET f == Order[r].fund
      cs == ClientsOf(f)
      invested == FSum(DOMAIN cs, LAMBDA n : fpos[<<cs[n], f>>])
      denom == Max({invested, AtLeastZero(funds[f].liq + CalculateHoldingsValue(f))})
      Part(n) == HalfUp(fat[r].gross * fpos[<<cs[n], f>>], denom)
      Amount(n) == IF n = Len(cs) THEN fat[r].gross - FSum(1 .. n - 1, LAMBDA m : Part(m)) ELSE Part(n)
  IN IF cs = <<>> \/ denom <= 0 THEN <<>>
     ELSE SelectSeq([n \in 1 .. Len(cs) |-> [to |-> ClientAcc(cs[n]), amt |-> Amount(n)]], LAMBDA x : x.amt > 0)
Payable(r) == SelectSeq(Payouts(r), LAMBDA x : x.to \in DOMAIN fbank)

\* The transaction's rows become visible; a distribution recorded meanwhile
\* for the same key makes the insert fail and rolls everything back.
CommitDividend(r) ==
  /\ IF DividendKey(r) = {}
     THEN /\ UpdateFundLiquidity(Order[r].fund, funds[Order[r].fund].liq + fat[r].gross)
          /\ dists' = dists \cup {[fund |-> Order[r].fund, ticker |-> Order[r].ticker, day |-> Order[r].day]}
          /\ UNCHANGED fghost
     ELSE UNCHANGED <<funds, dists>> /\ Skew(Order[r].fund)
  /\ Unlock(Order[r].fund) /\ FDone(r)

\* handleReinvest: with a share to buy, DebitLiquidity waits for the row this
\* transaction holds.
handleReinvest(r) ==
  /\ FIs(r, "dividend", "split") /\ Strategy(r) = "REINVEST"
  /\ \/ ReinvestedShares(r) > 0 /\ FGoto(r, [pc |-> "blocked"]) /\ UNCHANGED <<funds, dists, flock, fghost>>
     \/ ReinvestedShares(r) <= 0 /\ CommitDividend(r)
  /\ UNCHANGED <<fenv, fpos, ftx, hold, snaps, fbank, sagaVars, ffaults>>

\* handleClientPayouts: so does the debit after the first payment; a payment
\* that fails is recorded and the next client is tried.
handleClientPayouts(r) ==
  /\ FIs(r, "dividend", "split") /\ Strategy(r) = "PAYOUT_CLIENTS"
  /\ \/ /\ Payable(r) # <<>> /\ fbank[Order[r].fund] >= Head(Payable(r)).amt
        /\ fbank' = [fbank EXCEPT ![Order[r].fund] = @ - Head(Payable(r)).amt, ![Head(Payable(r)).to] = @ + Head(Payable(r)).amt]
        /\ FGoto(r, [pc |-> "blocked"]) /\ UNCHANGED <<funds, dists, flock, fghost, ffaults>>
     \/ Payable(r) = <<>> /\ CommitDividend(r) /\ UNCHANGED <<fbank, ffaults>>
     \/ Payable(r) # <<>> /\ FFail("account") /\ CommitDividend(r) /\ UNCHANGED fbank
  /\ UNCHANGED <<fenv, fpos, ftx, hold, snaps, sagaVars>>

\* The caller gives up: the waiting debit, and every later statement, fails
\* with the cancelled context and the transaction rolls back.
CancelDividend(r) ==
  /\ FIs(r, "dividend", "blocked")
  /\ Unlock(Order[r].fund) /\ Skew(Order[r].fund) /\ FDone(r)
  /\ UNCHANGED <<fenv, fundRows, fbank, sagaVars, ffaults>>
--------------------------------------------------------------------------
\* saga-orchestrator: one listener per queue.  A handler's error settles the
\* message as a success does; only a crash returns it.
SagaState(k, id) == IF <<k, id>> \in DOMAIN fsaga THEN fsaga[<<k, id>>] ELSE "none"
IsTerminal(s) == s \in {"COMPLETED", "FAILED"}
At(k, pc) == fat[Listener[k]].pc = pc

\* findOrInitialize and advanceState.
TakeRequest(k) ==
  /\ At(k, "start")
  /\ \E n \in DOMAIN freq :
       /\ freq[n].kind = k /\ \A m \in 1 .. n - 1 : freq[m].kind # k
       /\ freq' = SubSeq(freq, 1, n - 1) \o SubSeq(freq, n + 1, Len(freq))
       /\ LET s == SagaState(k, freq[n].id) IN
          \/ ~IsTerminal(s) /\ fsaga' = Put(fsaga, <<k, freq[n].id>>, "IN_PROGRESS") /\ UNCHANGED ffaults
             /\ FGoto(Listener[k], [pc |-> IF k = "liquidate" THEN "liquidate" ELSE "transfer", id |-> freq[n].id])
          \/ IsTerminal(s) /\ UNCHANGED <<fsaga, fat, ffaults>>
          \/ FFail("db") /\ UNCHANGED <<fsaga, fat>>
  /\ UNCHANGED <<fenv, fundRows, flock, fbank, fres, fghost>>

\* Step 1 of the liquidation saga, for the amount of the redemption.
LiquidateForFund ==
  /\ At("liquidate", "liquidate")
  /\ LET p == Listener.liquidate
         f == ftx[fat[p].id].fund
     IN /\ FindFundByIDForUpdate(f)
        /\ FGoto(p, [pc |-> "sell", fund |-> f, liq |-> funds[f].liq, id |-> fat[p].id,
                     todo |-> LiquidationPlan(f, ftx[fat[p].id].amt), sum |-> Proceeds(LiquidationPlan(f, ftx[fat[p].id].amt))])
  /\ UNCHANGED <<fenv, fundRows, flock, fbank, sagaVars, fghost, ffaults>>

\* saveLog between the steps: without it the saga stops, its shares sold.
SaveLiquidation ==
  /\ At("liquidate", "save")
  /\ LET p == Listener.liquidate IN
     \/ FGoto(p, [pc |-> "transfer", id |-> fat[p].id]) /\ UNCHANGED ffaults
     \/ FFail("db") /\ FDone(p)
  /\ UNCHANGED <<fenv, fundRows, flock, fbank, sagaVars, fghost>>

\* The accounts of a saga's transfer; a premium goes between two clients,
\* converted.
Ends(k, id) ==
  CASE k = "subscribe" -> <<ClientAcc(ftx[id].client), ftx[id].fund>>
    [] k = "premium" -> <<ClientAcc(1), ClientAcc(2)>>
    [] OTHER -> <<ftx[id].fund, ClientAcc(ftx[id].client)>>
SagaAmount(k, id) == IF k = "premium" THEN convertUsdToRsd(id) ELSE ftx[id].amt

InternalTransfer(k, id) ==
  LET e == Ends(k, id)
      a == SagaAmount(k, id)
  IN /\ e[1] \in DOMAIN fbank /\ e[2] \in DOMAIN fbank /\ fbank[e[1]] >= a
     /\ fbank' = [fbank EXCEPT ![e[1]] = @ - a, ![e[2]] = @ + a]
     /\ fghost' = IF k = "premium" THEN [fghost EXCEPT !.premium = @ + 1]
                  ELSE [fghost EXCEPT !.moved = Append(@, id)]
Covered(k, id) == LET e == Ends(k, id) IN e[1] \in DOMAIN fbank /\ e[2] \in DOMAIN fbank /\ fbank[e[1]] >= SagaAmount(k, id)

\* The transfer answers, is refused, or is made and its answer lost.
Then(p, ok) == FGoto(p, [pc |-> "finalize", id |-> fat[p].id, ok |-> ok])
Transfer(k) ==
  /\ At(k, "transfer")
  /\ LET p == Listener[k] IN
     \/ InternalTransfer(k, fat[p].id) /\ Then(p, TRUE) /\ UNCHANGED ffaults
     \/ ~Covered(k, fat[p].id) /\ Then(p, FALSE) /\ UNCHANGED <<fbank, fghost, ffaults>>
     \/ FFail("lost") /\ InternalTransfer(k, fat[p].id) /\ Then(p, FALSE)
  /\ UNCHANGED <<fenv, fundRows, flock, sagaVars>>

HandleFundSubscribe == Transfer("subscribe")
HandleFundRedeem == Transfer("redeem")
HandleFundRedeemWithLiquidation == Transfer("liquidate") \/ LiquidateForFund \/ SaveLiquidation
HandleOtcPremiumTransfer == Transfer("premium")

\* finalize: an error is logged, the result is published all the same.
finalize(k) ==
  /\ At(k, "finalize")
  /\ LET p == Listener[k] IN
     /\ \/ fsaga' = [fsaga EXCEPT ![<<k, fat[p].id>>] = IF fat[p].ok THEN "COMPLETED" ELSE "FAILED"] /\ UNCHANGED ffaults
        \/ FFail("db") /\ UNCHANGED fsaga
     /\ FGoto(p, [fat[p] EXCEPT !.pc = "result"])
  /\ UNCHANGED <<fenv, fundRows, flock, fbank, freq, fres, fghost>>

publishJSON(k) ==
  /\ At(k, "result")
  /\ LET p == Listener[k] IN
     /\ \/ /\ fres' = IF k = "premium" THEN fres ELSE Append(fres, [kind |-> k, id |-> fat[p].id, ok |-> fat[p].ok])
           /\ UNCHANGED ffaults
        \/ FFail("pub") /\ UNCHANGED fres
     /\ FDone(p)
  /\ UNCHANGED <<fenv, fundRows, flock, fbank, freq, fsaga, fghost>>

\* The orchestrator dies: unsettled messages come back, and a sale it was
\* waiting for stops where it is, its request cancelled.
CrashOrchestrator ==
  /\ FFail("crash")
  /\ LET busy == {k \in SagaKinds : ~At(k, "start")}
         back == SetToSeq({[kind |-> k, id |-> fat[Listener[k]].id] : k \in busy})
     IN /\ busy # {}
        /\ freq' = back \o freq
        /\ fat' = [p \in DOMAIN fat |-> IF p < 0 THEN [pc |-> "start"] ELSE fat[p]]
        /\ IF At("liquidate", "credit") THEN Skew(fat[Listener.liquidate].fund) ELSE UNCHANGED fghost
  /\ UNCHANGED <<fenv, fundRows, flock, fbank, fres, fsaga>>

Sagas ==
  \/ \E k \in SagaKinds : TakeRequest(k) \/ finalize(k) \/ publishJSON(k)
  \/ HandleFundSubscribe \/ HandleFundRedeem \/ HandleFundRedeemWithLiquidation \/ HandleOtcPremiumTransfer
  \/ CrashOrchestrator

FundStep(r) ==
  \/ CreateFund(r) \/ CreateFundAccount(r) \/ ReassignManager(r) \/ ReassignOne(r)
  \/ investImpl(r) \/ redeemImpl(r) \/ PublishSagaRequest(r)
  \/ OrderPaid(r) \/ DebitLiquidity(r) \/ AddHolding(r) \/ SellHolding(r) \/ CaptureDailySnapshots(r)
  \/ RecordDividend(r) \/ BeginDividend(r) \/ CreditDividend(r) \/ handleReinvest(r)
  \/ handleClientPayouts(r) \/ CancelDividend(r)

FundNext ==
  \/ \E r \in Ordered : FundStep(r)
  \/ \E p \in DOMAIN fat : ReduceNext(p) \/ WriteLiquidity(p) \/ creditFundAccount(p)
  \/ Sagas \/ SagaHandler

FundSpec == FundInit /\ [][FundNext]_fvars
--------------------------------------------------------------------------
\* Types of the tables; a fund's row is locked only by a dividend in progress.
FundTypeOK ==
  /\ \A f \in FundId : funds[f].liq \in Int /\ funds[f].strat \in {"REINVEST", "PAYOUT_CLIENTS"}
  /\ \A k \in DOMAIN fpos : fpos[k] \in Nat
  /\ \A i \in DOMAIN ftx : ftx[i].st \in {"PENDING", "COMPLETED", "FAILED"}
  /\ \A i \in DOMAIN hold : hold[i].qty \in Nat /\ (hold[i].del <=> hold[i].qty = 0)
  /\ \A a \in DOMAIN fbank : fbank[a] \in Nat
  /\ \A f \in FundId : flock[f] = Free \/ fat[flock[f]].pc \in {"gross", "split", "blocked"}

\* The money moved for a transaction beyond what its status has booked.
Sign(i) == IF ftx[i].inflow THEN 1 ELSE -1
Times(i) == Cardinality({n \in DOMAIN fghost.moved : fghost.moved[n] = i})
Unbooked(f) ==
  FSum({i \in DOMAIN ftx : ftx[i].fund = f},
       LAMBDA i : Sign(i) * ftx[i].amt * (Times(i) - (IF ftx[i].st = "COMPLETED" THEN 1 ELSE 0)))
Working(f) ==
  \E p \in DOMAIN fat : \/ fat[p].pc \in {"sell", "credit"} /\ fat[p].fund = f
                        \/ p > 0 /\ fat[p].pc \in {"debit", "split", "blocked"} /\ Order[p].fund = f

\* A fund's recorded liquidity is the money on its account but for transfers
\* whose result has not been booked (lost, late or doubled), as long as no
\* stale liquidity was written over a newer one, no credit or debit failed
\* half way, no dividend was rolled back after its credit, and no redemption
\* was cut off at zero.  A transaction is COMPLETED only after its transfer.
FundBooks ==
  /\ \A f \in FundId \cap DOMAIN fbank :
       f \in fghost.skewed \/ Working(f) \/ fbank[f] = funds[f].liq + Unbooked(f)
  /\ \A i \in DOMAIN ftx : ftx[i].st = "COMPLETED" => Times(i) > 0

\* What is shown of a fund is consistent: the positions' current values add
\* up to no more than the fund's value (each is rounded), every list of
\* positions and transactions shows the same rows, a metric that is missing
\* comes last whichever way the list is sorted, one snapshot stands for each
\* month, every performance line starts at 100, and a ticker is held once.
\* The figures come from the tables alone: looked at when no step is under way.
FundViews == (\A p \in DOMAIN fat : fat[p].pc \in {"start", "done", "blocked"}) =>
  /\ \A f \in FundId :
       /\ FSum(FindPositionsByFund(f), LAMBDA k : FundPositions(f)[k].current)
            <= AtLeastZero(computeFundValue(f)) + Cardinality(FindPositionsByFund(f))
       /\ \A i, j \in DOMAIN MonthlySnapshots(f) :
            i < j => MonthOf(MonthlySnapshots(f)[i].day) < MonthOf(MonthlySnapshots(f)[j].day)
       /\ AveragePerformance(f) # <<>> => AveragePerformance(f)[1].own = {100}
       /\ MetricsFor(f).draw \in {Nil} \cup 0 .. 100
       /\ \A n \in DOMAIN FundPerformance(f) :
            /\ FundPerformance(f)[n].profit = toDto(f).profit
            /\ FundPerformance(f)[n].tx # 0 => \E c \in {ftx[FundPerformance(f)[n].tx].client} :
                                                 FundPerformance(f)[n].tx \in Range(MyTransactions(c))
       /\ \A i, j \in DOMAIN EnrichedHoldings(f) :
            EnrichedHoldings(f)[i].ticker = EnrichedHoldings(f)[j].ticker => i = j
       /\ f \in Range(SupervisedBy(funds[f].mgr))
  /\ \A k \in DOMAIN fpos : FundPositions(k[2])[k] = (IF k[1] = BankInvestorID THEN BankPositions ELSE MyPositions(k[1]))[k]
  /\ \A field \in {"total", "ret"}, desc \in BOOLEAN :
       LET s == Discovery(field, desc) IN
       /\ Range(s) = FundId
       /\ \A i, j \in DOMAIN s : i < j /\ toDto(s[i])[field] = Nil => toDto(s[j])[field] = Nil

\* A completed subscription raises the position of the client who paid for
\* it (fund_subscribe.go: trading-service can "update ClientFundPosition").
Booked(c, f) ==
  FSum({i \in DOMAIN ftx : ftx[i].client = c /\ ftx[i].fund = f /\ ftx[i].inflow /\ ftx[i].st = "COMPLETED"},
       LAMBDA i : ftx[i].amt)
InvestorOwnsShare ==
  \A i \in DOMAIN ftx :
    LET k == <<ftx[i].client, ftx[i].fund>> IN
    (\A j \in DOMAIN ftx : ftx[j].inflow) =>
      (IF k \in DOMAIN fpos THEN fpos[k] ELSE 0)
        >= (IF k \in DOMAIN Positions0 THEN Positions0[k] ELSE 0) + Booked(k[1], k[2])
==========================================================================
