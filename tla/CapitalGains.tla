---------------------------- MODULE CapitalGains ----------------------------
(***************************************************************************)
(* Capital-gains tax of trading-service: the FIFO engine that matches sold  *)
(* shares with bought ones, the collection runs over the gains of a month   *)
(* and over exercised OTC contracts, the tax_charges ledger, and the debts, *)
(* tracking rows and portfolio figures derived from it.                     *)
(*                                                                         *)
(* A collection run is a process; each statement on the ledger and each     *)
(* remote call is a step.  Trades and exercised contracts happen as time    *)
(* passes: one stamped t is in the tables once the clock is beyond t.       *)
(***************************************************************************)
EXTENDS Integers, Sequences, FiniteSets, FiniteSetsExt, SequencesExt, TLC

CONSTANTS
  Trades,       \* transactions and their orders, by id: [user, listing, side, qty, price, at, acct]
  Listed,       \* [listing -> [type, cur]]
  Exercised,    \* contracts, by id: [seller, listing, amount, price, at, moved]
  Average0,     \* [<<user, listing>> -> average purchase price, 0 when there is no position]
  Customers, Actuaries, \* user ids, as user-service lists them
  NoRsdAccount, \* sellers without an RSD account
  RateNum, RateDen,     \* banka.tax.capital-gains-rate
  RsdPerUsd,       \* RSD for a dollar
  MonthLen, YearLen,    \* days of a month and of a year
  TaxScenarios  \* [reqs, now, last, avgs, may, budget]; last bounds the clock

VARIABLES
  genv,
  gdb,     \* [charges, avg, now, gov]
  gat,     \* where each collection run stands
  gghost,  \* history: every debit, in order
  gfaults

gvars == <<genv, gdb, gat, gghost, gfaults>>

TaxRuns == DOMAIN genv.reqs
TaxMay(F) == F \cap genv.may # {}
TaxFault(f) == f \in genv.may /\ gfaults < genv.budget /\ gfaults' = gfaults + 1
TaxNoFault == UNCHANGED gfaults
TSum(S, V(_)) == MapThenSumSet(V, S)
TradeIds == DOMAIN Trades
Position(i) == <<Trades[i].user, Trades[i].listing>>
--------------------------------------------------------------------------
(* The calendar and the amounts.                                            *)

firstOfMonthUTC(t) == MonthLen * (t \div MonthLen)
firstOfYearUTC(t) == YearLen * (t \div YearLen)
startOfTomorrow(t) == t + 1
inTaxWindow(t, start, end) == start <= t /\ t < end
TaxOf(gain) == (2 * gain * RateNum + RateDen) \div (2 * RateDen)  \* Round(2), half up
ToRsd(cur, amount) == IF cur = "RSD" THEN amount ELSE amount * RsdPerUsd
--------------------------------------------------------------------------
(* The FIFO engine.                                                         *)

\* A listing that market-service does not answer for counts as no stock.
isStockOrder(i, down) == Trades[i].listing \notin down /\ Listed[Trades[i].listing].type = "STOCK"

\* BETWEEN includes the end of the period, which the window then excludes.
loadRelevantSellTransactions(d, start, end, who, down) ==
  {i \in TradeIds : /\ Trades[i].at < d.now /\ Trades[i].side = "SELL"
                    /\ who \in {0, Trades[i].user}
                    /\ start <= Trades[i].at /\ Trades[i].at <= end
                    /\ isStockOrder(i, down)}

\* Every trade before the end in a position that was sold from.
loadHistoricalTransactions(d, start, end, sells, down) ==
  {i \in TradeIds : /\ Trades[i].at < Min({end, d.now})
                    /\ Position(i) \in {Position(s) : s \in sells} /\ isStockOrder(i, down)}

orderDirectionRank(i) == IF Trades[i].side = "BUY" THEN 0 ELSE 1
TradedBefore(i, j) ==
  \/ Trades[i].at < Trades[j].at
  \/ /\ Trades[i].at = Trades[j].at
     /\ \/ orderDirectionRank(i) < orderDirectionRank(j)
        \/ orderDirectionRank(i) = orderDirectionRank(j) /\ i < j
InOrder(H) == SortSeq(SelectSeq([i \in 1 .. Len(Trades) |-> i], LAMBDA i : i \in H), TradedBefore)

\* Sells i from the oldest lots; what no lot covers is taken at the average price.
allocateSellTaxLots(a, i, start, end, avg) ==
  LET t == Trades[i]
      charge(n, cost, buy, acct) ==
        IF n > 0 /\ inTaxWindow(t.at, start, end) /\ t.price > cost
        THEN <<[user |-> t.user, listing |-> t.listing, sell |-> i, buy |-> buy, otc |-> 0,
                acct |-> acct, amt |-> TaxOf((t.price - cost) * n), at |-> t.at, qty |-> n]>>
        ELSE <<>>
      old == a.lots[Position(i)]
      take[k \in 0 .. Len(old)] ==
        IF k = 0 THEN [left |-> t.qty, lots |-> <<>>, out |-> <<>>]
        ELSE LET s == take[k - 1]
                 n == Min({s.left, old[k].left}) IN
             [left |-> s.left - n,
              lots |-> IF old[k].left > n THEN Append(s.lots, [old[k] EXCEPT !.left = @ - n]) ELSE s.lots,
              out |-> s.out \o charge(n, old[k].price, old[k].buy, old[k].acct)]
      m == take[Len(old)] IN
  [lots |-> [a.lots EXCEPT ![Position(i)] = m.lots],
   out |-> a.out \o m.out \o IF avg > 0 THEN charge(m.left, avg, -1, t.acct) ELSE <<>>]

\* The trades in `lost` are sells whose position could not be read: they are skipped, and
\* the lots they would have used up stay.
buildTaxChargeEntries(d, start, end, who, down, lost) ==
  LET sells == loadRelevantSellTransactions(d, start, end, who, down)
      txs == InOrder(loadHistoricalTransactions(d, start, end, sells, down))
      fill[n \in 0 .. Len(txs)] ==
        IF n = 0 THEN [lots |-> [k \in {Position(i) : i \in TradeIds} |-> <<>>], out |-> <<>>]
        ELSE LET a == fill[n - 1]
                 i == txs[n]
                 t == Trades[i] IN
             CASE t.user = 0 \/ who \notin {0, t.user} \/ t.qty <= 0 \/ i \in lost -> a
               [] OTHER -> IF t.side = "BUY"
                           THEN [a EXCEPT !.lots[Position(i)] =
                                   Append(@, [buy |-> i, left |-> t.qty, price |-> t.price, acct |-> t.acct])]
                           ELSE allocateSellTaxLots(a, i, start, end, d.avg[Position(i)]) IN
  fill[Len(txs)].out
EntrySet(es) == {es[k] : k \in DOMAIN es}
--------------------------------------------------------------------------
(* tax_charges: one operator a statement.  A row is named by its trades.    *)

RowKey(c) == <<c.sell, c.buy, c.otc>>
ExistsBySellAndBuy(d, e) == \E c \in d.charges : <<c.sell, c.buy>> = <<e.sell, e.buy>>
ExistsByOtcContractID(d, k) == \E c \in d.charges : c.otc = k
\* The unique constraints on the pair of trades and on the contract.
InsertRow(d, e, rsd) == [d EXCEPT !.charges = @ \cup
  {[user |-> e.user, listing |-> e.listing, sell |-> e.sell, buy |-> e.buy, otc |-> e.otc,
    amt |-> e.amt, rsd |-> rsd, st |-> "RESERVED", charged |-> -1]}]
RowOf(d, e) == {c \in d.charges : RowKey(c) = RowKey(e)}
UpdateCharged(d, e, rsd) == [d EXCEPT !.charges =
  (@ \ RowOf(d, e)) \cup {[c EXCEPT !.st = "CHARGED", !.rsd = rsd, !.charged = d.now] : c \in RowOf(d, e)}]
MarkCharged(d, e) == [d EXCEPT !.charges =
  (@ \ RowOf(d, e)) \cup {[c EXCEPT !.st = "CHARGED", !.charged = d.now] : c \in RowOf(d, e)}]
DeleteRow(d, e) == [d EXCEPT !.charges = @ \ RowOf(d, e)]

\* Joins the contract, the completed transfer of its shares and the seller's position.
LoadExercisedOtcTaxEntries(d, end) ==
  LET K == {k \in DOMAIN Exercised : /\ Exercised[k].at < Min({end, d.now}) /\ Exercised[k].moved
                                     /\ d.avg[<<Exercised[k].seller, Exercised[k].listing>>] # 0} IN
  SelectSeq([k \in 1 .. Len(Exercised) |-> k], LAMBDA k : k \in K)
calculateOtcTax(d, k) ==
  LET c == Exercised[k]
      profit == (c.price - d.avg[<<c.seller, c.listing>>]) * c.amount IN
  IF profit <= 0 THEN 0 ELSE TaxOf(profit)
calculateOtcTaxInRsd(d, k) == ToRsd("USD", calculateOtcTax(d, k))
--------------------------------------------------------------------------
(* A collection run.                                                        *)

NoEntry == [user |-> 0, listing |-> "", sell |-> 0, buy |-> 0, otc |-> 0, acct |-> 0, amt |-> 0,
            at |-> 0, qty |-> 0]
Idle == [st |-> "idle", todo |-> <<>>, cur |-> NoEntry, debit |-> FALSE, rsd |-> 0, start |-> 0, end |-> 0]
GoTo(i, r) == gat' = [gat EXCEPT ![i] = r]
Ended(i, how) == GoTo(i, [gat[i] EXCEPT !.st = how, !.todo = <<>>])
PeriodOf(op, t) ==
  IF op = "previous" THEN <<firstOfMonthUTC(t) - MonthLen, firstOfMonthUTC(t)>>
  ELSE <<firstOfMonthUTC(t), startOfTomorrow(t)>>

\* CollectMonthlyTax (scheduled, manual, internal) and CollectCurrentMonthTax.
Collect(i) ==
  /\ gat[i].st = "idle"
  /\ LET p == PeriodOf(genv.reqs[i], gdb.now)
         begin(down, lost) == GoTo(i, [Idle EXCEPT !.st = "stock", !.start = p[1], !.end = p[2],
            !.todo = buildTaxChargeEntries(gdb, p[1], p[2], 0, down, lost)]) IN
     \/ TaxNoFault /\ begin({}, {})
     \/ TaxFault("market") /\ \E l \in DOMAIN Listed : begin({l}, {})
     \/ TaxFault("lookup") /\ \E s \in TradeIds : Trades[s].side = "SELL" /\ begin({}, {s})
     \/ TaxFault("db") /\ Ended(i, "error")
  /\ UNCHANGED <<genv, gdb, gghost>>

reserveTaxCharge(i) ==
  /\ gat[i].st = "stock" /\ gat[i].todo # <<>>
  /\ LET e == Head(gat[i].todo)
         r == [gat[i] EXCEPT !.todo = Tail(@), !.cur = e, !.debit = FALSE] IN
     \/ /\ TaxNoFault
        /\ IF ExistsBySellAndBuy(gdb, e)
           THEN GoTo(i, [gat[i] EXCEPT !.todo = Tail(@)]) /\ UNCHANGED gdb
           ELSE GoTo(i, [r EXCEPT !.st = "pay"]) /\ gdb' = InsertRow(gdb, e, -1)
     \/ TaxFault("db") /\ Ended(i, "error") /\ UNCHANGED gdb
  /\ UNCHANGED <<genv, gghost>>

\* The rows of the exercised contracts are taken once every stock entry is settled.
collectOtcTaxForPeriod(i) ==
  /\ gat[i].st = "stock" /\ gat[i].todo = <<>>
  /\ LET due == SelectSeq(LoadExercisedOtcTaxEntries(gdb, gat[i].end),
                          LAMBDA k : Exercised[k].at >= gat[i].start) IN
     \/ TaxNoFault /\ GoTo(i, [gat[i] EXCEPT !.st = "otc", !.todo = due])
     \/ TaxFault("db") /\ GoTo(i, [gat[i] EXCEPT !.st = "otc"])
     \/ TaxFault("refuse") /\ Ended(i, "error")
  /\ UNCHANGED <<genv, gdb, gghost>>

OtcEntry(d, k) ==
  [user |-> Exercised[k].seller, listing |-> Exercised[k].listing, sell |-> k, buy |-> k, otc |-> k,
   acct |-> 0, amt |-> calculateOtcTaxInRsd(d, k), at |-> Exercised[k].at, qty |-> Exercised[k].amount]
reserveOtcCharge(i) ==
  /\ gat[i].st = "otc" /\ gat[i].todo # <<>>
  /\ LET k == Head(gat[i].todo)
         e == OtcEntry(gdb, k)
         r == [gat[i] EXCEPT !.todo = Tail(@)] IN
     \/ /\ TaxNoFault
        /\ IF ExistsByOtcContractID(gdb, k) \/ e.amt <= 0 \/ e.user \in NoRsdAccount
           THEN GoTo(i, r) /\ UNCHANGED gdb
           ELSE /\ GoTo(i, [r EXCEPT !.st = "pay", !.cur = e, !.debit = FALSE])
                /\ gdb' = InsertRow(gdb, e, e.amt)
     \/ TaxFault("db") /\ Ended(i, "error") /\ UNCHANGED gdb
     \/ /\ TaxFault("fx") /\ ~ExistsByOtcContractID(gdb, k) /\ calculateOtcTax(gdb, k) > 0
        /\ Ended(i, "error") /\ UNCHANGED gdb
  /\ UNCHANGED <<genv, gghost>>
OtcDone(i) ==
  gat[i].st = "otc" /\ gat[i].todo = <<>> /\ TaxNoFault /\ Ended(i, "done") /\ UNCHANGED <<genv, gdb, gghost>>

\* The debit at banking-core: the amount in RSD, or unconverted when the rates fail.
Debited(i, rsd) ==
  /\ gdb' = [gdb EXCEPT !.gov = @ + rsd]
  /\ gghost' = Append(gghost, [key |-> RowKey(gat[i].cur), qty |-> gat[i].cur.qty, rsd |-> rsd])
ChargeEntry(i) ==
  /\ gat[i].st = "pay"
  /\ LET e == gat[i].cur
         rsd == IF e.otc # 0 THEN e.amt ELSE ToRsd(Listed[e.listing].cur, e.amt)
         paid(x) == GoTo(i, [gat[i] EXCEPT !.st = "settle", !.debit = TRUE, !.rsd = x]) /\ Debited(i, x) IN
     \/ TaxNoFault /\ paid(rsd)
     \/ e.otc = 0 /\ TaxFault("fx") /\ paid(e.amt)
     \/ /\ TaxFault("refuse") /\ GoTo(i, [gat[i] EXCEPT !.st = "failed"])
        /\ UNCHANGED <<gdb, gghost>>
     \/ TaxFault("lost") /\ GoTo(i, [gat[i] EXCEPT !.st = "failed"]) /\ Debited(i, rsd)
  /\ UNCHANGED genv

NextEntry(i) == GoTo(i, [gat[i] EXCEPT !.st = IF gat[i].cur.otc = 0 THEN "stock" ELSE "otc"])
\* The notification that follows is best effort and changes nothing here.
SettleCharge(i) ==
  /\ gat[i].st = "settle"
  /\ LET e == gat[i].cur IN
     \/ /\ TaxNoFault /\ NextEntry(i)
        /\ gdb' = IF e.otc = 0 THEN UpdateCharged(gdb, e, gat[i].rsd) ELSE MarkCharged(gdb, e)
     \/ TaxFault("update") /\ GoTo(i, [gat[i] EXCEPT !.st = "failed"]) /\ UNCHANGED gdb
  /\ UNCHANGED <<genv, gghost>>

\* A mutant: the row goes whether or not the money was taken.
FailureForgotten(d, e, debit) == DeleteRow(d, e)
AfterFailure(d, e, debit) == IF debit THEN MarkCharged(d, e) ELSE DeleteRow(d, e)
handleFailedChargeAttempt(i) ==
  /\ gat[i].st = "failed" /\ NextEntry(i)
  /\ \/ TaxNoFault /\ gdb' = AfterFailure(gdb, gat[i].cur, gat[i].debit)
     \/ TaxFault("update") /\ UNCHANGED gdb
  /\ UNCHANGED <<genv, gghost>>

\* The process dies and takes every run with it.
TaxCrash ==
  /\ \E i \in TaxRuns : gat[i].st \notin {"idle", "done", "error", "dead"}
  /\ TaxFault("crash")
  /\ gat' = [i \in TaxRuns |-> IF gat[i].st \in {"idle", "done", "error"} THEN gat[i]
                               ELSE [Idle EXCEPT !.st = "dead"]]
  /\ UNCHANGED <<genv, gdb, gghost>>
TaxTick ==
  /\ gdb.now < genv.last /\ gdb' = [gdb EXCEPT !.now = @ + 1] /\ UNCHANGED <<genv, gat, gghost, gfaults>>
\* Purchases and complete sales rewrite a position's average price, or delete the position.
PositionMoves ==
  /\ \E k \in DOMAIN gdb.avg, v \in genv.avgs : v # gdb.avg[k] /\ gdb' = [gdb EXCEPT !.avg[k] = v]
  /\ TaxFault("avg") /\ UNCHANGED <<genv, gat, gghost>>

TaxInit ==
  /\ genv \in TaxScenarios
  /\ gdb = [charges |-> {}, avg |-> Average0, now |-> genv.now, gov |-> 0]
  /\ gat = [i \in TaxRuns |-> Idle]
  /\ gghost = <<>> /\ gfaults = 0
TaxNext ==
  \/ \E i \in TaxRuns :
       \/ Collect(i) \/ reserveTaxCharge(i) \/ collectOtcTaxForPeriod(i) \/ reserveOtcCharge(i)
       \/ OtcDone(i) \/ ChargeEntry(i) \/ SettleCharge(i) \/ handleFailedChargeAttempt(i)
  \/ TaxCrash \/ TaxTick \/ PositionMoves
TaxSpec == TaxInit /\ [][TaxNext]_gvars
--------------------------------------------------------------------------
(* The figures that are shown.                                              *)

SumTax(es) == TSum(DOMAIN es, LAMBDA k : es[k].amt)
\* Unconverted and without OTC contracts, ordered by user.
GetUserDebt(d, u) == SumTax(buildTaxChargeEntries(d, 0, d.now, u, {}, {}))
GetAllDebts(d) ==
  LET es == buildTaxChargeEntries(d, 0, d.now, 0, {}, {}) IN
  {[user |-> u, debt |-> SumTax(SelectSeq(es, LAMBDA e : e.user = u))] : u \in {es[k].user : k \in DOMAIN es}}
\* A page outside the rows is empty; a size that is not positive asks for all of them.
paginate(all, page, size) ==
  LET start == page * size
      end == IF size <= 0 THEN Len(all) ELSE Min({Len(all), start + size}) IN
  IF start < 0 \/ start >= Len(all) THEN <<>> ELSE SubSeq(all, start + 1, end)

resolveChargeAmountRsd(c) == IF c.rsd # -1 THEN c.rsd ELSE c.amt
CurrentYearPaidTax(d, u) ==
  TSum({c \in d.charges : /\ c.user = u /\ c.st = "CHARGED"
                          /\ firstOfYearUTC(d.now) <= c.charged /\ c.charged < startOfTomorrow(d.now)},
       resolveChargeAmountRsd)
EntryRsd(e) == ToRsd(Listed[e.listing].cur, e.amt)
ChargedKeys(d) == {<<c.sell, c.buy>> : c \in {x \in d.charges : x.st = "CHARGED"}}
ChargedContracts(d) == {c.otc : c \in {x \in d.charges : x.st = "CHARGED"}} \ {0}
DueContracts(d, start, end) ==
  {k \in EntrySet(LoadExercisedOtcTaxEntries(d, end)) : Exercised[k].at >= start}
\* calculateUnchargedTaxForRangeInRsd over the current month.
CurrentMonthUnpaidTax(d, u) ==
  LET start == firstOfMonthUTC(d.now)
      end == startOfTomorrow(d.now) IN
  TSum({e \in EntrySet(buildTaxChargeEntries(d, start, end, u, {}, {})) :
           <<e.sell, e.buy>> \notin ChargedKeys(d)}, EntryRsd)
  + TSum({k \in DueContracts(d, start, end) : Exercised[k].seller = u /\ k \notin ChargedContracts(d)},
         LAMBDA k : calculateOtcTaxInRsd(d, k))

AllEntries(d) == EntrySet(buildTaxChargeEntries(d, 0, startOfTomorrow(d.now), 0, {}, {}))
\* es: the entries of the whole history.
calculateTrackingMetrics(d, es, u) ==
  LET month == firstOfMonthUTC(d.now)
      rsd(k) == calculateOtcTaxInRsd(d, k)
      mine == {e \in es : e.user = u}
      ks == {k \in DueContracts(d, 0, startOfTomorrow(d.now)) : Exercised[k].seller = u /\ rsd(k) > 0} IN
  [debt  |-> TSum({e \in mine : <<e.sell, e.buy>> \notin ChargedKeys(d)}, EntryRsd)
             + TSum(ks \ ChargedContracts(d), rsd),
   month |-> TSum({e \in mine : e.at >= month}, EntryRsd) + TSum({k \in ks : Exercised[k].at >= month}, rsd),
   paid  |-> TSum({c \in d.charges : c.user = u /\ c.st = "CHARGED"}, resolveChargeAmountRsd)]
\* The code's remaining case, FAILED, needs a charge with that status, which nothing writes.
TrackingStatus(m) ==
  CASE m.debt > 0 /\ m.paid > 0 -> "PARTIALLY_PAID"
    [] m.debt > 0 /\ m.paid <= 0 -> "PENDING"
    [] m.debt <= 0 /\ m.paid > 0 -> "PAID"
    [] OTHER -> "ACTIVE"
TrackingRow(d, es, type, u) ==
  LET m == calculateTrackingMetrics(d, es, u) IN [user |-> u, type |-> type, m |-> m, status |-> TrackingStatus(m)]
loadClientTrackingRows(d, es) == [k \in DOMAIN Customers |-> TrackingRow(d, es, "CLIENT", Customers[k])]
loadActuaryTrackingRows(d, es) == [k \in DOMAIN Actuaries |-> TrackingRow(d, es, "ACTUARY", Actuaries[k])]
GetTaxTracking(d, es, type) ==
  (IF type \in {"", "CLIENT"} THEN loadClientTrackingRows(d, es) ELSE <<>>)
  \o (IF type \in {"", "ACTUARY"} THEN loadActuaryTrackingRows(d, es) ELSE <<>>)
--------------------------------------------------------------------------
\* Types of the charges, the clock and the runs.
TaxTypeOK ==
  /\ gdb.charges \subseteq [user : Nat, listing : DOMAIN Listed, sell : Nat, buy : Int, otc : Nat,
                            amt : Nat, rsd : Int, st : {"RESERVED", "CHARGED"}, charged : Int]
  /\ gdb.now \in 0 .. genv.last /\ gdb.gov \in Nat
  /\ \A i \in TaxRuns : gat[i].st \in
       {"idle", "stock", "pay", "settle", "failed", "otc", "done", "error", "dead"}

InFlight == {i \in TaxRuns : gat[i].st = "settle" \/ (gat[i].st = "failed" /\ gat[i].debit)}
DebitsOf(p(_)) == {n \in DOMAIN gghost : p(gghost[n].key)}

(***************************************************************************)
(* TaxBooks: overlapping and repeated collections, restarts and failures    *)
(* included, a pair of trades or a contract is charged at most once, no     *)
(* share is taxed twice on either side of a trade, a CHARGED row was really *)
(* debited, and the government holds exactly what the ledger records.       *)
(***************************************************************************)
TaxBooks ==
  /\ ~TaxMay({"lost"}) => \A m, n \in DOMAIN gghost : gghost[m].key = gghost[n].key => m = n
  /\ ~TaxMay({"lost", "lookup", "avg"}) =>
       \A i \in TradeIds :
          TSum(DebitsOf(LAMBDA k : k[3] = 0 /\ i \in {k[1], k[2]}), LAMBDA n : gghost[n].qty) <= Trades[i].qty
  /\ \A c \in gdb.charges : c.st = "CHARGED" => \E n \in DOMAIN gghost : gghost[n].key = RowKey(c)
  /\ ~TaxMay({"lost", "update", "crash"}) =>
       gdb.gov = TSum({c \in gdb.charges : c.st = "CHARGED"}, resolveChargeAmountRsd)
                 + TSum(InFlight, LAMBDA i : gat[i].rsd)

\* The shares of sell s that FIFO takes from buy b, when every sell of the position was
\* covered: the overlap of the two stretches of the position's history.
Earlier(i) == {j \in TradeIds : Position(j) = Position(i) /\ Trades[j].side = Trades[i].side /\ TradedBefore(j, i)}
From(i) == TSum(Earlier(i), LAMBDA j : Trades[j].qty)
Covered == {k \in {Position(i) : i \in TradeIds} :
  \A s \in TradeIds : Position(s) = k /\ Trades[s].side = "SELL" =>
    From(s) + Trades[s].qty <=
      TSum({b \in TradeIds : Position(b) = k /\ Trades[b].side = "BUY" /\ TradedBefore(b, s)},
           LAMBDA b : Trades[b].qty)}
Overlap == [s \in TradeIds, b \in TradeIds |->
  Max({0, Min({From(s) + Trades[s].qty, From(b) + Trades[b].qty}) - Max({From(s), From(b)})})]

(***************************************************************************)
(* TaxViews: what a run of any period charges is what the whole history     *)
(* still says is due, the engine matches shares first in first out, a user's*)
(* debt and paid tax add up to all of the tax due, and the debt list, the   *)
(* portfolio's figures and the tracking rows agree.                         *)
(***************************************************************************)
TaxViews ==
  \A es \in {AllEntries(gdb)}, debts \in {GetAllDebts(gdb)} :
  /\ ~TaxMay({"lookup", "avg"}) => \A c \in gdb.charges : c.otc = 0 =>
       \E e \in es : RowKey(e) = RowKey(c) /\ e.amt = c.amt
  /\ \A e \in es : e.buy > 0 /\ Position(e.sell) \in Covered => e.qty = Overlap[e.sell, e.buy]
  /\ \A all \in {GetTaxTracking(gdb, es, "")} :
       /\ paginate(all, 0, 2) \o paginate(all, 1, 2) = all
       /\ paginate(all, 0, 0) = all /\ paginate(all, 2, 2) = <<>>
       /\ \A row \in EntrySet(all) :
            LET u == row.user
                unpaid == CurrentMonthUnpaidTax(gdb, u)
                due == TSum({e \in es : e.user = u}, EntryRsd)
                       + TSum({c \in DueContracts(gdb, 0, startOfTomorrow(gdb.now)) : Exercised[c].seller = u},
                              LAMBDA c : calculateOtcTaxInRsd(gdb, c)) IN
            /\ ~TaxMay({"lookup", "avg", "fx", "update"}) => row.m.debt + row.m.paid = due
            /\ unpaid <= row.m.debt /\ (row.status = "PAID" => unpaid = 0)
            /\ CurrentYearPaidTax(gdb, u) <= row.m.paid
            /\ \A x \in {GetUserDebt(gdb, u)} : IF x = 0 THEN \A t \in debts : t.user # u \/ t.debt = 0
                                                 ELSE [user |-> u, debt |-> x] \in debts
==============================================================================
