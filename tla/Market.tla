------------------------------- MODULE Market -------------------------------
(***************************************************************************)
(* The market service: exchanges, listings and their daily prices, price    *)
(* alerts, watch lists, the price feed and the exchange rates               *)
(* (market-service-go/internal).                                            *)
(*                                                                         *)
(* The ticker that refreshes the open listings, the goroutine of a bulk     *)
(* refresh, the rate fetch of the cron and of an administrator, and HTTP    *)
(* requests run side by side; each statement on the database is a step.     *)
(* The data providers, the broker, the time series store and the cache are  *)
(* external and may fail.                                                   *)
(***************************************************************************)
EXTENDS Integers, Sequences, FiniteSets, TLC

CONSTANTS
  Exchanges0, Listings0, Options0, Stocks0, \* the seeded catalogue
  Rates0,          \* stored exchange rates: day -> currency -> rate
  Csv,             \* the exchange file: [headers, rows]
  Provider,        \* what the data providers answer, one state after another
  Currency, Today, DailyWindow, \* days a bulk refresh keeps (30 in the code)
  Margin, Commission, PriceFeedTTL,
  MarketScenarios  \* [reqs, hour, workday, feeds, may, budget]

VARIABLES
  menv,
  db,      \* [xch, lst, pair, stock, hist, rate, alerts, wl, items]
  net,     \* [feed, clock, influx, redis, local]: outside the database
  mat,     \* where each request or job stands
  mghost,  \* history: publications, armings, conversions, overlaps, losses
  mfaults

mvars == <<menv, db, net, mat, mghost, mfaults>>

Scale == 100  \* one RSD in the units of the stored rates
NoSnap == [price |-> 0, ask |-> 0, bid |-> 0, change |-> 0, vol |-> 0]
NoRate == [buy |-> 0, sell |-> 0, src |-> 0]
NoTime == -1
BadTime == -2
Day == 1 .. Today
Listing == DOMAIN Listings0
Req == menv.reqs
MMay(f) == f \in menv.may
MFail(f) == MMay(f) /\ mfaults < menv.budget /\ mfaults' = mfaults + 1
MNoFail == UNCHANGED mfaults
Picked(s, P(_)) == SelectSeq([i \in 1 .. Len(s) |-> i], P)
DivRound(a, b) == IF a >= 0 THEN (2 * a + b) \div (2 * b) ELSE -((b - 2 * a) \div (2 * b))
--------------------------------------------------------------------------
(* Repository: one operator per statement, on the tables d. *)

GetStockExchangeByMIC(d, mic) == {x \in DOMAIN d.xch : d.xch[x].mic = mic}
InsertStockExchange(d, e) == [d EXCEPT !.xch = Append(@, e)]
UpdateStockExchange(d, x, e) == [d EXCEPT !.xch[x] = e]
GetStockExchange(d, x) == d.xch[x]
ListAllListings(d) == [i \in 1 .. Len(d.lst) |-> i]
listingsByType(d, type) == LET Is(l) == d.lst[l].type = type IN Picked(d.lst, Is)
ListStockListings(d) == listingsByType(d, "STOCK")
GetListing(d, l) == d.lst[l]
ListingExists(d, l) == l \in DOMAIN d.lst
UpdateListingSnapshot(d, l, s) == [d EXCEPT !.lst[l].snap = s]
UpsertDailySnapshot(d, l, day, s) == [d EXCEPT !.hist[l][day] = s]
GetListingHistory(d, l, from) ==
  LET In(day) == day >= from /\ d.hist[l][day] # NoSnap
  IN  SelectSeq([day \in Day |-> day], In)
UpdateForexPairRate(d, l, rate) == [d EXCEPT !.pair[l] = rate]
GetStockByTicker(d, l) == d.stock[l]
UpdateStockFundamentals(d, l, shares, yield) == [d EXCEPT !.stock[l] = [shares |-> shares, yield |-> yield]]
ListOptionsForStock(l) == LET Of(o) == Options0[o].stock = l IN Picked(Options0, Of)
ListDividendData(d) == {[l |-> l, price |-> d.lst[l].snap.price, yield |-> d.stock[l].yield] :
                          l \in {k \in DOMAIN d.lst : d.lst[k].type = "STOCK"}}

\* Alerts keep their row number; a deleted row only answers nothing.
InsertPriceAlert(d, a) == [d EXCEPT !.alerts = Append(@, a)]
OwnedAlert(d, user, a) == a \in DOMAIN d.alerts /\ d.alerts[a].user = user /\ ~d.alerts[a].gone
ToggleOwnedPriceAlert(d, a) == [d EXCEPT !.alerts[a].active = ~@]
DeleteOwnedPriceAlert(d, a) == [d EXCEPT !.alerts[a].gone = TRUE]
ListActivePriceAlerts(d) ==
  LET Live(a) == d.alerts[a].active /\ ~d.alerts[a].gone IN Picked(d.alerts, Live)
\* A mutant: the alert is switched off but the time of its firing is not kept.
SwitchedOffOnly(d, a, fired) == [d EXCEPT !.alerts[a].active = IF fired THEN FALSE ELSE @]
SetPriceAlertLastTriggered(d, a, fired) ==
  [d EXCEPT !.alerts[a].last = fired, !.alerts[a].active = IF fired THEN FALSE ELSE @]

InsertWatchlist(d, user) == [d EXCEPT !.wl = Append(@, [user |-> user, gone |-> FALSE])]
OwnedWatchlistExists(d, user, w) == w \in DOMAIN d.wl /\ d.wl[w].user = user /\ ~d.wl[w].gone
DeleteOwnedWatchlist(d, w) ==
  [d EXCEPT !.items = {k \in @ : k.w # w}, !.wl[w].gone = TRUE]
CreateWatchlistItem(d, w, l) == [d EXCEPT !.items = @ \cup {[w |-> w, l |-> l]}]
DeleteOwnedWatchlistItem(d, w, l) == [d EXCEPT !.items = @ \ {[w |-> w, l |-> l]}]
WatchlistItemsOf(d, w) == {k \in d.items : k.w = w}
ListWatchlistsByUser(d, user) ==
  {<<w, Cardinality(WatchlistItemsOf(d, w))>> : w \in {v \in DOMAIN d.wl : OwnedWatchlistExists(d, user, v)}}
\* Violated: the pair exists already, or the list is gone.
IsUniqueViolation(d, w, l) == [w |-> w, l |-> l] \in d.items
ForeignKeyBroken(d, w) == d.wl[w].gone

GetRatesByDate(d, day) == {c \in Currency : d.rate[day][c] # NoRate}
GetRatesByRange(d, c, from, to) == {day \in Day : from <= day /\ day <= to /\ d.rate[day][c] # NoRate}
LatestDate(d) ==
  LET days == {day \in Day : GetRatesByDate(d, day) # {}}
  IN  IF days = {} THEN 0 ELSE CHOOSE a \in days : \A b \in days : b <= a
ReplaceSnapshot(d, day, rates) == [d EXCEPT !.rate[day] = rates]
--------------------------------------------------------------------------
(* Exchanges: trading windows, status, import of the file. *)

\* An hour h in [from, to), over midnight when to is before from.
isWithinWindow(h, from, to) ==
  /\ from # NoTime /\ to # NoTime /\ from # to
  /\ IF to > from THEN h >= from /\ h < to ELSE h >= from \/ h < to

resolveMarketPhase(h, x, workday) ==
  CASE ~workday -> "CLOSED"
    [] workday /\ isWithinWindow(h, x.preOpen, x.preClose) -> "PRE_MARKET"
    [] workday /\ ~isWithinWindow(h, x.preOpen, x.preClose) /\ isWithinWindow(h, x.open, x.close) -> "REGULAR_MARKET"
    [] workday /\ ~isWithinWindow(h, x.preOpen, x.preClose) /\ ~isWithinWindow(h, x.open, x.close)
         /\ isWithinWindow(h, x.postOpen, x.postClose) -> "POST_MARKET"
    [] OTHER -> "CLOSED"

\* An exchange that is switched off counts as open: the bypass of test mode.
GetExchangeStatus(d, x, h, workday) ==
  LET e == GetStockExchange(d, x)
      phase == IF e.active THEN resolveMarketPhase(h, e, workday) ELSE "REGULAR_MARKET"
  IN  [open |-> ~e.active \/ phase # "CLOSED", phase |-> phase]
GetStockExchangeStatus(d, x, h, workday) ==
  LET st == GetExchangeStatus(d, x, h, workday)
  IN  [open |-> st.open, after |-> st.phase = "POST_MARKET", closed |-> ~st.open /\ st.phase # "POST_MARKET"]

supportedImportCurrencies == Currency \cup {"RSD"}
importCurrencyAliases == [dollar |-> "USD", euro |-> "EUR", dinar |-> "RSD"]
normalizeImportCurrency(c) ==
  IF c \in supportedImportCurrencies \/ c \notin DOMAIN importCurrencyAliases THEN c
  ELSE importCurrencyAliases[c]
requiredCSVValue(row, col) == row[col] # ""
normalizeCSVTime(t) == t # BadTime
parseRequiredCSVTime(row, col) == row[col] # NoTime /\ normalizeCSVTime(row[col])
parseOptionalCSVTime(row, col) == row[col] = NoTime \/ normalizeCSVTime(row[col])
mapCSVRow(row) ==
  /\ \A col \in {"mic", "cur"} : requiredCSVValue(row, col)
  /\ \A col \in {"open", "close"} : parseRequiredCSVTime(row, col)
  /\ \A col \in {"preOpen", "preClose", "postOpen", "postClose"} : parseOptionalCSVTime(row, col)
isBlankRecord(row) == row.mic = "" /\ row.cur = "" /\ row.open = NoTime /\ row.close = NoTime
\* The whole file is read before anything is written: one bad row refuses it.
parseStockExchangeCSV(file) ==
  LET rows == SelectSeq(file.rows, LAMBDA r : ~isBlankRecord(r))
      distinct == \A i, j \in DOMAIN rows : rows[i].mic = rows[j].mic => i = j
  IN  IF {"mic", "cur", "open", "close"} \subseteq file.headers
         /\ (\A i \in DOMAIN rows : mapCSVRow(rows[i])) /\ distinct
      THEN rows ELSE <<>>
buildImportedExchange(row) ==
  LET c == normalizeImportCurrency(row.cur)
  IN  [row EXCEPT !.cur = c, !.active = @ /\ c \in supportedImportCurrencies]
stockExchangeEquals(a, b) == a = b
--------------------------------------------------------------------------
(* Listings: what is shown and what a refresh writes. *)

\* <<percent with four decimals, known>>: unknown when the price was nothing.
calculateChangePercent(s) ==
  LET prev == s.price - s.change
  IN  IF prev = 0 THEN <<0, FALSE>> ELSE <<DivRound(s.change * 1000000, prev), TRUE>>
calculateDollarVolume(s) == s.price * s.vol
\* In thousandths of the price unit.
calculateInitialMargin(type, price, size) ==
  CASE type = "FUTURES" -> size * price * 110
    [] type = "FOREX" -> 1000 * price * 110
    [] OTHER -> price * 550
MaintenanceMargin(type, price, size) == (calculateInitialMargin(type, price, size) * 10) \div 11
periodStart(period) ==
  CASE period = "ALL" -> 1 [] period = "WEEK" -> IF Today > 7 THEN Today - 7 ELSE 1 [] OTHER -> Today - 1

InTheMoney(o, price) == IF Options0[o].type = "CALL" THEN price > Options0[o].strike ELSE price < Options0[o].strike
\* Groups by settlement day, in the order the days first appear.
groupOptions(opts, price) ==
  LET days == {Options0[opts[i]].day : i \in DOMAIN opts}
      Of(day, type) == SelectSeq(opts, LAMBDA o : Options0[o].day = day /\ Options0[o].type = type)
  IN  {[day |-> day, calls |-> Of(day, "CALL"), puts |-> Of(day, "PUT"),
        inMoney |-> {o \in DOMAIN Options0 : Options0[o].day = day /\ InTheMoney(o, price)}] : day \in days}

\* The time series answers first; an error or an empty answer falls back.
FindDailySnapshots(l, from) ==
  LET In(day) == day >= from /\ net.influx[l][day] # NoSnap IN SelectSeq([day \in Day |-> day], In)
getListingHistory(l, from) ==
  IF FindDailySnapshots(l, from) # <<>> THEN FindDailySnapshots(l, from) ELSE GetListingHistory(db, l, from)
GetListingDetailsRow(d, l) == [type |-> d.lst[l].type, snap |-> d.lst[l].snap, size |-> d.lst[l].size]
GetListingDetails(l, period) ==
  LET row == GetListingDetailsRow(db, l)
  IN  [history |-> getListingHistory(l, periodStart(period)),
       change |-> calculateChangePercent(row.snap), dollars |-> calculateDollarVolume(row.snap),
       maintenance |-> MaintenanceMargin(row.type, row.snap.price, row.size),
       initial |-> (MaintenanceMargin(row.type, row.snap.price, row.size) * 11) \div 10,
       groups |-> IF row.type = "STOCK" THEN groupOptions(ListOptionsForStock(l), row.snap.price) ELSE {}]

normalizeSortBy == {"ticker", "price", "vol", "maintenanceMargin"}
normalizeSortDirection == {"asc", "desc"}
\* The column a page is sorted by - maintenanceMargin is accepted and then sorts by ticker,
\* ascending - in one of the orders that agree with it: rows that tie come as they come.
Sorted(d, a, b, sortBy, dir) ==
  LET x == IF sortBy \in {"price", "vol"} THEN d.lst[a].snap[sortBy] ELSE a
      y == IF sortBy \in {"price", "vol"} THEN d.lst[b].snap[sortBy] ELSE b
  IN  IF sortBy # "maintenanceMargin" /\ dir = "desc" THEN x >= y ELSE x <= y
Orders(d, S, sortBy, dir) ==
  {s \in [1 .. Cardinality(S) -> S] :
     \A i, j \in DOMAIN s : i < j => s[i] # s[j] /\ Sorted(d, s[i], s[j], sortBy, dir)}
\* The answers a page may give; a listing passes the bounds that were given.
ListListingsByType(d, type, f, page, size, sortBy, dir) ==
  LET match == {l \in DOMAIN d.lst : /\ d.lst[l].type = type
                                     /\ \A k \in DOMAIN f.min : d.lst[l].snap[k] >= f.min[k]
                                     /\ \A k \in DOMAIN f.max : d.lst[l].snap[k] <= f.max[k]}
      n == Cardinality(match)
      last == IF page * size + size < n THEN page * size + size ELSE n
  IN  {[rows |-> SubSeq(all, page * size + 1, last), total |-> n] : all \in Orders(d, match, sortBy, dir)}
pageCount(total, size) == IF size <= 0 THEN 0 ELSE (total \div size) + IF total % size # 0 THEN 1 ELSE 0
ListListings(d, type, f, page, size, sortBy, dir) ==
  {[content |-> r.rows, total |-> r.total, pages |-> pageCount(r.total, size),
    first |-> page = 0, last |-> (page + 1) * size >= r.total] :
      r \in ListListingsByType(d, type, f, page, size, sortBy, dir)}
listListingsByType(q) == q.page >= 0 /\ q.size > 0 /\ q.sortBy \in normalizeSortBy /\ q.dir \in normalizeSortDirection

\* A client does not see the details of a currency pair.
hasAnyRole(role) ==
  CASE role = "ADMIN" -> {"ADMIN", "SUPERVISOR", "AGENT", "BASIC"}
    [] role = "SUPERVISOR" -> {"SUPERVISOR", "AGENT", "BASIC"}
    [] role = "AGENT" -> {"AGENT", "BASIC"}
    [] role = "CLIENT_TRADING" -> {"CLIENT_TRADING", "CLIENT_BASIC"}
    [] OTHER -> {role}
ListingSubroutes(role, l) ==
  \/ db.lst[l].type # "FOREX" \/ "CLIENT_BASIC" \notin hasAnyRole(role)
  \/ hasAnyRole(role) \cap {"BASIC", "AGENT", "SUPERVISOR", "ADMIN", "SERVICE"} # {}
--------------------------------------------------------------------------
(* Requests and jobs.  A record m says where one stands and what it holds. *)

Idle == [pc |-> "new", l |-> 0, snap |-> NoSnap, todo |-> <<>>, back |-> "done", days |-> <<>>,
         al |-> <<>>, day |-> 0, rates |-> <<>>, open |-> {}, shut |-> {}, row |-> 0]
Done(ans) == [Idle EXCEPT !.pc = "done", !.back = ans]
At(i, pc) == mat[i].pc = pc
Op(i) == Req[i].op
To(i, m) == mat' = [mat EXCEPT ![i] = m]
Stay == UNCHANGED <<menv, net, db>>
Ask(i, op) == At(i, "new") /\ Op(i) = op
DbStep(i, d, m) == db' = d /\ To(i, m) /\ UNCHANGED <<menv, net>>
ReadOnly(i, m) == To(i, m) /\ UNCHANGED <<menv, net, db, mghost, mfaults>>

NoDays == [day \in Day |-> NoSnap]
MarketInit ==
  /\ menv \in MarketScenarios
  /\ db = [xch |-> Exchanges0, lst |-> Listings0, pair |-> [l \in Listing |-> Listings0[l].snap.price],
           stock |-> Stocks0, hist |-> [l \in Listing |-> NoDays], rate |-> Rates0,
           alerts |-> <<>>, wl |-> <<>>, items |-> {}]
  /\ net = [feed |-> 1, clock |-> 0, influx |-> [l \in Listing |-> NoDays],
            redis |-> [l \in Listing |-> <<0, NoTime>>], local |-> [l \in Listing |-> <<0, NoTime>>]]
  /\ mat = [i \in DOMAIN menv.reqs |-> Idle]
  /\ mghost = [pub |-> <<>>, arms |-> <<>>, conv |-> {}, age |-> 0, best |-> [d \in Day |-> [c \in Currency |-> 0]], evals |-> FALSE,
               fetches |-> FALSE, refreshes |-> {}, torn |-> {}, lost |-> {}, stale |-> {}]
  /\ mfaults = 0

\* The provider publishes its next state; time passes for the caches.
ProviderMoves ==
  /\ net.feed < menv.feeds /\ net' = [net EXCEPT !.feed = @ + 1]
  /\ UNCHANGED <<menv, db, mat, mghost, mfaults>>
Tick ==
  /\ MMay("tick") /\ net.clock < 2 * PriceFeedTTL /\ net' = [net EXCEPT !.clock = @ + 1]
  /\ UNCHANGED <<menv, db, mat, mghost, mfaults>>

\* The clients of the providers: an answer, or nothing (NFail is theirs).
FetchQuote(l) == Provider[net.feed].quote[l]
FetchForexRate(l) == Provider[net.feed].quote[l].price
FetchDaily(l) == Provider[net.feed].daily[l]
FetchCompanyOverview(l) == Provider[net.feed].overview[l]
QuoteSnap(q) == [price |-> q.price, ask |-> q.price, bid |-> q.price, change |-> q.change, vol |-> q.vol]

\* The ticker starts over all listings, the bulk refresh over the stocks.
RefreshOpenListings(i) ==
  /\ Ask(i, "refreshOpen")
  /\ ReadOnly(i, [Idle EXCEPT !.pc = "next", !.back = "next", !.todo = ListAllListings(db)])
RefreshAllStocks(i) ==
  /\ Ask(i, "refreshAll")
  /\ ReadOnly(i, [Idle EXCEPT !.pc = "next", !.back = "next", !.todo = ListStockListings(db)])
InternalListingSubroutes(i) ==
  /\ Ask(i, "refreshListing")
  /\ ReadOnly(i, IF ListingExists(db, Req[i].l) THEN [Idle EXCEPT !.pc = "load", !.l = Req[i].l] ELSE Done("400"))
StockAdminSubroutes(i) ==
  /\ Ask(i, "refreshStock")
  /\ ReadOnly(i, IF db.lst[Req[i].l].type = "STOCK" THEN [Idle EXCEPT !.pc = "stock", !.l = Req[i].l] ELSE Done("400"))

\* Next of the job's listings: closed exchanges and futures are passed over;
\* an exchange's status is asked once per round.
NextListing(i) ==
  LET m == mat[i] l == Head(m.todo) e == db.lst[l]
      known == e.x \in m.open \cup m.shut
      open == IF known THEN e.x \in m.open ELSE GetExchangeStatus(db, e.x, menv.hour, menv.workday).open
      memo == IF e.type = "FOREX" \/ known THEN m
              ELSE IF open THEN [m EXCEPT !.open = @ \cup {e.x}] ELSE [m EXCEPT !.shut = @ \cup {e.x}]
      go == IF e.type = "FOREX" THEN menv.workday ELSE open /\ e.type # "FUTURES"
      pass == [memo EXCEPT !.todo = Tail(@)]
  IN  /\ At(i, "next")
      /\ ReadOnly(i, IF m.todo = <<>> THEN [m EXCEPT !.pc = "alerts"]
                     ELSE IF Op(i) = "refreshAll" THEN [m EXCEPT !.todo = Tail(@), !.pc = "stock", !.l = l]
                     ELSE IF go THEN [pass EXCEPT !.pc = "load", !.l = l] ELSE pass)

After(m, ans) == IF m.back = "next" THEN [m EXCEPT !.pc = "next"] ELSE Done(ans)
Refreshing(j, l) == mat[j].l = l /\ mat[j].pc \in {"pair", "snap", "fund", "daily", "point"}
Overlaps(i, l) == \E j \in DOMAIN mat \ {i} : Refreshing(j, l)
BeginWrites(i, l) == mghost' = [mghost EXCEPT !.refreshes = IF Overlaps(i, l) THEN @ \cup {l} ELSE @,
                                             !.torn = @ \ {l}]
Torn(l) == mghost' = [mghost EXCEPT !.torn = @ \cup {l}]

\* The listing is read and its quote fetched; what is written comes later.
RefreshListing(i) ==
  LET m == mat[i] l == m.l e == GetListing(db, l) q == FetchQuote(l) rate == FetchForexRate(l)
      change == IF e.snap.price = 0 THEN 0 ELSE rate - e.snap.price
      s == IF e.type = "FOREX" THEN [price |-> rate, ask |-> rate, bid |-> rate, change |-> change, vol |-> 1000]
           ELSE QuoteSnap(q)
      day == IF q.day = 0 THEN Today ELSE q.day
  IN  /\ At(i, "load") /\ Stay
      /\ \/ e.type = "FUTURES" /\ To(i, After(m, "422")) /\ MNoFail /\ UNCHANGED mghost
         \/ e.type # "FUTURES" /\ MFail("provider") /\ To(i, After(m, "400")) /\ UNCHANGED mghost
         \/ /\ e.type # "FUTURES" /\ MNoFail /\ BeginWrites(i, l)
            /\ To(i, [m EXCEPT !.pc = IF e.type = "FOREX" THEN "pair" ELSE "snap", !.snap = s,
                               !.days = <<[day |-> day, snap |-> s]>>])

\* Quote, daily closes and overview are fetched; the newest days are kept,
\* the day of the quote with the quote's figures.
SortedDays(ds) == SortSeq(ds, LAMBDA a, b : a.day > b.day)
DailyRows(l) ==
  LET ds == SortedDays(FetchDaily(l)) n == IF Len(ds) > DailyWindow THEN DailyWindow ELSE Len(ds) q == FetchQuote(l)
  IN  [k \in 1 .. n |->
         [day |-> ds[k].day,
          snap |-> IF ds[k].day = q.day THEN [QuoteSnap(q) EXCEPT !.price = ds[k].close]
                   ELSE [price |-> ds[k].close, ask |-> ds[k].close, bid |-> ds[k].close, vol |-> ds[k].vol,
                         change |-> IF k < n THEN ds[k].close - ds[k + 1].close ELSE 0]]]
RefreshStockByTicker(i) ==
  LET m == mat[i] l == m.l IN
  /\ At(i, "stock") /\ Stay
  /\ \/ MFail("provider") /\ To(i, After(m, "400")) /\ UNCHANGED mghost
     \/ /\ MNoFail /\ BeginWrites(i, l)
        /\ To(i, [m EXCEPT !.pc = IF FetchCompanyOverview(l).known THEN "fund" ELSE "snap",
                           !.snap = QuoteSnap(FetchQuote(l)), !.days = DailyRows(l),
                           !.rates = <<FetchCompanyOverview(l), GetStockByTicker(db, l)>>])

\* Each write may fail: what was written before it stays.
\* maxInt64 and nonEmptyDecimal alike: a figure the provider leaves at 0 keeps the old one.
maxInt64(a, b) == IF a = 0 THEN b ELSE a
nonEmptyDecimal(a, b) == IF a = 0 THEN b ELSE a
WriteOr(i, d, m) ==
  \/ MNoFail /\ db' = d /\ To(i, m) /\ UNCHANGED <<menv, net, mghost>>
  \/ MFail("db") /\ To(i, After(mat[i], "400")) /\ Torn(mat[i].l) /\ Stay
WriteFundamentals(i) ==
  LET m == mat[i] o == m.rates[1] old == m.rates[2] IN
  /\ At(i, "fund")
  /\ WriteOr(i, UpdateStockFundamentals(db, m.l, maxInt64(o.shares, old.shares), nonEmptyDecimal(o.yield, old.yield)),
             [m EXCEPT !.pc = "snap"])
WritePair(i) ==
  LET m == mat[i] IN
  At(i, "pair") /\ WriteOr(i, UpdateForexPairRate(db, m.l, m.snap.price), [m EXCEPT !.pc = "snap"])
WriteSnapshot(i) ==
  LET m == mat[i] IN
  At(i, "snap") /\ WriteOr(i, UpdateListingSnapshot(db, m.l, m.snap), [m EXCEPT !.pc = "daily"])

\* The row, then the point of the time series; its failure is only logged.
saveDailySnapshot(i) ==
  LET m == mat[i] IN
  /\ At(i, "daily")
  /\ IF m.days = <<>> THEN ReadOnly(i, After(m, "200"))
     ELSE WriteOr(i, UpsertDailySnapshot(db, m.l, Head(m.days).day, Head(m.days).snap), [m EXCEPT !.pc = "point"])
SaveDailySnapshots(i) ==
  LET m == mat[i] p == Head(m.days) IN
  /\ At(i, "point") /\ To(i, [m EXCEPT !.pc = "daily", !.days = Tail(@)]) /\ UNCHANGED <<menv, db>>
  /\ \/ /\ MNoFail /\ net' = [net EXCEPT !.influx[m.l][p.day] = p.snap]
        /\ mghost' = [mghost EXCEPT !.stale = @ \ {<<m.l, p.day>>}]
     \/ MFail("influx") /\ UNCHANGED net /\ mghost' = [mghost EXCEPT !.stale = @ \cup {<<m.l, p.day>>}]
--------------------------------------------------------------------------
(* Price alerts. *)

validAlertCondition == {"ABOVE", "BELOW", "PCT_DROP_INTRADAY"}
normalizeNotificationType == {"EMAIL", "PUSH", "IN_APP", "ALL"}
alertSatisfied(a, s) ==
  CASE a.cond = "ABOVE" -> s.price >= a.thr
    [] a.cond = "BELOW" -> s.price <= a.thr
    [] a.cond = "PCT_DROP_INTRADAY" ->
         calculateChangePercent(s)[2] /\ calculateChangePercent(s)[1] <= -(a.thr * 10000)

CreatePriceAlert(i) ==
  LET r == Req[i]
      row == [user |-> r.user, l |-> r.l, cond |-> r.cond, thr |-> r.thr, active |-> TRUE, last |-> FALSE, gone |-> FALSE]
  IN  /\ Ask(i, "createAlert")
      /\ IF r.cond \notin validAlertCondition \/ r.thr <= 0 \/ r.kind \notin normalizeNotificationType
         THEN ReadOnly(i, Done("400"))
         ELSE IF ~ListingExists(db, r.l) THEN ReadOnly(i, Done("404"))
         ELSE /\ DbStep(i, InsertPriceAlert(db, row), Done("201"))
              /\ mghost' = [mghost EXCEPT !.arms = Append(@, 1)] /\ MNoFail
TogglePriceAlert(i) ==
  /\ Ask(i, "toggleAlert")
  /\ IF OwnedAlert(db, Req[i].user, Req[i].a)
     THEN DbStep(i, ToggleOwnedPriceAlert(db, Req[i].a), Done("200")) /\ UNCHANGED <<mghost, mfaults>>
     ELSE ReadOnly(i, Done("404"))
DeletePriceAlert(i) ==
  /\ Ask(i, "deleteAlert")
  /\ IF OwnedAlert(db, Req[i].user, Req[i].a)
     THEN DbStep(i, DeleteOwnedPriceAlert(db, Req[i].a), Done("204")) /\ UNCHANGED <<mghost, mfaults>>
     ELSE ReadOnly(i, Done("404"))

\* The active alerts are read once; each is then decided on its copy.
Evaluating(j) == mat[j].pc \in {"eval", "rearm", "fire", "publish"}
Copy(a) == [id |-> a, cond |-> db.alerts[a].cond, thr |-> db.alerts[a].thr, l |-> db.alerts[a].l, last |-> db.alerts[a].last]
EvaluateActivePriceAlerts(i) ==
  LET ids == ListActivePriceAlerts(db) IN
  /\ At(i, "alerts") /\ Stay /\ MNoFail
  /\ To(i, [mat[i] EXCEPT !.pc = "eval", !.al = [k \in DOMAIN ids |-> Copy(ids[k])]])
  /\ mghost' = [mghost EXCEPT !.evals = @ \/ \E j \in DOMAIN mat \ {i} : Evaluating(j)]
DropAlert(m) == [m EXCEPT !.al = Tail(@), !.pc = "eval"]
DecideAlert(i) ==
  LET m == mat[i] a == Head(m.al) ok == alertSatisfied(a, GetListing(db, a.l).snap) IN
  /\ At(i, "eval")
  /\ ReadOnly(i, IF m.al = <<>> THEN Done("done")
                 ELSE IF ok = a.last THEN DropAlert(m)
                 ELSE [m EXCEPT !.pc = IF ok THEN "fire" ELSE "rearm", !.row = GetListing(db, a.l).snap.price])
RearmAlert(i) ==
  LET a == Head(mat[i].al).id IN
  /\ At(i, "rearm") /\ To(i, DropAlert(mat[i])) /\ UNCHANGED <<menv, net>>
  /\ \/ /\ MNoFail /\ db' = SetPriceAlertLastTriggered(db, a, FALSE)
        /\ mghost' = [mghost EXCEPT !.arms[a] = @ + (IF db.alerts[a].last THEN 1 ELSE 0)]
     \/ MFail("db") /\ UNCHANGED <<db, mghost>>
FireAlert(i) ==
  LET a == Head(mat[i].al).id IN
  /\ At(i, "fire")
  /\ \/ /\ MNoFail /\ DbStep(i, SetPriceAlertLastTriggered(db, a, TRUE), [mat[i] EXCEPT !.pc = "publish"])
        /\ UNCHANGED mghost
     \/ MFail("db") /\ To(i, DropAlert(mat[i])) /\ Stay /\ UNCHANGED mghost
\* The payload carries the price that was read when the alert was decided.
priceAlertPayload(i) == [a |-> Head(mat[i].al).id, price |-> mat[i].row]
PublishPriceAlertTriggered(i) ==
  /\ At(i, "publish") /\ To(i, DropAlert(mat[i])) /\ Stay
  /\ \/ MNoFail /\ mghost' = [mghost EXCEPT !.pub = Append(@, priceAlertPayload(i))]
     \/ MFail("publish") /\ mghost' = [mghost EXCEPT !.lost = @ \cup {Head(mat[i].al).id}]
--------------------------------------------------------------------------
(* Watch lists: ownership is checked first, the row is written after. *)

CreateWatchlist(i) ==
  /\ Ask(i, "createList")
  /\ IF Req[i].name = "" THEN ReadOnly(i, Done("400"))
     ELSE DbStep(i, InsertWatchlist(db, Req[i].user), Done("201")) /\ UNCHANGED <<mghost, mfaults>>
DeleteWatchlist(i) ==
  /\ Ask(i, "deleteList")
  /\ IF OwnedWatchlistExists(db, Req[i].user, Req[i].w)
     THEN DbStep(i, DeleteOwnedWatchlist(db, Req[i].w), Done("204")) /\ UNCHANGED <<mghost, mfaults>>
     ELSE ReadOnly(i, Done("404"))
AddWatchlistItem(i) ==
  /\ Ask(i, "addItem")
  /\ ReadOnly(i, IF OwnedWatchlistExists(db, Req[i].user, Req[i].w) /\ ListingExists(db, Req[i].l)
                 THEN [Idle EXCEPT !.pc = "insert"] ELSE Done("404"))
InsertWatchlistItem(i) ==
  LET w == Req[i].w l == Req[i].l IN
  /\ At(i, "insert")
  /\ IF ForeignKeyBroken(db, w) THEN ReadOnly(i, Done("500"))
     ELSE IF IsUniqueViolation(db, w, l) THEN ReadOnly(i, Done("409"))
     ELSE DbStep(i, CreateWatchlistItem(db, w, l), Done("201")) /\ UNCHANGED <<mghost, mfaults>>
RemoveWatchlistItem(i) ==
  /\ Ask(i, "removeItem")
  /\ ReadOnly(i, IF OwnedWatchlistExists(db, Req[i].user, Req[i].w) THEN [Idle EXCEPT !.pc = "remove"] ELSE Done("404"))
DeleteItemRow(i) ==
  LET w == Req[i].w l == Req[i].l IN
  /\ At(i, "remove")
  /\ IF IsUniqueViolation(db, w, l)
     THEN DbStep(i, DeleteOwnedWatchlistItem(db, w, l), Done("204")) /\ UNCHANGED <<mghost, mfaults>>
     ELSE ReadOnly(i, Done("404"))
ListWatchlistItems(w, type) == {k \in WatchlistItemsOf(db, w) : type = "" \/ db.lst[k.l].type = type}
parseListingTypeFilter(type) == type \in {"", "STOCK", "FUTURES", "FOREX", "OPTION"}
--------------------------------------------------------------------------
(* Exchange rates. *)

calculateBuyingRate(r) == DivRound(r * (100 - Margin), 100)
calculateSellingRate(r) == DivRound(r * (100 + Margin), 100)
FetchExchangeRate(c) == Provider[net.feed].fx[c]
FetchingRates(j) == mat[j].pc \in {"fetch", "fallback", "copy", "store"}
RateLap(i) == mghost' = [mghost EXCEPT !.fetches = @ \/ \E j \in DOMAIN mat \ {i} : FetchingRates(j)]

\* One call a currency, all of them before anything is stored; one error leads to the copy of
\* the latest snapshot, days that differ to a refusal.
Fetched(m, c) ==
  LET a == FetchExchangeRate(c)
      all == (c :> [buy |-> calculateBuyingRate(a.rate), sell |-> calculateSellingRate(a.rate),
                    src |-> net.feed, day |-> a.day]) @@ m.rates
  IN  IF DOMAIN all # Currency THEN [m EXCEPT !.pc = "fetch", !.rates = all]
      ELSE IF \E b, e \in Currency : all[b].day # all[e].day THEN Done("502")
      ELSE [m EXCEPT !.pc = "store", !.day = a.day,
                     !.rates = [b \in Currency |-> [buy |-> all[b].buy, sell |-> all[b].sell, src |-> all[b].src]]]
FetchAndStoreDailyRates(i) ==
  /\ Ask(i, "fetchRates") \/ At(i, "fetch")
  /\ Stay /\ RateLap(i)
  /\ \/ MFail("provider") /\ To(i, [Idle EXCEPT !.pc = "fallback"])
     \/ MNoFail /\ \E c \in Currency \ DOMAIN mat[i].rates : To(i, Fetched(mat[i], c))
fallbackToLatestSnapshot(i) ==
  /\ At(i, "fallback")
  /\ ReadOnly(i, IF LatestDate(db) = 0 THEN Done("502") ELSE [mat[i] EXCEPT !.pc = "copy", !.day = LatestDate(db)])
CopySnapshot(i) ==
  /\ At(i, "copy")
  /\ ReadOnly(i, IF GetRatesByDate(db, mat[i].day) = {} THEN Done("502")
                 ELSE [mat[i] EXCEPT !.pc = "store", !.day = Today, !.rates = db.rate[mat[i].day]])
\* Delete and insert in one transaction; a commit may fail and leaves all.
StoreSnapshot(i) ==
  LET m == mat[i] IN
  /\ At(i, "store")
  /\ \/ /\ MNoFail /\ DbStep(i, ReplaceSnapshot(db, m.day, m.rates), Done("200"))
        /\ mghost' = [mghost EXCEPT !.best[m.day] =
                        [c \in Currency |-> IF m.rates[c].src > @[c] THEN m.rates[c].src ELSE @[c]]]
     \/ MFail("db") /\ To(i, Done("400")) /\ Stay /\ UNCHANGED mghost

resolveSnapshotDate(day) == IF day # 0 THEN day ELSE LatestDate(db)
isSupportedCurrency(c) == c \in Currency \cup {"RSD"}
\* Only HTTP asks for a positive amount; a call over gRPC does not.
parseConversionQuery(r) == isSupportedCurrency(r.from) /\ isSupportedCurrency(r.to) /\ r.amount > 0
baseCurrency == [buy |-> Scale, sell |-> Scale, src |-> 0]
GetRate(c, day) == IF c = "RSD" THEN baseCurrency ELSE db.rate[day][c]
converted(amount, buy, sell) == DivRound(amount * buy, sell)
resolveCommissionFactor(amount) == DivRound(amount * Commission, 100)

\* The day is fixed first, then the two rates are read one after the other.
calculate(i) ==
  LET r == Req[i] day == resolveSnapshotDate(r.day) IN
  /\ Ask(i, "calculate")
  /\ ReadOnly(i, IF ~r.rpc /\ ~parseConversionQuery(r) THEN Done("400")
                 ELSE IF day = 0 THEN Done("404")
                 ELSE IF r.from = r.to THEN Done("200")
                 ELSE [Idle EXCEPT !.pc = "source", !.day = day])
ReadSourceRate(i) ==
  LET m == mat[i] rate == GetRate(Req[i].from, m.day) IN
  /\ At(i, "source")
  /\ ReadOnly(i, IF rate = NoRate THEN Done("404") ELSE [m EXCEPT !.pc = "target", !.rates = <<rate>>])
\* The effective rate divides by the amount.
Calculate(i) ==
  LET r == Req[i] a == mat[i].rates[1] b == GetRate(r.to, mat[i].day) IN
  /\ At(i, "target")
  /\ IF b = NoRate THEN ReadOnly(i, Done("404"))
     ELSE IF r.amount = 0 THEN ReadOnly(i, Done("panic"))
     ELSE /\ To(i, Done("200")) /\ Stay /\ MNoFail
          /\ mghost' = [mghost EXCEPT !.conv = @ \cup {[from |-> r.from, to |-> r.to, amount |-> r.amount,
                          out |-> converted(r.amount, a.buy, b.sell), fee |-> resolveCommissionFactor(r.amount),
                          a |-> a.src, b |-> b.src]}]
--------------------------------------------------------------------------
(* The price feed: the shared cache, the local one, the provider, a stub. *)

StubPrice == 15025
Alive(e) == e[2] # NoTime /\ net.clock - e[2] < PriceFeedTTL
\* <<price, time of writing>> when the cache answers.
GetCached(l) == IF Alive(net.redis[l]) THEN net.redis[l] ELSE <<0, NoTime>>
Served(e) == mghost' = [mghost EXCEPT !.age = IF net.clock - e[2] > @ THEN net.clock - e[2] ELSE @]
GetSingle(i) ==
  LET l == Req[i].l IN
  /\ Ask(i, "feed") /\ Stay
  /\ \/ MNoFail /\ GetCached(l)[2] # NoTime /\ To(i, Done("200")) /\ Served(GetCached(l))
     \/ /\ (MNoFail /\ GetCached(l)[2] = NoTime) \/ MFail("redis")
        /\ IF Alive(net.local[l]) THEN To(i, Done("200")) /\ Served(net.local[l])
           ELSE To(i, [Idle EXCEPT !.pc = "quote"]) /\ UNCHANGED mghost
\* Whatever the provider answers, something is cached: its price or the stub's.
writeToCache(l, price) ==
  \/ MNoFail /\ net' = [net EXCEPT !.redis[l] = <<price, net.clock>>]
  \/ MFail("redis") /\ net' = [net EXCEPT !.local[l] = <<price, net.clock>>]
AnswerQuote(i) ==
  /\ At(i, "quote") /\ To(i, Done("200")) /\ UNCHANGED <<menv, db, mghost>>
  /\ \E price \in {FetchQuote(Req[i].l).price} \cup (IF MMay("provider") THEN {StubPrice} ELSE {}) :
       writeToCache(Req[i].l, price)
--------------------------------------------------------------------------
(* Import of the exchange file: a row is looked up, then written. *)

ImportStockExchanges(i) ==
  LET rows == parseStockExchangeCSV(Csv[Req[i].file]) IN
  /\ Ask(i, "import")
  /\ ReadOnly(i, IF rows = <<>> THEN Done("500") ELSE [Idle EXCEPT !.pc = "lookup", !.todo = rows])
LookupExchange(i) ==
  LET m == mat[i] e == buildImportedExchange(Head(m.todo)) found == GetStockExchangeByMIC(db, e.mic) IN
  /\ At(i, "lookup")
  /\ ReadOnly(i, IF m.todo = <<>> THEN Done("200")
                 ELSE IF found = {} THEN [m EXCEPT !.pc = "write", !.row = 0]
                 ELSE IF \E x \in found : stockExchangeEquals(db.xch[x], e) THEN [m EXCEPT !.todo = Tail(@)]
                 ELSE [m EXCEPT !.pc = "write", !.row = CHOOSE x \in found : TRUE])
\* The code of an exchange is unique: a second insert ends the import.
WriteExchange(i) ==
  LET m == mat[i] e == buildImportedExchange(Head(m.todo)) next == [m EXCEPT !.pc = "lookup", !.todo = Tail(@)] IN
  /\ At(i, "write") /\ UNCHANGED <<mghost, mfaults>>
  /\ IF m.row = 0 /\ GetStockExchangeByMIC(db, e.mic) # {} THEN To(i, Done("500")) /\ Stay
     ELSE DbStep(i, IF m.row = 0 THEN InsertStockExchange(db, e) ELSE UpdateStockExchange(db, m.row, e), next)

\* Pages and details are only read.
ShowListings(i) == Ask(i, "list") /\ ReadOnly(i, Done(IF listListingsByType(Req[i]) THEN "200" ELSE "400"))
ShowListing(i) ==
  /\ Ask(i, "details")
  /\ ReadOnly(i, Done(IF ~ListingExists(db, Req[i].l) THEN "404"
                      ELSE IF ListingSubroutes(Req[i].role, Req[i].l) THEN "200" ELSE "403"))

RefreshStep(i) ==
  \/ RefreshOpenListings(i) \/ RefreshAllStocks(i) \/ InternalListingSubroutes(i) \/ StockAdminSubroutes(i)
  \/ NextListing(i) \/ RefreshListing(i) \/ RefreshStockByTicker(i)
  \/ WriteFundamentals(i) \/ WritePair(i) \/ WriteSnapshot(i) \/ saveDailySnapshot(i) \/ SaveDailySnapshots(i)
AlertStep(i) ==
  \/ CreatePriceAlert(i) \/ TogglePriceAlert(i) \/ DeletePriceAlert(i) \/ EvaluateActivePriceAlerts(i)
  \/ DecideAlert(i) \/ RearmAlert(i) \/ FireAlert(i) \/ PublishPriceAlertTriggered(i)
ListStep(i) ==
  \/ CreateWatchlist(i) \/ DeleteWatchlist(i) \/ AddWatchlistItem(i) \/ InsertWatchlistItem(i)
  \/ RemoveWatchlistItem(i) \/ DeleteItemRow(i)
RateStep(i) ==
  \/ FetchAndStoreDailyRates(i) \/ fallbackToLatestSnapshot(i) \/ CopySnapshot(i) \/ StoreSnapshot(i)
  \/ calculate(i) \/ ReadSourceRate(i) \/ Calculate(i) \/ GetSingle(i) \/ AnswerQuote(i)
ImportStep(i) == ImportStockExchanges(i) \/ LookupExchange(i) \/ WriteExchange(i) \/ ShowListings(i) \/ ShowListing(i)

MarketNext ==
  \/ ProviderMoves \/ Tick
  \/ \E i \in DOMAIN Req : RefreshStep(i) \/ AlertStep(i) \/ ListStep(i) \/ RateStep(i) \/ ImportStep(i)
MarketSpec == MarketInit /\ [][MarketNext]_mvars
--------------------------------------------------------------------------
(* Properties. *)

\* Every part of the state keeps its shape.
MarketTypeOK ==
  /\ \A l \in Listing : DOMAIN db.lst[l].snap = DOMAIN NoSnap /\ db.hist[l] \in [Day -> [DOMAIN NoSnap -> Int]]
  /\ \A d \in Day, c \in Currency : db.rate[d][c].buy \in Nat /\ db.rate[d][c].sell \in Nat
  /\ \A a \in DOMAIN db.alerts : {db.alerts[a].active, db.alerts[a].last, db.alerts[a].gone} \subseteq BOOLEAN
  /\ \A k \in db.items : k.w \in DOMAIN db.wl /\ k.l \in Listing
  /\ Len(mghost.arms) = Len(db.alerts) /\ net.feed \in DOMAIN Provider

Published(a) == Cardinality({k \in DOMAIN mghost.pub : mghost.pub[k].a = a})
\* An alert is published once per arming unless two evaluations overlapped,
\* and one marked as triggered was published, is about to be, or its
\* publication failed.
AlertsInOrder ==
  \A a \in DOMAIN db.alerts :
    /\ ~mghost.evals => Published(a) <= mghost.arms[a]
    /\ db.alerts[a].last =>
         \/ Published(a) > 0 \/ a \in mghost.lost
         \/ \E j \in DOMAIN mat : At(j, "publish") /\ Head(mat[j].al).id = a
\* A stored day has every currency, bought below what it is sold for, from
\* answers of the provider that bear one date (not from one answer: it may
\* move on between the calls); an older rate of a currency replaces a newer
\* one only when two fetches overlapped.
RatesInOrder ==
  \A d \in Day : GetRatesByDate(db, d) # {} =>
    /\ \A c \in Currency : 0 < db.rate[d][c].buy /\ db.rate[d][c].buy <= db.rate[d][c].sell
    /\ \A c, e \in Currency : Provider[db.rate[d][c].src].fx[c].day = Provider[db.rate[d][e].src].fx[e].day
    /\ \A c \in Currency : mghost.fetches \/ db.rate[d][c].src >= mghost.best[d][c]
\* A conversion never pays out more than the amount is worth at the market
\* rates its two rates were made from, of whichever snapshots they are.
ConversionsFair ==
  \A k \in mghost.conv :
    LET Mid(c, v) == IF c = "RSD" THEN Scale ELSE Provider[v].fx[c].rate
    IN  k.out * Mid(k.to, k.b) <= k.amount * Mid(k.from, k.a) + Mid(k.to, k.b)
\* At rest a currency pair has the price of its listing and the time series
\* the figures of the database, unless a refresh stopped half-way or two
\* refreshes of the listing overlapped, or the series refused the point; and
\* figures of a company that are known are not blanked by an answer without them.
ListingsInOrder ==
  \A l \in Listing : (l \notin mghost.refreshes \cup mghost.torn /\ ~\E j \in DOMAIN mat : Refreshing(j, l)) =>
    /\ db.lst[l].type = "FOREX" => db.pair[l] = db.lst[l].snap.price
    /\ \A d \in Day : net.influx[l][d] # NoSnap /\ <<l, d>> \notin mghost.stale => net.influx[l][d] = db.hist[l][d]
    /\ \A k \in {"shares", "yield"} : Stocks0[l][k] > 0 => db.stock[l][k] > 0

\* The market's records stay in order: alerts, rates, conversions, listings,
\* exchanges (codes unique, active only in a supported currency), watch
\* lists (no entry outlives its list) and the age of what the feed serves.
MarketInOrder ==
  /\ AlertsInOrder /\ RatesInOrder /\ ConversionsFair /\ ListingsInOrder
  /\ \A x, y \in DOMAIN db.xch : db.xch[x].mic = db.xch[y].mic => x = y
  /\ \A x \in DOMAIN db.xch : db.xch[x].active => db.xch[x].cur \in supportedImportCurrencies
  /\ \A k \in db.items : ~db.wl[k.w].gone
  /\ mghost.age < PriceFeedTTL

\* The pages a reader may get who asks for one after the other.
Pages(type, f, size, sortBy, dir) ==
  LET n == pageCount(Cardinality({l \in Listing : db.lst[l].type = type}), size)
      answers == [p \in 1 .. n |-> ListListings(db, type, f, p - 1, size, sortBy, dir)]
  IN  {ps \in [1 .. n -> UNION {answers[p] : p \in 1 .. n}] : \A p \in 1 .. n : ps[p] \in answers[p]}
NoFilter == [min |-> <<>>, max |-> <<>>]
\* Listing pages are full but the last, only which says so, and in the order
\* asked for; they hold every listing of the type when it is by ticker, or by
\* a price no two of them share - with prices that tie, a listing may come
\* twice and another not at all; an hour lies in a trading window exactly when it is fewer hours after
\* the opening than the window is long; the option groups hold each option
\* of the stock once; clients never read a currency pair's details; a watch
\* list's items by type add up to its count; every currency has a history of
\* the same days.  What
\* they show depends on the tables only: looked at when no request is under way.
MarketViews == (\A i \in DOMAIN mat : mat[i].pc \in {"new", "done"}) =>
  /\ \A type \in {"STOCK", "FOREX"}, size \in 1 .. 2, sortBy \in {"ticker", "price"}, dir \in {"asc", "desc"} :
       LET of == {l \in Listing : db.lst[l].type = type}
           distinct == \A a, b \in of : db.lst[a].snap.price = db.lst[b].snap.price => a = b
       IN  \A ps \in Pages(type, NoFilter, size, sortBy, dir) :
             /\ (sortBy = "ticker" \/ distinct) =>
                  UNION {{ps[p].content[k] : k \in DOMAIN ps[p].content} : p \in DOMAIN ps} = of
             /\ \A p \in DOMAIN ps : /\ ps[p].last = (p = Len(ps)) /\ ps[p].pages = Len(ps)
                                     /\ p < Len(ps) => Len(ps[p].content) = size
             /\ \A p \in DOMAIN ps : \A k \in 2 .. Len(ps[p].content) :
                  sortBy = "price" /\ dir = "asc" =>
                    db.lst[ps[p].content[k - 1]].snap.price <= db.lst[ps[p].content[k]].snap.price
  /\ \A h, from, to \in {0, 6, 9, 17, 23} :
       isWithinWindow(h, from, to) = ((h - from) % 24 < (to - from) % 24)
  /\ \A x \in DOMAIN db.xch, h \in {0, 9, 17} : LET st == GetStockExchangeStatus(db, x, h, menv.workday) IN
       (st.open /\ ~st.closed) \/ (~st.open /\ st.closed)
  /\ \A l \in Listing : LET v == GetListingDetails(l, "ALL") IN
       /\ UNION {{g.calls[k] : k \in DOMAIN g.calls} \cup {g.puts[k] : k \in DOMAIN g.puts} : g \in v.groups}
            = {o \in DOMAIN Options0 : db.lst[l].type = "STOCK" /\ Options0[o].stock = l}
       /\ \A g \in v.groups : \A o, e \in g.inMoney :
            Options0[o].type = Options0[e].type \/ Options0[o].strike # Options0[e].strike
       /\ v.initial >= v.maintenance
       /\ \A k \in 2 .. Len(v.history) : v.history[k - 1] < v.history[k]
       /\ ListingSubroutes("CLIENT_TRADING", l) => db.lst[l].type # "FOREX"
  /\ \A user \in 1 .. 2 : \A row \in ListWatchlistsByUser(db, user) :
       row[2] = Cardinality(UNION {ListWatchlistItems(row[1], t) : t \in {u \in {"STOCK", "FOREX", "FUTURES", "BOND"} : parseListingTypeFilter(u)}})
  /\ \A c, e \in Currency : GetRatesByRange(db, c, 1, Today) = GetRatesByRange(db, e, 1, Today)
  /\ Cardinality(ListDividendData(db)) = Len(ListStockListings(db))
=============================================================================
