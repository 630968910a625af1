----------------------------- MODULE MCTrading -----------------------------
(***************************************************************************)
(* The trading side as one instance for TLC: the OTC desk, market,          *)
(* cross-bank OTC, funds, capital-gains tax, positions and recurring        *)
(* orders.  These components have tables of their own and meet here through *)
(* no variable, so a behaviour is of one of them (part); the desk rests in  *)
(* its first state and the others at 0.                                     *)
(***************************************************************************)
EXTENDS MCOtcTrading, TLC

CONSTANTS
  Exchanges0, Listings0, Options0, Stocks0, Rates0, Csv, Provider, Currency, Today, DailyWindow,
  Margin, Commission, PriceFeedTTL, MarketScenarios,
  Us, Them, Money0, Shares0, LastDay, CrossScenarios,
  Funds0, Holdings0, Positions0, FBank0, Prices, UsdRsd, MinMonthlySnapshots, FundScenarios,
  Trades, Listed, Exercised, Average0, Customers, Actuaries, NoRsdAccount, RateNum, RateDen,
  RsdPerUsd, MonthLen, YearLen, TaxScenarios,
  Rows0, Quotes, BankBought, OwnAccounts, Calendar, QuarterEnds, ContractShares, DivRateNum,
  DivRateDen, DollarRsd, PositionScenarios,
  Months, Asks, RecurringScenarios

VARIABLES
  part,
  menv, db, net, mat, mghost, mfaults,
  xenv, xdb, xnow, xat, xghost, xfaults,
  fenv, funds, fpos, ftx, hold, snaps, dists, flock, fbank, freq, fres, fsaga, fat, fghost, ffaults,
  genv, gdb, gat, gghost, gfaults,
  henv, hdb, hat, hghost, hfaults,
  renv, rdb, rnow, rat, rghost, rfaults

K == INSTANCE Market
X == INSTANCE CrossBankOtc
F == INSTANCE Funds
G == INSTANCE CapitalGains
H == INSTANCE Portfolio WITH Positions0 <- Rows0
R == INSTANCE RecurringOrders

\* The values of their constants, which depend on no constant that gets a value here.
KV == INSTANCE MCMarket WITH Exchanges0 <- 0, Listings0 <- 0, Options0 <- 0, Stocks0 <- 0, Rates0 <- 0,
                             Csv <- 0, Provider <- 0, MarketScenarios <- 0
XV == INSTANCE MCCrossBankOtc WITH Money0 <- 0, Shares0 <- 0, CrossScenarios <- 0
FV == INSTANCE MCFunds WITH Funds0 <- 0, Holdings0 <- 0, Positions0 <- 0, FBank0 <- 0, Prices <- 0,
                            FundScenarios <- 0
GV == INSTANCE MCCapitalGains WITH Trades <- 0, Listed <- 0, Exercised <- 0, Average0 <- 0, Customers <- 0,
                                   Actuaries <- 0, TaxScenarios <- 0
HV == INSTANCE MCPortfolio WITH Positions0 <- 0, Quotes <- 0, BankBought <- 0, OwnAccounts <- 0,
                                Calendar <- 0, PositionScenarios <- 0
RV == INSTANCE MCRecurringOrders WITH Months <- 0, Asks <- 0, RecurringScenarios <- 0

MarketExchanges == KV!MarketExchanges
MarketListings == KV!MarketListings
MarketStocks == KV!MarketStocks
MarketOptions == KV!MarketOptions
MarketProvider == KV!MarketProvider
MarketRates == KV!MarketRates
MarketCsv == KV!MarketCsv
MarketCases == KV!MarketCases
CrossMoney == XV!CrossMoney
CrossShares == XV!CrossShares
CrossCases == XV!CrossCases
FundRows == FV!FundRows
FundHoldings == FV!FundHoldings
FundPositions0 == FV!FundPositions0
FundMoney == FV!FundMoney
FundPrices == FV!FundPrices
FundCases == FV!FundCases
TaxTrades == GV!TaxTrades
TaxListed == GV!TaxListed
TaxContracts == GV!TaxContracts
TaxAverage == GV!TaxAverage
TaxCustomers == GV!TaxCustomers
TaxActuaries == GV!TaxActuaries
TaxCases == GV!TaxCases
PortfolioRows == HV!PortfolioRows
PortfolioQuotes == HV!PortfolioQuotes
PortfolioBought == HV!PortfolioBought
PortfolioAccounts == HV!PortfolioAccounts
PortfolioDays == HV!PortfolioDays
PositionCases == HV!PositionCases
RecurringMonths == RV!RecurringMonths
RecurringAsks == RV!RecurringAsks
RecurringCases == RV!RecurringCases

marketVars == <<menv, db, net, mat, mghost, mfaults>>
crossVars == <<xenv, xdb, xnow, xat, xghost, xfaults>>
fundVars == <<fenv, funds, fpos, ftx, hold, snaps, dists, flock, fbank, freq, fres, fsaga, fat, fghost, ffaults>>
taxVars == <<genv, gdb, gat, gghost, gfaults>>
positionVars == <<henv, hdb, hat, hghost, hfaults>>
recurringVars == <<renv, rdb, rnow, rat, rghost, rfaults>>

MarketRests == menv = 0 /\ db = 0 /\ net = 0 /\ mat = 0 /\ mghost = 0 /\ mfaults = 0
CrossRests == xenv = 0 /\ xdb = 0 /\ xnow = 0 /\ xat = 0 /\ xghost = 0 /\ xfaults = 0
FundsRest ==
  /\ fenv = 0 /\ funds = 0 /\ fpos = 0 /\ ftx = 0 /\ hold = 0 /\ snaps = 0 /\ dists = 0 /\ flock = 0 /\ fbank = 0
  /\ freq = 0 /\ fres = 0 /\ fsaga = 0 /\ fat = 0 /\ fghost = 0 /\ ffaults = 0
TaxRests == genv = 0 /\ gdb = 0 /\ gat = 0 /\ gghost = 0 /\ gfaults = 0
PositionsRest == henv = 0 /\ hdb = 0 /\ hat = 0 /\ hghost = 0 /\ hfaults = 0
RecurringRests == renv = 0 /\ rdb = 0 /\ rnow = 0 /\ rat = 0 /\ rghost = 0 /\ rfaults = 0

TradingInit ==
  /\ part \in {"otc", "market", "cross", "funds", "tax", "positions", "recurring"}
  /\ Init /\ (part # "otc" => env = CHOOSE e \in Scenarios : TRUE)
  /\ IF part = "market" THEN K!MarketInit ELSE MarketRests
  /\ IF part = "cross" THEN X!CrossInit ELSE CrossRests
  /\ IF part = "funds" THEN F!FundInit ELSE FundsRest
  /\ IF part = "tax" THEN G!TaxInit ELSE TaxRests
  /\ IF part = "positions" THEN H!PositionInit ELSE PositionsRest
  /\ IF part = "recurring" THEN R!RecurringInit ELSE RecurringRests

OtcStep ==
  /\ part = "otc" /\ Next
  /\ UNCHANGED <<part, marketVars, crossVars, fundVars, taxVars, positionVars, recurringVars>>
MarketStep ==
  /\ part = "market" /\ K!MarketNext
  /\ UNCHANGED <<part, vars, crossVars, fundVars, taxVars, positionVars, recurringVars>>
CrossStep ==
  /\ part = "cross" /\ X!CrossNext
  /\ UNCHANGED <<part, vars, marketVars, fundVars, taxVars, positionVars, recurringVars>>
FundStep ==
  /\ part = "funds" /\ F!FundNext
  /\ UNCHANGED <<part, vars, marketVars, crossVars, taxVars, positionVars, recurringVars>>
TaxStep ==
  /\ part = "tax" /\ G!TaxNext
  /\ UNCHANGED <<part, vars, marketVars, crossVars, fundVars, positionVars, recurringVars>>
PositionStep ==
  /\ part = "positions" /\ H!PositionNext
  /\ UNCHANGED <<part, vars, marketVars, crossVars, fundVars, taxVars, recurringVars>>
RecurringStep ==
  /\ part = "recurring" /\ R!RecurringNext
  /\ UNCHANGED <<part, vars, marketVars, crossVars, fundVars, taxVars, positionVars>>

TradingNext ==
  OtcStep \/ MarketStep \/ CrossStep \/ FundStep \/ TaxStep \/ PositionStep \/ RecurringStep

TradingSpec ==
  /\ TradingInit
  /\ [][TradingNext]_<<part, vars, marketVars, crossVars, fundVars, taxVars, positionVars, recurringVars>>
\* The desk treats its offers alike, and its workers.
Interchangeable == Permutations(TwoOffers) \cup Permutations(TwoWorkers)
----------------------------------------------------------------------------
\* Every component keeps to its types.
TradingTypeOK ==
  /\ TypeOK
  /\ part = "market" => K!MarketTypeOK
  /\ part = "cross" => X!CrossTypeOK
  /\ part = "funds" => F!FundTypeOK
  /\ part = "tax" => G!TaxTypeOK
  /\ part = "positions" => H!PositionTypeOK
  /\ part = "recurring" => R!RecurringTypeOK

\* Alerts, rates, conversions, listings and the pages of the market service
\* stay in order (MarketInOrder and MarketViews of Market).
MarketInOrder == part = "market" => K!MarketInOrder /\ K!MarketViews

\* Cross-bank options move money and shares once, whatever the order of the
\* banks' messages, and are negotiated in turn (CrossBooks and CrossTurns of
\* CrossBankOtc).
CrossBooks == part = "cross" => X!CrossBooks /\ X!CrossTurns

\* A fund's recorded liquidity is its money, and what is shown of it agrees
\* (FundBooks and FundViews of Funds).
FundBooks == part = "funds" => F!FundBooks /\ F!FundViews

\* Capital gains are taxed once, and the figures shown add up (TaxBooks and
\* TaxViews of CapitalGains).
TaxBooks == part = "tax" => G!TaxBooks /\ G!TaxViews

\* Dividends and exercised options are paid once and for the shares held
\* (DividendBooks and ExerciseBooks of Portfolio).
PositionBooks == part = "positions" => H!DividendBooks /\ H!ExerciseBooks

\* Recurring orders fire each slot once, in order and for the amount asked
\* (RecurringInOrder of RecurringOrders).
RecurringInOrder == part = "recurring" => R!RecurringInOrder
============================================================================
