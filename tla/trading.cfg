SPECIFICATION TradingSpec
CONSTANTS
    o1 = o1
    o2 = o2
    w1 = w1
    w2 = w2
    Offer <- TwoOffers
    Worker <- TwoWorkers
    Scenarios <- Ordinary
    Exchanges0 <- MarketExchanges
    Listings0 <- MarketListings
    Options0 <- MarketOptions
    Stocks0 <- MarketStocks
    Rates0 <- MarketRates
    Csv <- MarketCsv
    Provider <- MarketProvider
    Currency = {"USD", "EUR"}
    Today = 3
    DailyWindow = 2
    Margin = 1
    Commission = 1
    PriceFeedTTL = 2
    MarketScenarios <- MarketCases
    Us = 1
    Them = 2
    Money0 <- CrossMoney
    Shares0 <- CrossShares
    LastDay = 3
    CrossScenarios <- CrossCases
    Funds0 <- FundRows
    Holdings0 <- FundHoldings
    Positions0 <- FundPositions0
    FBank0 <- FundMoney
    Prices <- FundPrices
    UsdRsd = 2
    MinMonthlySnapshots = 2
    FundScenarios <- FundCases
    Trades <- TaxTrades
    Listed <- TaxListed
    Exercised <- TaxContracts
    Average0 <- TaxAverage
    Customers <- TaxCustomers
    Actuaries <- TaxActuaries
    NoRsdAccount = {3}
    RateNum = 15
    RateDen = 100
    RsdPerUsd = 3
    MonthLen = 2
    YearLen = 4
    TaxScenarios <- TaxCases
    Rows0 <- PortfolioRows
    Quotes <- PortfolioQuotes
    BankBought <- PortfolioBought
    OwnAccounts <- PortfolioAccounts
    Calendar <- PortfolioDays
    QuarterEnds = {3, 6}
    ContractShares = 2
    DivRateNum = 15
    DivRateDen = 100
    DollarRsd = 10
    PositionScenarios <- PositionCases
    Months <- RecurringMonths
    Asks <- RecurringAsks
    RecurringScenarios <- RecurringCases
SYMMETRY Interchangeable
INVARIANT TradingTypeOK
INVARIANT NotOversold
INVARIANT HoldsMatch
INVARIANT NotOverexposed
INVARIANT SharesConserved
INVARIANT MarketInOrder
INVARIANT CrossBooks
INVARIANT FundBooks
INVARIANT TaxBooks
INVARIANT PositionBooks
INVARIANT RecurringInOrder
PROPERTY ContractLifecycle
CHECK_DEADLOCK FALSE
