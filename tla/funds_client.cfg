SPECIFICATION FundSpec
CONSTANTS
    Funds0 <- FundRows
    Holdings0 <- FundHoldings
    Positions0 <- FundPositions0
    FBank0 <- FundMoney
    Prices <- FundPrices
    UsdRsd = 2
    MinMonthlySnapshots = 2
    FundScenarios <- FundCases
INVARIANT InvestorOwnsShare
CHECK_DEADLOCK FALSE
