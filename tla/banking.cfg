SPECIFICATION BankingSpec
CONSTANTS
    Tx = {"t1", "t2", "t3"}
    Acct = {"a1", "a2"}
    SrcOf <- Sources
    Amt <- Amounts
    InitBal <- Opening
    BalBound = 3
    Accounts0 <- BankAccounts
    MaxAttempts = 2
    BankScenarios <- BankCases
    Accounts0p <- ProductAccounts
    Transfers0 <- ProductTransfers
    RetryMaxAttempts = 2
    FailureThreshold = 2
    SuccessThreshold = 2
    ProductScenarios <- ProductCases
    Request = {"r1", "r2", "r3", "r4"}
    Officer = {"o1", "o2"}
    User = {"u1", "u2", "s1"}
    Role <- LoanRole
    Form <- LoanForm
    Account = {"ac1", "ac2"}
    AccountOwner <- LoanOwner
    AccountCurrency <- LoanCurrency
    Tiers <- LoanTiers
    BasePercent = 4
    TierStep = 1
    KindMargin <- LoanMargin
    OverdueStep = 1
    ReferenceStep = 1
    RateBase = 12
    FxRate <- LoanFx
    Month = 1
    LoanScenarios <- LoanCases
    Message = {"m1", "m2", "m3", "m4", "m5", "m6"}
    Shape <- MessageShape
    Attempt = {"w1", "w2"}
    Poller = "poller"
    MaxRetries = 3
    MaxRows = 3
    NotifyScenarios <- NotifyCases
    Employee = {"e1", "e2", "e3"}
    Client = {"c1"}
    EmpOrder <- Employees3
    Named <- Names4
    Call = {"k1", "k2"}
    MaxFails = 2
    MaxTokens = 3
    MaxTries = 3
    UserScenarios <- UserCases
INVARIANT BankingTypeOK
INVARIANT Backed
INVARIANT Books
INVARIANT OnlyVerified
INVARIANT ProductsInOrder
INVARIANT LoanBooks
INVARIANT DeliveredOnce
INVARIANT AccountsInOrder
INVARIANT ListsComplete
PROPERTY WorkGetsDone
CHECK_DEADLOCK FALSE
