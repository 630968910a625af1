SPECIFICATION PaymentsSpec
CONSTANTS
  t1 = t1
  acct = acct
  Tx <- OneTx
  Acct <- Accounts
  SrcOf <- OneSrc
  Amt <- OneAmt
  InitBal <- Opening
  BalBound = 3
  MaxRetries = 2
  MaxAttempts = 4
  MaxFaults = 4
  Faults <- AllFaults
  NetRetries = 3
  NetFaults = 3
INVARIANTS
  CreditedOnlyIfDebited
  SuccessIsKept
  RolledBackMovesNothing
PROPERTIES
  LossIsMadeGood
  KeepsPromise
CHECK_DEADLOCK FALSE
