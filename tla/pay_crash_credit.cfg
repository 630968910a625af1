SPECIFICATION FairSpec
CONSTANTS
  t1 = t1
  acct = acct
  Tx <- OneTx
  Acct <- Accounts
  SrcOf <- OneSrc
  Amt <- OneAmt
  InitBal <- Opening
  BalBound = 3
  MaxRetries = 2
  MaxAttempts = 3
  MaxFaults = 1
  Faults <- CrashOnly
INVARIANTS
  CreditedAtMostOnce
CHECK_DEADLOCK FALSE
