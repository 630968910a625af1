SPECIFICATION FairSpec
CONSTANTS
  c1 = c1  a1 = a1  o1 = o1  o2 = o2  o3 = o3
  h1 = h1  h2 = h2
  Client = {c1}
  Agent = {a1}
  Order = {o1, o2, o3}
  Handler = {h1, h2}
  Shares <- MCShares
  OtcHeld <- MCOtcHeld
  Limit = 6
  RefPrice = 2
  MaxPaid = 1
  Scenarios <- MCScenarios
INVARIANTS
  TypeOK
  SellsStayReserved
  PortionsSettleOnce
  ExposureAccounted
  AutoApprovedWithinLimit
PROPERTIES
  ClosedStaysClosed
  ApprovedIsWorkedOff
CHECK_DEADLOCK FALSE
