SPECIFICATION FairSpec
CONSTANTS
  Channel = {c1, c2}
  MaxCalls = 2
  k1 = k1
  k2 = k2
  MConn = {k1, k2}
  ServiceOf <- MCServiceOf
  Setup = Setup
PROPERTY WaitingStartReturns
CHECK_DEADLOCK FALSE
