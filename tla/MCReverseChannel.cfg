SPECIFICATION FairSpec
CONSTANTS
  Channel = {c1, c2}
  MaxCalls = 4
  k1 = k1
  k2 = k2
  MConn = {k1, k2}
  ServiceOf <- MCServiceOf
  Setup = Setup
INVARIANTS ReverseInv NoAnswerLost ServicesReady
PROPERTIES StartReturns ProcessEnds CallIsForwarded
CHECK_DEADLOCK FALSE
