CONSTANTS
  Thread = {t1, t2, t3}
  Running = {t1, t2}
  Service = {s1}
  NoThread = NoThread
  NumPages = 3
  MapBytes = 4
  MaxCalls = 3
SPECIFICATION FairSpec
INVARIANTS VmInv HoleIsQuiet MapIsTrusted
PROPERTIES IoMemoryStays CallsReturn
CHECK_DEADLOCK FALSE
