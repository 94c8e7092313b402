CONSTANTS
  Thread = {t1, t2, t3}
  Addr = {mutex_state}
  Readable = {mutex_state}
  Word = {0, 1, 2}
  NoAddr = NoAddr
  mutex_state = mutex_state
  NoThread = NoThread
  MutexType = {"FAST"}
  LockKind = {"lock", "timedlock"}
  MaxCalls = 1
  MaxDepth = 1
SPECIFICATION FairSpec
PROPERTY EveryLockReturns
CHECK_DEADLOCK FALSE
