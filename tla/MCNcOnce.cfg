CONSTANTS
  Thread = {t1, t2, t3}
  Addr = {lock}
  Readable = {lock}
  Word = {0, 1, 2}
  NoAddr = NoAddr
  mutex_state = lock
  NoThread = NoThread
  MutexType = {"FAST"}
  LockKind = {"lock"}
  MaxCalls = 1
  MaxDepth = 1
SPECIFICATION OnceFairSpec
INVARIANTS AtMostOneInit NobodyReturnsEarly
PROPERTY OnceReturns
CHECK_DEADLOCK FALSE
