CONSTANTS
  Thread = {c1, c2, p1}
  Producer = {p1}
  Addr = {mutex_state, sequence_number}
  Readable = {mutex_state, sequence_number}
  Word = {0, 1, 2, 3, 4}
  NoAddr = NoAddr
  mutex_state = mutex_state
  sequence_number = sequence_number
  NoThread = NoThread
  MutexType = {"FAST", "RECURSIVE", "ERRORCHECK"}
  LockKind = {"lock", "trylock"}
  MaxCalls = 2
  MaxDepth = 2
  SeqMod = 4
SPECIFICATION CondFairSpec
INVARIANTS OwnersAreRight MutualExclusion NoLostSignal NoStrandedWaiter
PROPERTY SleeperIsServed
CHECK_DEADLOCK FALSE
