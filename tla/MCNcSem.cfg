CONSTANTS
  Thread = {t1, t2, t3}
  Addr = {count}
  Readable = {count}
  Word = {0, 1, 2}
  NoAddr = NoAddr
  count = count
  SEM_VALUE_MAX = 2
  InitialValue = 1
  MaxPosts = 3
  MaxWaits = 2
SPECIFICATION SemFairSpec
INVARIANTS SemInv NoStrandedUnit
PROPERTY SemSleeperIsServed
CHECK_DEADLOCK FALSE
