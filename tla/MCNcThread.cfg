CONSTANTS
  Thread = {t1, t2}
  Main = Main
  Block = {1, 2, 3, 4}
  malloc <- FirstFree
  NoThread = NoThread
  NoBlock = NoBlock
  Size = {1, 2}
  TlsSize = 1
  kMaxCachedMemoryBlocks = 1
SPECIFICATION FairSpec
INVARIANTS ThreadInv DataIsLive
PROPERTIES JoinReturns MainEnds
CHECK_DEADLOCK FALSE
