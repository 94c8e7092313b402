CONSTANTS
  Thread = {t1, t2}
  Main = t1
  NoThread = NoThread
  Code = {c1, c2}
  Halt = Halt
  Zero = Zero
  NumBundles = 2
  PageBundles = 1
  SledBundles = 0
  MaxGeneration = 2
  ScanCutoff = 1
SPECIFICATION FairSpec
INVARIANTS NaclTextInv NoStaleCode
PROPERTY DeletionEnds
