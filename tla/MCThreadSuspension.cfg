CONSTANTS
  Thread = {t1, t2}
  Reg = {r1, r2}
  NoThread = NoThread
  NULL = NULL
  Garbage = Garbage
  Trusted = Trusted
  Save = {TRUE}
SPECIFICATION FairSpec
INVARIANTS SuspensionInv StoppedWhileHeld
PROPERTIES RegistersAsLeft SuspendAllEnds ResumedGoOn
