CONSTANTS
  Thread = {t1, t2, t3}
  Addr = {a1, a2, bad}
  Readable = {a1, a2}
  Word = {0, 1}
  NWake = {0, 1, 2}
  NoAddr = NoAddr
SPECIFICATION FutexSpec
SYMMETRY ThreadSymmetry
INVARIANT FutexInv
PROPERTIES WakeIsFifo ImplementsContract
CHECK_DEADLOCK FALSE
