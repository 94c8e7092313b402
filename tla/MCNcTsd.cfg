CONSTANTS
  Thread = {t1, t2}
  PTHREAD_KEYS_MAX = 2
  UINT_MAX = 5
  PTHREAD_DESTRUCTOR_ITERATIONS = 2
  Destructor = {d1}
  NULL = NULL
  NoKey = NoKey
  MaxCreates = 3
SPECIFICATION Spec
SYMMETRY ThreadSymmetry
INVARIANTS TsdInv StaleIsHidden
PROPERTY RightDestructor
CHECK_DEADLOCK FALSE
