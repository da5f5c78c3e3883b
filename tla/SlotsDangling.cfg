SPECIFICATION Spec
CONSTANTS
  Threads = {t1, t2, t3}
  Bufs = {b1, b2}
  States = {s1}
  InitialState = s1
  NONE = NONE
  NoBuf = NoBuf
  InitialCapacities = {1, 3}
  SLOT_ID_MAX = 2
CHECK_DEADLOCK FALSE
INVARIANTS NoDanglingAccess
