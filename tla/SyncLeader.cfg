\* The leader of a reset is dropped while it waits for the write guard.
SPECIFICATION Spec
CONSTANTS
  Tasks = {a, b, c}
  GP_ID_MAX = 3
  CancelAt = {"write_lock"}
  Uses = {u}
SYMMETRY Symmetry
INVARIANT ResetHasLeader
CHECK_DEADLOCK FALSE
