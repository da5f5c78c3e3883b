\* Three callers, ids 1 and 2, futures dropped anywhere but at the leader's
\* write lock.
SPECIFICATION LiveSpec
CONSTANTS
  Tasks = {a, b, c}
  GP_ID_MAX = 3
  CancelAt = {"read_lock", "reset_wait", "mutex", "gp"}
  Uses = {u}
INVARIANTS TypeOK ReturnsSafely ResetFindsNoId ResetHasLeader SyncInv NotAllBlocked ProgressInv
PROPERTIES CallsReturn GpsAdvance RunsSerialized
