\* Three threads; ordinary waits may be dropped; threads read or end after a panic.
SPECIFICATION Spec
CONSTANTS
  EPOCH_ID_MAX = 6
  Threads = {t1, t2, t3}
  NoThread = NoThread
  Objs = {a, b}
  CancelPhases = {"gp"}
  ManualPoll = FALSE
  UntrackedPoll = TRUE
  Roots = {t3}
  AfterPanic = {"exit", "read"}
SYMMETRY Symmetry
INVARIANTS NoUseAfterFree NoFutureEpoch NoStaleResetValue OwnedSlotNotVacant
