\* Ordinary waits are dropped, and polled inside read-side callbacks.
SPECIFICATION Spec
CONSTANTS
  EPOCH_ID_MAX = 6
  Threads = {t1, t2}
  NoThread = NoThread
  Objs = {a, b}
  CancelPhases = {"gp"}
  ManualPoll = TRUE
  UntrackedPoll = FALSE
  Roots = {}
  AfterPanic = {}
SYMMETRY Symmetry
INVARIANT NoUseAfterFree
