\* A thread ends after its root future has panicked.
SPECIFICATION Spec
CONSTANTS
  EPOCH_ID_MAX = 6
  Threads = {t1, t2}
  NoThread = NoThread
  Objs = {a}
  CancelPhases = {}
  ManualPoll = FALSE
  UntrackedPoll = FALSE
  Roots = {t2}
  AfterPanic = {"exit"}
SYMMETRY Symmetry
INVARIANT SleepJustified
