\* The first wait of the overflow path is dropped.
SPECIFICATION Spec
CONSTANTS
  EPOCH_ID_MAX = 8
  Threads = {t1, t2}
  NoThread = NoThread
  Objs = {a, b}
  CancelPhases = {"reset"}
  ManualPoll = FALSE
  UntrackedPoll = FALSE
  Roots = {}
  AfterPanic = {}
SYMMETRY Symmetry
INVARIANT NoUseAfterFree
