\* Waits of the overflow path may be dropped; root futures run again after a
\* panic, inside read-side sections too.
SPECIFICATION Spec
CONSTANTS
  EPOCH_ID_MAX = 6
  Threads = {t1, t2, t3}
  NoThread = NoThread
  Objs = {a}
  CancelPhases = {"reset"}
  ManualPoll = FALSE
  UntrackedPoll = TRUE
  Roots = {t3}
  AfterPanic = {"read", "enter"}
SYMMETRY Symmetry
INVARIANTS SleepJustified WakeInv
