\* A grace period that has begun completes, under the runtime's fairness; the
\* inductive invariant, on an instance with writers.
SPECIFICATION LiveSpec
CONSTANTS
  EPOCH_ID_MAX = 6
  Threads = {t1, t2}
  NoThread = NoThread
  Objs = {a, b}
  CancelPhases = {}
  ManualPoll = FALSE
  UntrackedPoll = FALSE
  Roots = {}
  AfterPanic = {}
PROPERTIES GpCompletes ImplementsGracePeriod
INVARIANTS TypeOK IndInv
