SPECIFICATION Spec
CONSTANTS
  Waiters = {w1, w2}
  Notifiers = {n1, n2}
  Wakers = {c1, c2}
  None = None
  WAKEUPS = 2
  WakersMayPanic = TRUE
SYMMETRY Symmetry
INVARIANTS NotifyInv NotifyReaches CountExact NoDanglingSlot
PROPERTIES PendingIsSafe ImplementsNotification
