\* Two threads, a task that is polled with one of two wakers.
SPECIFICATION Spec
CONSTANTS
  Threads = {t1, t2}
  Wakers = {w1, w2}
  None = None
SYMMETRY Symmetry
INVARIANTS NotificationInv NoLostWakeup GraceIsOver FlagStands
