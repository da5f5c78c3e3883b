\* Two slot ids for three threads: growth under readers, and panics at the limit.
SPECIFICATION LiveSpec
CONSTANTS
  Threads = {t1, t2, t3}
  Bufs = {b1, b2}
  States = {s1, s2}
  InitialState = s1
  NONE = NONE
  NoBuf = NoBuf
  InitialCapacities = {1, 2, 3}
  SLOT_ID_MAX = 2
\* After a panic the remaining threads may all panic on the poisoned lock.
CHECK_DEADLOCK FALSE
INVARIANTS SlotsInv SoundAccess SlotOwnership ScanLooksAtEveryThread
PROPERTIES StoresLand ImplementsTable WriterFinishes
