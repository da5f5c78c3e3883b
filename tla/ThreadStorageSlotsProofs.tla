---------------------- MODULE ThreadStorageSlotsProofs ---------------------
(***************************************************************************)
(* Proofs about ThreadStorageSlots, for every set of threads, every        *)
(* capacity and every limit of the slot id.                                *)
(***************************************************************************)
EXTENDS ThreadStorageSlots, TLAPS

\* Every field keeps its type; in particular the array never outgrows the slot id.
LEMMA SlotsTypeStep == SlotsInv /\ [Next]_vars => TypeOK'
<1> SUFFICES ASSUME SlotsInv, [Next]_vars PROVE TypeOK'
  OBVIOUS
<1> USE SlotsAssumption DEF TypeOK, SlotIds, Values, Pcs
<1> USE DEF AllocPcs, DeallocPcs, WritePcs, SlicePcs, ScanPcs, ReadPcs
<1> USE DEF SetPc, SetSlot, dataVars, viewVars, scanVars
<1>1. ASSUME NEW t \in Threads, Alloc(t) PROVE TypeOK'
  BY <1>1 DEF Alloc, LockForWriting, SlotsInv
<1>2. ASSUME NEW t \in Threads, Dealloc(t) PROVE TypeOK'
  BY <1>2 DEF Dealloc, LockForWriting, SlotsInv
<1>3. ASSUME NEW t \in Threads, PopFreeSlot(t) PROVE TypeOK'
  BY <1>3 DEF PopFreeSlot, SlotsInv
<1>4. ASSUME NEW t \in Threads, AllocFromFreeSlot(t) PROVE TypeOK'
  BY <1>4 DEF AllocFromFreeSlot, SetCell, SlotsInv
<1>5. ASSUME NEW t \in Threads, PushInPlace(t) PROVE TypeOK'
  <2>1. buf \in Bufs /\ len + 1 \in SlotIds
    BY <1>5 DEF PushInPlace, SlotsInv, BufferInv
  <2>2. mem' \in [Bufs -> [SlotIds -> Values]]
    BY <1>5, <2>1 DEF PushInPlace, SetCell, SlotsInv
  <2> QED BY <1>5, <2>1, <2>2 DEF PushInPlace, SlotsInv
<1>6. ASSUME NEW t \in Threads, PublishLen(t) PROVE TypeOK'
  <2>1. slot[t] = len + 1 /\ slot[t] \in SlotIds
    BY <1>6 DEF PublishLen, SlotsInv, SlotInv
  <2> QED BY <1>6, <2>1 DEF PublishLen, SlotsInv
<1>7. ASSUME NEW t \in Threads, PushPanics(t) PROVE TypeOK'
  BY <1>7 DEF PushPanics, PanicTooManyThreads, SlotsInv
<1>8. ASSUME NEW t \in Threads, RequestModify(t) PROVE TypeOK'
  BY <1>8 DEF RequestModify, SlotsInv
<1>9. ASSUME NEW t \in Threads, ModifyCurData(t) PROVE TypeOK'
  <2>1. CASE PanicTooManyThreads(t)
    BY <1>9, <2>1 DEF PanicTooManyThreads, SlotsInv
  <2>2. CASE len # SLOT_ID_MAX /\ Reallocate(t)
    <3>1. len + 1 \in SlotIds
      BY <2>2 DEF SlotsInv
    <3>2. Grown \in [SlotIds -> Values]
      BY <2>2 DEF Grown, SlotsInv, BufferInv
    <3>3. cap' \in Nat
      <4>1. CASE cap = 0
        BY <2>2, <4>1 DEF Reallocate
      <4>2. CASE cap # 0
        BY <2>2, <4>2 DEF Reallocate, SlotsInv
      <4> QED BY <4>1, <4>2
    <3>4. buf' \in Bufs /\ live' \subseteq Bufs /\ mem' \in [Bufs -> [SlotIds -> Values]]
      BY <2>2, <3>2 DEF Reallocate, SlotsInv
    <3> QED BY <2>2, <3>1, <3>3, <3>4 DEF Reallocate, SlotsInv
  <2> QED BY <1>9, <2>1, <2>2 DEF ModifyCurData
<1>10. ASSUME NEW t \in Threads, VacateSlot(t) PROVE TypeOK'
  BY <1>10 DEF VacateSlot, SetCell, SlotsInv
<1>11. ASSUME NEW t \in Threads, ReleaseSlot(t) PROVE TypeOK'
  <2>1. slot[t] \in SlotIds
    BY <1>11 DEF ReleaseSlot, SlotsInv, SlotInv, OwnerPcs
  <2> QED BY <1>11, <2>1 DEF ReleaseSlot, SlotsInv
<1>12. ASSUME NEW t \in Threads, ReadLock(t) PROVE TypeOK'
  BY <1>12 DEF ReadLock, NoScan, SlotsInv
<1>13. ASSUME NEW t \in Threads, CurDataAsSlice(t) PROVE TypeOK'
  BY <1>13 DEF CurDataAsSlice, Word, SlotsInv
<1>14. ASSUME NEW t \in Threads, NEW v \in States, Access(t, v) PROVE TypeOK'
  BY <1>14 DEF Access, SetCell, SlotsInv
<1>15. ASSUME NEW t \in Threads, ScanSlot(t) PROVE TypeOK'
  BY <1>15 DEF ScanSlot, Word, SlotsInv
<1>16. ASSUME NEW t \in Threads, DropReadGuard(t) PROVE TypeOK'
  BY <1>16 DEF DropReadGuard, SlotsInv
<1>17. CASE UNCHANGED vars
  BY <1>17 DEF vars, SlotsInv
<1> QED
  BY <1>1, <1>2, <1>3, <1>4, <1>5, <1>6, <1>7, <1>8, <1>9, <1>10, <1>11, <1>12,
    <1>13, <1>14, <1>15, <1>16, <1>17 DEF Next, WriterStep, SlotsInv

\* The empty array satisfies the invariant.
LEMMA SlotsInit == Init => SlotsInv
<1> SUFFICES ASSUME Init PROVE SlotsInv
  OBVIOUS
<1> USE SlotsAssumption DEF Init, SlotIds, Values
<1> USE DEF AllocPcs, DeallocPcs, WritePcs, SlicePcs, ScanPcs, ReadPcs
<1>1. TypeOK
  <2>1. mem \in [Bufs -> [SlotIds -> Values]]
    OBVIOUS
  <2>2. slot \in [Threads -> SlotIds \cup {0}]
    OBVIOUS
  <2>3. pc \in [Threads -> Pcs]
    BY DEF Pcs
  <2>4. 0 \in 0 .. SLOT_ID_MAX /\ 1 \in 1 .. SLOT_ID_MAX + 1
    OBVIOUS
  <2>5. viewBuf \in [Threads -> Bufs \cup {NoBuf}] /\ viewLen \in [Threads -> 0 .. SLOT_ID_MAX]
    BY <2>4
  <2> QED BY <2>1, <2>2, <2>3, <2>4, <2>5 DEF TypeOK
<1>2. LocksInv /\ BufferInv /\ SlotInv /\ OwnersDiffer /\ NoSlotLost /\ FreeInv
  BY DEF LocksInv, BufferInv, SlotInv, OwnersDiffer, NoSlotLost, FreeInv, OwnerPcs
<1>3. CellInv /\ ViewInv /\ ScanInv
  BY DEF CellInv, ViewInv, ScanInv
<1> QED BY <1>1, <1>2, <1>3 DEF SlotsInv

\* Every step keeps the invariant.  The steps that matter: growth meets no slice
\* in use (ModifyCurData); a slot popped or appended was nobody's (PopFreeSlot,
\* PushInPlace); a thread that gives its slot up, or gets one, behind the scan's
\* back counts as looked at (ReleaseSlot, PopFreeSlot).
LEMMA SlotsStep == SlotsInv /\ [Next]_vars => SlotsInv'
<1> SUFFICES ASSUME SlotsInv, [Next]_vars PROVE SlotsInv'
  OBVIOUS
<1>0. TypeOK /\ TypeOK'
  BY SlotsTypeStep DEF SlotsInv
<1> USE <1>0, SlotsAssumption DEF TypeOK, SlotIds, Values, OwnerPcs
<1> USE DEF AllocPcs, DeallocPcs, WritePcs, SlicePcs, ScanPcs, ReadPcs
<1> USE DEF SetPc, SetSlot, dataVars, viewVars, scanVars, SlotsInv
<1>1. ASSUME NEW t \in Threads, Alloc(t) PROVE SlotsInv'
  <2>1. LocksInv'
    BY <1>1 DEF Alloc, LockForWriting, WriteLockFree, LocksInv
  <2>2. BufferInv' /\ SlotInv' /\ OwnersDiffer' /\ NoSlotLost'
    BY <1>1 DEF Alloc, LockForWriting, BufferInv, SlotInv, OwnersDiffer, NoSlotLost
  <2>3. FreeInv' /\ CellInv' /\ ViewInv' /\ ScanInv'
    BY <1>1 DEF Alloc, LockForWriting, FreeInv, CellInv, ViewInv, ScanInv
  <2> QED BY <2>1, <2>2, <2>3
<1>2. ASSUME NEW t \in Threads, Dealloc(t) PROVE SlotsInv'
  <2>1. LocksInv'
    BY <1>2 DEF Dealloc, LockForWriting, WriteLockFree, LocksInv
  <2>2. BufferInv' /\ SlotInv' /\ OwnersDiffer' /\ NoSlotLost'
    BY <1>2 DEF Dealloc, LockForWriting, BufferInv, SlotInv, OwnersDiffer,
      NoSlotLost
  <2>3. FreeInv' /\ CellInv' /\ ViewInv' /\ ScanInv'
    BY <1>2 DEF Dealloc, LockForWriting, FreeInv, CellInv, ViewInv, ScanInv
  <2> QED BY <2>1, <2>2, <2>3
<1>3. ASSUME NEW t \in Threads, PopFreeSlot(t) PROVE SlotsInv'
  <2>1. LocksInv' /\ BufferInv' /\ OwnersDiffer'
    BY <1>3 DEF PopFreeSlot, LocksInv, BufferInv, OwnersDiffer
  <2>2. FreeInv' /\ CellInv' /\ ViewInv'
    BY <1>3 DEF PopFreeSlot, FreeInv, CellInv, ViewInv
  <2>3. SlotInv'
    BY <1>3 DEF PopFreeSlot, SlotInv, FreeInv
  <2>4. NoSlotLost'
    BY <1>3 DEF PopFreeSlot, SlotInv, NoSlotLost
  <2>5. ScanInv'
    BY <1>3 DEF PopFreeSlot, SlotInv, ScanInv
  <2> QED BY <2>1, <2>2, <2>3, <2>4, <2>5
<1>4. ASSUME NEW t \in Threads, AllocFromFreeSlot(t) PROVE SlotsInv'
  <2>1. LocksInv' /\ BufferInv' /\ SlotInv' /\ OwnersDiffer'
    BY <1>4 DEF AllocFromFreeSlot, LocksInv, BufferInv, SlotInv, OwnersDiffer
  <2>2. NoSlotLost' /\ FreeInv' /\ ViewInv' /\ ScanInv'
    BY <1>4 DEF AllocFromFreeSlot, NoSlotLost, FreeInv, ViewInv, ScanInv
  <2>3. buf \in Bufs /\ slot[t] \in SlotIds
    BY <1>4 DEF AllocFromFreeSlot, BufferInv, SlotInv
  <2>4. CellInv'
    BY <1>4, <2>3 DEF AllocFromFreeSlot, SetCell, OwnersDiffer, CellInv
  <2> QED BY <2>1, <2>2, <2>4
<1>5. ASSUME NEW t \in Threads, PushInPlace(t) PROVE SlotsInv'
  <2>1. LocksInv' /\ BufferInv' /\ SlotInv'
    BY <1>5 DEF PushInPlace, LocksInv, BufferInv, SlotInv
  <2>2. FreeInv' /\ ViewInv'
    BY <1>5 DEF PushInPlace, FreeInv, ViewInv
  <2>3. OwnersDiffer'
    <3>1. slot'[t] = len + 1 /\ free' = {}
      BY <1>5 DEF PushInPlace
    <3>2. \A u \in Threads \ {t} : slot'[u] = slot[u] /\ slot[u] \in 0 .. len
      BY <1>5 DEF PushInPlace, LocksInv, SlotInv, Pcs
    <3> QED BY <3>1, <3>2 DEF OwnersDiffer
  <2>4. NoSlotLost'
    <3> SUFFICES ASSUME NEW i \in 1 .. len PROVE \E u \in Threads : slot'[u] = i
      BY <1>5 DEF PushInPlace, NoSlotLost
    <3>1. PICK u \in Threads : slot[u] = i
      BY <1>5 DEF PushInPlace, NoSlotLost
    <3>2. slot[t] = 0
      BY <1>5 DEF PushInPlace, SlotInv
    <3>3. slot'[u] = slot[u]
      BY <1>5, <3>1, <3>2 DEF PushInPlace
    <3> QED BY <3>1, <3>3
  <2>5. CellInv'
    <3>1. buf \in Bufs /\ len + 1 \in SlotIds
      BY <1>5 DEF PushInPlace, BufferInv
    <3>2. \A u \in Threads \ {t} : pc[u] \in OwnerPcs => slot[u] \in 1 .. len
      BY DEF SlotInv
    <3> QED BY <1>5, <3>1, <3>2 DEF PushInPlace, SetCell, LocksInv, CellInv
  <2>6. ScanInv'
    BY <1>5 DEF PushInPlace, SlotInv, ScanInv
  <2> QED BY <2>1, <2>2, <2>3, <2>4, <2>5, <2>6
<1>6. ASSUME NEW t \in Threads, PublishLen(t) PROVE SlotsInv'
  <2>1. LocksInv' /\ OwnersDiffer' /\ FreeInv'
    BY <1>6 DEF PublishLen, LocksInv, OwnersDiffer, FreeInv
  <2>2. CellInv' /\ ViewInv' /\ ScanInv'
    BY <1>6 DEF PublishLen, CellInv, ViewInv, ScanInv
  <2>3. BufferInv'
    BY <1>6 DEF PublishLen, BufferInv, SlotInv
  <2>4. SlotInv'
    BY <1>6 DEF PublishLen, LocksInv, SlotInv
  <2>5. NoSlotLost'
    <3> SUFFICES ASSUME NEW i \in 1 .. len' PROVE i \in free \/ \E u \in Threads : slot[u] = i
      BY <1>6 DEF PublishLen, NoSlotLost
    <3>1. slot[t] = len + 1 /\ len' = len + 1
      BY <1>6 DEF PublishLen, SlotInv
    <3>2. CASE i \in 1 .. len
      BY <3>2 DEF NoSlotLost
    <3>3. CASE i = slot[t]
      BY <3>3
    <3> QED BY <3>1, <3>2, <3>3
  <2> QED BY <2>1, <2>2, <2>3, <2>4, <2>5
<1>7. ASSUME NEW t \in Threads, PushPanics(t) PROVE SlotsInv'
  <2>1. LocksInv' /\ BufferInv' /\ SlotInv' /\ OwnersDiffer' /\ NoSlotLost'
    BY <1>7 DEF PushPanics, PanicTooManyThreads, LocksInv, BufferInv, SlotInv,
      OwnersDiffer, NoSlotLost
  <2>2. FreeInv' /\ CellInv' /\ ViewInv' /\ ScanInv'
    BY <1>7 DEF PushPanics, PanicTooManyThreads, FreeInv, CellInv, ViewInv, ScanInv
  <2> QED BY <2>1, <2>2
<1>8. ASSUME NEW t \in Threads, RequestModify(t) PROVE SlotsInv'
  <2>1. LocksInv' /\ BufferInv' /\ SlotInv' /\ OwnersDiffer' /\ NoSlotLost'
    BY <1>8 DEF RequestModify, LocksInv, BufferInv, SlotInv, OwnersDiffer,
      NoSlotLost
  <2>2. FreeInv' /\ CellInv' /\ ViewInv' /\ ScanInv'
    BY <1>8 DEF RequestModify, FreeInv, CellInv, ViewInv, ScanInv
  <2> QED BY <2>1, <2>2
<1>9. ASSUME NEW t \in Threads, ModifyCurData(t) PROVE SlotsInv'
  <2>1. LocksInv'
    BY <1>9 DEF ModifyCurData, PanicTooManyThreads, Reallocate, NoReader, LocksInv,
      FreeInv
  <2>2. BufferInv' /\ FreeInv'
    BY <1>9 DEF ModifyCurData, PanicTooManyThreads, Reallocate, BufferInv, FreeInv
  <2>3. SlotInv'
    BY <1>9 DEF ModifyCurData, PanicTooManyThreads, Reallocate, LocksInv, SlotInv
  <2>4. OwnersDiffer'
    <3>1. CASE PanicTooManyThreads(t)
      BY <3>1 DEF PanicTooManyThreads, OwnersDiffer
    <3>2. CASE Reallocate(t)
      <4>1. slot'[t] = len + 1 /\ free' = {}
        BY <1>9, <3>2 DEF ModifyCurData, Reallocate, SlotInv
      <4>2. \A u \in Threads \ {t} : slot'[u] = slot[u] /\ slot[u] \in 0 .. len
        BY <1>9, <3>2 DEF ModifyCurData, Reallocate, LocksInv, SlotInv, Pcs
      <4> QED BY <4>1, <4>2 DEF OwnersDiffer
    <3> QED BY <1>9, <3>1, <3>2 DEF ModifyCurData
  <2>5. NoSlotLost'
    <3>1. CASE PanicTooManyThreads(t)
      BY <3>1 DEF PanicTooManyThreads, NoSlotLost
    <3>2. CASE Reallocate(t)
      <4> SUFFICES ASSUME NEW i \in 1 .. len + 1 PROVE \E u \in Threads : slot'[u] = i
        BY <3>2 DEF Reallocate, NoSlotLost
      <4>1. CASE i = len + 1
        BY <3>2, <4>1 DEF Reallocate
      <4>2. CASE i \in 1 .. len
        <5>1. PICK u \in Threads : slot[u] = i
          BY <1>9, <4>2 DEF ModifyCurData, SlotInv, NoSlotLost
        <5>2. slot[t] = 0
          BY <1>9 DEF ModifyCurData, SlotInv
        <5>3. slot'[u] = slot[u]
          BY <3>2, <4>2, <5>1, <5>2 DEF Reallocate
        <5> QED BY <5>1, <5>3
      <4> QED BY <4>1, <4>2
    <3> QED BY <1>9, <3>1, <3>2 DEF ModifyCurData
  <2>6. CellInv'
    BY <1>9 DEF ModifyCurData, PanicTooManyThreads, Reallocate, Grown, BufferInv,
      SlotInv, CellInv
  <2>7. ViewInv' /\ ScanInv'
    BY <1>9 DEF ModifyCurData, PanicTooManyThreads, Reallocate, NoReader, ViewInv,
      ScanInv
  <2> QED BY <2>1, <2>2, <2>3, <2>4, <2>5, <2>6, <2>7
<1>10. ASSUME NEW t \in Threads, VacateSlot(t) PROVE SlotsInv'
  <2>1. LocksInv' /\ BufferInv' /\ SlotInv' /\ OwnersDiffer'
    BY <1>10 DEF VacateSlot, LocksInv, BufferInv, SlotInv, OwnersDiffer
  <2>2. NoSlotLost' /\ FreeInv' /\ ViewInv' /\ ScanInv'
    BY <1>10 DEF VacateSlot, NoSlotLost, FreeInv, ViewInv, ScanInv
  <2>3. buf \in Bufs /\ slot[t] \in SlotIds
    BY <1>10 DEF VacateSlot, BufferInv, SlotInv
  <2>4. CellInv'
    BY <1>10, <2>3 DEF VacateSlot, SetCell, OwnersDiffer, CellInv
  <2> QED BY <2>1, <2>2, <2>4
<1>11. ASSUME NEW t \in Threads, ReleaseSlot(t) PROVE SlotsInv'
  <2>1. LocksInv' /\ BufferInv' /\ OwnersDiffer' /\ NoSlotLost'
    BY <1>11 DEF ReleaseSlot, LocksInv, BufferInv, OwnersDiffer, NoSlotLost
  <2>2. CellInv' /\ ViewInv' /\ ScanInv'
    BY <1>11 DEF ReleaseSlot, CellInv, ViewInv, ScanInv
  <2>3. SlotInv'
    BY <1>11 DEF ReleaseSlot, LocksInv, SlotInv
  <2>4. FreeInv'
    BY <1>11 DEF ReleaseSlot, SlotInv, FreeInv
  <2> QED BY <2>1, <2>2, <2>3, <2>4
<1>12. ASSUME NEW t \in Threads, ReadLock(t) PROVE SlotsInv'
  <2>1. LocksInv'
    BY <1>12 DEF ReadLock, NoScan, LocksInv
  <2>2. BufferInv' /\ SlotInv' /\ OwnersDiffer'
    BY <1>12 DEF ReadLock, BufferInv, SlotInv, OwnersDiffer
  <2>3. NoSlotLost' /\ FreeInv'
    BY <1>12 DEF ReadLock, NoSlotLost, FreeInv
  <2>4. CellInv' /\ ViewInv' /\ ScanInv'
    BY <1>12 DEF ReadLock, CellInv, ViewInv, ScanInv
  <2> QED BY <2>1, <2>2, <2>3, <2>4
<1>13. ASSUME NEW t \in Threads, CurDataAsSlice(t) PROVE SlotsInv'
  <2>1. LocksInv' /\ BufferInv' /\ SlotInv' /\ OwnersDiffer'
    BY <1>13 DEF CurDataAsSlice, LocksInv, BufferInv, SlotInv, OwnersDiffer
  <2>2. NoSlotLost' /\ FreeInv' /\ CellInv'
    BY <1>13 DEF CurDataAsSlice, NoSlotLost, FreeInv, CellInv
  <2>3. ViewInv'
    BY <1>13 DEF CurDataAsSlice, SlotInv, ViewInv
  <2>4. ScanInv'
    BY <1>13 DEF CurDataAsSlice, Word, LocksInv, BufferInv, OwnersDiffer, CellInv,
      ScanInv
  <2> QED BY <2>1, <2>2, <2>3, <2>4
<1>14. ASSUME NEW t \in Threads, NEW v \in States, Access(t, v) PROVE SlotsInv'
  <2>1. LocksInv' /\ BufferInv' /\ SlotInv' /\ OwnersDiffer'
    BY <1>14 DEF Access, LocksInv, BufferInv, SlotInv, OwnersDiffer
  <2>2. NoSlotLost' /\ FreeInv' /\ ViewInv' /\ ScanInv'
    BY <1>14 DEF Access, NoSlotLost, FreeInv, ViewInv, ScanInv
  <2>3. viewBuf[t] = buf /\ buf \in Bufs /\ slot[t] \in SlotIds
    BY <1>14 DEF Access, BufferInv, SlotInv, ViewInv
  <2>4. CellInv'
    BY <1>14, <2>3 DEF Access, SetCell, OwnersDiffer, CellInv
  <2> QED BY <2>1, <2>2, <2>4
<1>15. ASSUME NEW t \in Threads, ScanSlot(t) PROVE SlotsInv'
  <2>1. LocksInv' /\ BufferInv' /\ SlotInv' /\ OwnersDiffer'
    BY <1>15 DEF ScanSlot, LocksInv, BufferInv, SlotInv, OwnersDiffer
  <2>2. NoSlotLost' /\ FreeInv' /\ CellInv' /\ ViewInv'
    BY <1>15 DEF ScanSlot, NoSlotLost, FreeInv, CellInv, ViewInv
  <2>3. ScanInv'
    BY <1>15 DEF ScanSlot, Word, LocksInv, ViewInv, ScanInv
  <2> QED BY <2>1, <2>2, <2>3
<1>16. ASSUME NEW t \in Threads, DropReadGuard(t) PROVE SlotsInv'
  <2>1. LocksInv' /\ BufferInv' /\ SlotInv' /\ OwnersDiffer'
    BY <1>16 DEF DropReadGuard, LocksInv, BufferInv, SlotInv, OwnersDiffer
  <2>2. NoSlotLost' /\ FreeInv' /\ CellInv' /\ ViewInv'
    BY <1>16 DEF DropReadGuard, NoSlotLost, FreeInv, CellInv, ViewInv
  <2>3. ScanInv'
    BY <1>16 DEF DropReadGuard, LocksInv, ScanInv
  <2> QED BY <2>1, <2>2, <2>3
<1>17. CASE UNCHANGED vars
  BY <1>17 DEF vars, LocksInv, BufferInv, SlotInv, OwnersDiffer, NoSlotLost, FreeInv, CellInv, ViewInv, ScanInv
<1> QED
  BY <1>1, <1>2, <1>3, <1>4, <1>5, <1>6, <1>7, <1>8, <1>9, <1>10, <1>11, <1>12,
    <1>13, <1>14, <1>15, <1>16, <1>17 DEF Next, WriterStep

\* The invariant of the slot storage holds, panics at the slot limit included.
THEOREM SlotsInvariance == Spec => []SlotsInv
<1>1. Init => SlotsInv
  BY SlotsInit
<1>2. SlotsInv /\ [Next]_vars => SlotsInv'
  BY SlotsStep
<1> QED BY <1>1, <1>2, PTL DEF Spec

\* No two threads ever own the same slot, none is owned and free, and no slot of
\* the array is lost (alloc, dealloc).
THEOREM OwnershipHolds == Spec => []SlotOwnership
<1>1. SlotsInv => SlotOwnership
  BY DEF SlotsInv, SlotOwnership
<1> QED BY <1>1, SlotsInvariance, PTL

\* As long as no allocation has panicked at the slot limit, hooks, scans, alloc
\* and dealloc use allocated memory only (cur_data_as_slice).
THEOREM AccessIsValid == Spec => []SoundAccess
<1>1. SlotsInv => SoundAccess
  <2> SUFFICES ASSUME SlotsInv, ~poisoned, NEW t \in Threads
               PROVE /\ pc[t] \in SlicePcs => viewBuf[t] \in live
                     /\ pc[t] = "access" => slot[t] \in 1 .. viewLen[t]
                     /\ pc[t] \in {"reuse", "dealloc"} => buf \in live /\ slot[t] \in 1 .. len
    BY DEF SoundAccess, NoDanglingAccess
  <2>1. pc[t] \in OwnerPcs => slot[t] \in 1 .. len /\ buf \in live
    BY SlotsAssumption DEF SlotsInv, TypeOK, SlotInv, BufferInv
  <2> QED BY <2>1, SlotsAssumption
        DEF SlotsInv, TypeOK, SlotIds, ViewInv, OwnerPcs, DeallocPcs, SlicePcs, ScanPcs, ReadPcs
<1> QED BY <1>1, SlotsInvariance, PTL

\* A scan that reaches the end of its slice has looked at every thread's word
\* (the all() of wait_for_running_threads_to_see_epoch_id).
THEOREM ScanIsComplete == Spec => []ScanLooksAtEveryThread
<1>1. SlotsInv => ScanLooksAtEveryThread
  <2> SUFFICES ASSUME SlotsInv, NEW t \in Threads, pc[t] = "scan", pos > viewLen[t]
               PROVE looked = Threads
    BY DEF ScanLooksAtEveryThread
  <2>1. pos .. viewLen[t] = {}
    BY DEF SlotsInv, TypeOK
  <2>2. \A u \in Threads \ looked : slot[u] \in pos .. viewLen[t]
    BY DEF SlotsInv, ScanInv
  <2> QED BY <2>1, <2>2 DEF SlotsInv, TypeOK
<1> QED BY <1>1, SlotsInvariance, PTL

\* A hook's store is found by the next scan (the hooks' store to the own slot).
THEOREM StoresAreKept == Spec => StoresLand
<1>1. SlotsInv /\ [Next]_vars =>
        [\A t \in Threads, v \in States : Access(t, v) => Word(t)' = v]_vars
  <2> SUFFICES ASSUME SlotsInv, NEW t \in Threads, NEW v \in States, Access(t, v)
               PROVE Word(t)' = v
    OBVIOUS
  <2>1. viewBuf[t] = buf /\ buf \in Bufs /\ slot[t] \in 1 .. len /\ slot[t] \in SlotIds
    BY SlotsAssumption
    DEF Access, SlotsInv, TypeOK, SlotIds, SlotInv, BufferInv, ViewInv, OwnerPcs, SlicePcs,
        ScanPcs, ReadPcs
  <2> QED BY <2>1 DEF Access, SetCell, Word, SlotsInv, TypeOK, dataVars
<1> QED BY <1>1, SlotsInvariance, PTL DEF Spec, StoresLand

\* What a step does to the words of the threads: nothing, or one operation of the
\* table.  Growth and the free list do not show in it.
LEMMA WordStep ==
  ASSUME SlotsInv, SlotsInv', [Next]_vars
  PROVE  \/ \A u \in Threads : Word(u)' = Word(u)
         \/ \E t \in Threads :
              /\ \A u \in Threads \ {t} : Word(u)' = Word(u)
              /\ \/ Word(t) = NONE /\ Word(t)' = InitialState
                 \/ Word(t) # NONE /\ Word(t)' \in States \cup {NONE}
<1> DEFINE Same(u) == Word(u)' = Word(u)
           Changed(t) == \/ Word(t) = NONE /\ Word(t)' = InitialState
                         \/ Word(t) # NONE /\ Word(t)' \in States \cup {NONE}
<1>0. TypeOK /\ TypeOK'
  BY DEF SlotsInv
<1> USE <1>0, SlotsAssumption DEF TypeOK, SlotIds, SetPc, SetSlot, dataVars, viewVars
<1>1. ASSUME NEW t \in Threads, Alloc(t) \/ Dealloc(t) PROVE \A u \in Threads : Same(u)
  BY <1>1 DEF Alloc, Dealloc, LockForWriting, Word
<1>2. ASSUME NEW t \in Threads, PopFreeSlot(t) PROVE \A u \in Threads : Same(u)
  BY <1>2 DEF PopFreeSlot, Word, SlotsInv, SlotInv, CellInv
<1>3. ASSUME NEW t \in Threads, AllocFromFreeSlot(t)
      PROVE (\A u \in Threads \ {t} : Same(u)) /\ Changed(t)
  <2>1. buf \in Bufs /\ slot[t] \in 1 .. len /\ mem[buf][slot[t]] = NONE
    BY <1>3 DEF AllocFromFreeSlot, SlotsInv, BufferInv, SlotInv, CellInv, OwnerPcs
  <2>2. \A u \in Threads \ {t} : slot[u] # slot[t]
    BY <2>1 DEF SlotsInv, OwnersDiffer
  <2> QED BY <1>3, <2>1, <2>2 DEF AllocFromFreeSlot, SetCell, Word
<1>4. ASSUME NEW t \in Threads, PushInPlace(t) PROVE \A u \in Threads : Same(u)
  <2>1. buf \in Bufs /\ len + 1 \in SlotIds /\ slot[t] = 0
    BY <1>4 DEF PushInPlace, SlotsInv, BufferInv, SlotInv
  <2> QED BY <1>4, <2>1 DEF PushInPlace, SetCell, Word
<1>5. ASSUME NEW t \in Threads, PublishLen(t)
      PROVE (\A u \in Threads \ {t} : Same(u)) /\ Changed(t)
  <2>1. slot[t] = len + 1 /\ mem[buf][slot[t]] = InitialState
    BY <1>5 DEF PublishLen, SlotsInv, SlotInv, CellInv
  <2>2. \A u \in Threads \ {t} : slot[u] # len + 1
    BY <2>1 DEF SlotsInv, OwnersDiffer
  <2> QED BY <1>5, <2>1, <2>2 DEF PublishLen, Word
<1>6. ASSUME NEW t \in Threads, PushPanics(t) \/ RequestModify(t)
      PROVE \A u \in Threads : Same(u)
  BY <1>6 DEF PushPanics, PanicTooManyThreads, RequestModify, Word
<1>7. ASSUME NEW t \in Threads, ModifyCurData(t)
      PROVE (\A u \in Threads : Same(u)) \/ ((\A u \in Threads \ {t} : Same(u)) /\ Changed(t))
  <2>1. CASE PanicTooManyThreads(t)
    BY <2>1 DEF PanicTooManyThreads, Word
  <2>2. CASE len # SLOT_ID_MAX /\ Reallocate(t)
    <3>1. slot[t] = 0 /\ slot'[t] = len + 1 /\ len' = len + 1 /\ len + 1 \in SlotIds
      BY <1>7, <2>2 DEF ModifyCurData, Reallocate, SlotsInv, SlotInv
    <3>2. buf' \in Bufs /\ mem'[buf'] = Grown
      BY <2>2 DEF Reallocate
    <3>3. \A u \in Threads \ {t} : slot'[u] = slot[u] /\ slot[u] # len + 1
      BY <2>2, <3>1 DEF Reallocate, SlotsInv, OwnersDiffer
    <3> QED BY <3>1, <3>2, <3>3 DEF Grown, Word
  <2> QED BY <1>7, <2>1, <2>2 DEF ModifyCurData
<1>8. ASSUME NEW t \in Threads, VacateSlot(t)
      PROVE (\A u \in Threads \ {t} : Same(u)) /\ Changed(t)
  <2>1. buf \in Bufs /\ slot[t] \in 1 .. len /\ mem[buf][slot[t]] \in States
    BY <1>8 DEF VacateSlot, SlotsInv, BufferInv, SlotInv, CellInv, OwnerPcs, DeallocPcs
  <2>2. \A u \in Threads \ {t} : slot[u] # slot[t]
    BY <2>1 DEF SlotsInv, OwnersDiffer
  <2> QED BY <1>8, <2>1, <2>2 DEF VacateSlot, SetCell, Word
<1>9. ASSUME NEW t \in Threads, ReleaseSlot(t) PROVE \A u \in Threads : Same(u)
  BY <1>9 DEF ReleaseSlot, Word, SlotsInv, CellInv
<1>10. ASSUME NEW t \in Threads, NEW v \in States, Access(t, v)
       PROVE (\A u \in Threads \ {t} : Same(u)) /\ Changed(t)
  <2>1. /\ viewBuf[t] = buf /\ buf \in Bufs /\ slot[t] \in 1 .. len
        /\ mem[buf][slot[t]] \in States
    BY <1>10
    DEF Access, SlotsInv, BufferInv, SlotInv, CellInv, ViewInv, OwnerPcs, SlicePcs, ScanPcs, ReadPcs
  <2>2. \A u \in Threads \ {t} : slot[u] # slot[t]
    BY <2>1 DEF SlotsInv, OwnersDiffer
  <2> QED BY <1>10, <2>1, <2>2 DEF Access, SetCell, Word
<1>11. ASSUME NEW t \in Threads,
              ReadLock(t) \/ CurDataAsSlice(t) \/ ScanSlot(t) \/ DropReadGuard(t)
       PROVE \A u \in Threads : Same(u)
  BY <1>11 DEF ReadLock, CurDataAsSlice, ScanSlot, DropReadGuard, Word
<1>12. ASSUME UNCHANGED vars PROVE \A u \in Threads : Same(u)
  BY <1>12 DEF vars, Word
<1> HIDE DEF Same, Changed
<1>13. (\A u \in Threads : Same(u))
         \/ \E t \in Threads : (\A u \in Threads \ {t} : Same(u)) /\ Changed(t)
  <2>1. CASE Next
    <3>1. PICK t \in Threads :
            \/ Alloc(t) \/ Dealloc(t) \/ WriterStep(t) \/ ReadLock(t) \/ CurDataAsSlice(t)
            \/ (\E v \in States : Access(t, v)) \/ ScanSlot(t) \/ DropReadGuard(t)
      BY <2>1 DEF Next
    <3>2. CASE WriterStep(t)
      BY <3>2, <1>2, <1>3, <1>4, <1>5, <1>6, <1>7, <1>8, <1>9 DEF WriterStep
    <3>3. CASE \E v \in States : Access(t, v)
      BY <3>3, <1>10
    <3> QED BY <3>1, <3>2, <3>3, <1>1, <1>11
  <2> QED BY <2>1, <1>12
<1> QED BY <1>13 DEF Same, Changed

\* The slot storage implements the table of words that RcuCore is written with.
THEOREM SlotsImplementTable == Spec => ImplementsTable
<1>1. Init => Table!Init
  BY DEF Init, Table!Init, Word
<1>2. SlotsInv /\ SlotsInv' /\ [Next]_vars => [Table!Next]_([t \in Threads |-> Word(t)])
  <2> SUFFICES ASSUME SlotsInv, SlotsInv', [Next]_vars
               PROVE [Table!Next]_([t \in Threads |-> Word(t)])
    OBVIOUS
  <2>1. CASE \A u \in Threads : Word(u)' = Word(u)
    BY <2>1
  <2>2. ASSUME NEW t \in Threads,
               \A u \in Threads \ {t} : Word(u)' = Word(u),
               \/ Word(t) = NONE /\ Word(t)' = InitialState
               \/ Word(t) # NONE /\ Word(t)' \in States \cup {NONE}
        PROVE Table!Next
    <3>1. [u \in Threads |-> Word(u)]' = [[u \in Threads |-> Word(u)] EXCEPT ![t] = Word(t)']
      BY <2>2
    <3>2. CASE Word(t) = NONE /\ Word(t)' = InitialState
      BY <3>1, <3>2 DEF Table!Next, Table!Take, Table!Set
    <3>3. CASE Word(t) # NONE /\ Word(t)' \in States
      BY <3>1, <3>3 DEF Table!Next, Table!Put, Table!Set
    <3>4. CASE Word(t) # NONE /\ Word(t)' = NONE
      BY <3>1, <3>4 DEF Table!Next, Table!Give, Table!Set
    <3> QED BY <2>2, <3>2, <3>3, <3>4
  <2> QED BY <2>1, <2>2, WordStep
<1> QED BY <1>1, <1>2, SlotsInvariance, PTL DEF Spec, ImplementsTable, Table!Spec
=============================================================================
