------------------------ MODULE ThreadStorageSlots -------------------------
(***************************************************************************)
(* The growable array of per-thread slots                                  *)
(* (src/rcu_core/per_thread_storage/): allocation from the free list, by   *)
(* appending in place and by moving to a bigger buffer, deallocation, and  *)
(* the two kinds of readers: an owner that writes its slot and a waiter    *)
(* that scans all of them.                                                 *)
(*                                                                         *)
(* write_lock is held from a lock action to the action that returns to     *)
(* "out" or "owner".  cur_data_lock is parking_lot's RwLock: a writer that *)
(* has asked for it keeps new readers out and waits for the old ones.      *)
(* Buffers are moved to any buffer that is not in use.  The free list is a *)
(* set: which free slot is popped does not matter.  A thread that panics   *)
(* takes no further step.                                                  *)
(***************************************************************************)
EXTENDS Integers

CONSTANTS
  Threads,
  Bufs,             \* places the array can be allocated at
  States,           \* encoded thread states
  InitialState,     \* the state a slot is allocated with
  NONE,             \* NONE_ENCODED_VALUE
  NoBuf,            \* "no buffer"
  InitialCapacities,\* num_cpus + 1, on the machines considered
  SLOT_ID_MAX       \* how many slots a ThreadStorageSlotId can tell apart

ASSUME SlotsAssumption ==
  /\ InitialState \in States
  /\ NONE \notin States
  /\ NoBuf \notin Bufs
  /\ InitialCapacities \subseteq Nat \ {0}
  /\ SLOT_ID_MAX \in Nat \ {0}

VARIABLES
  buf, len, cap,    \* cur_data
  mem,              \* mem[b][i]: slot i of buffer b (meaningless beyond len)
  live,             \* buffers that are allocated
  free,             \* free_slots
  poisoned,         \* write_lock was poisoned by a panic
  pc,               \* pc[t]: what t is doing
  slot,             \* slot[t]: the slot t owns or is about to own (0: none)
  viewBuf, viewLen, \* the slice t got from its read guard
  pos,              \* next slot of the scan
  looked            \* history: threads whose word the scan has looked at

dataVars == <<buf, len, cap>>
scanVars == <<pos, looked>>
viewVars == <<viewBuf, viewLen, scanVars>>
vars == <<dataVars, mem, live, free, poisoned, pc, slot, viewVars>>

SlotIds == 1 .. SLOT_ID_MAX
Values  == States \cup {NONE}

AllocPcs   == {"alloc", "reuse", "len", "modify"}
DeallocPcs == {"dealloc", "release"}
WritePcs   == AllocPcs \cup DeallocPcs          \* write_lock is held
SlicePcs   == {"access", "scan"}                \* a slice is in use
ScanPcs    == {"scan_lock", "scan"}
ReadPcs    == {"access_lock", "access"} \cup ScanPcs   \* cur_data_lock is held
Pcs == {"out", "owner", "dead"} \cup WritePcs \cup ReadPcs

TypeOK ==
  /\ buf \in Bufs \cup {NoBuf}
  /\ len \in 0 .. SLOT_ID_MAX
  /\ cap \in Nat
  /\ mem \in [Bufs -> [SlotIds -> Values]]
  /\ live \subseteq Bufs
  /\ free \subseteq SlotIds
  /\ poisoned \in BOOLEAN
  /\ pc \in [Threads -> Pcs]
  /\ slot \in [Threads -> SlotIds \cup {0}]
  /\ viewBuf \in [Threads -> Bufs \cup {NoBuf}]
  /\ viewLen \in [Threads -> 0 .. SLOT_ID_MAX]
  /\ pos \in 1 .. SLOT_ID_MAX + 1
  /\ looked \subseteq Threads

Init ==
  /\ buf = NoBuf /\ len = 0 /\ cap = 0
  /\ mem = [b \in Bufs |-> [i \in SlotIds |-> NONE]]
  /\ live = {}
  /\ free = {}
  /\ poisoned = FALSE
  /\ pc = [t \in Threads |-> "out"]
  /\ slot = [t \in Threads |-> 0]
  /\ viewBuf = [t \in Threads |-> NoBuf]
  /\ viewLen = [t \in Threads |-> 0]
  /\ pos = 1
  /\ looked = {}

SetPc(t, to) == pc' = [pc EXCEPT ![t] = to]
SetSlot(t, i) == slot' = [slot EXCEPT ![t] = i]
SetCell(b, i, v) == mem' = [mem EXCEPT ![b][i] = v]

\* The word of thread t, as a scan of the whole array would find it.
Word(t) == IF slot[t] \in 1 .. len THEN mem[buf][slot[t]] ELSE NONE

WriteLockFree == \A u \in Threads : pc[u] \notin WritePcs
NoWriter == \A u \in Threads : pc[u] # "modify"
NoReader == \A u \in Threads : pc[u] \notin ReadPcs
NoScan   == \A u \in Threads : pc[u] \notin ScanPcs

-----------------------------------------------------------------------------
(***************************************************************************)
(* Allocation.                                                             *)
(***************************************************************************)

\* write_lock.lock().unwrap(), on the way to pc "alloc" or "dealloc".
LockForWriting(t, to) ==
  /\ WriteLockFree
  /\ SetPc(t, IF poisoned THEN "dead" ELSE to)
  /\ UNCHANGED <<dataVars, mem, live, free, poisoned, slot, viewVars>>

\* OwnedThreadStorageSlot::alloc, of a thread that has no slot.
Alloc(t) == pc[t] = "out" /\ LockForWriting(t, "alloc")

\* Fault: the free slot is read but not taken off the list.
PeekFreeSlot(t) ==
  /\ pc[t] = "alloc"
  /\ \E i \in free : SetSlot(t, i)
  /\ SetPc(t, "reuse")
  /\ UNCHANGED <<dataVars, mem, live, free, poisoned, viewVars>>

\* A slot is popped from the free list ...
PopFreeSlot(t) ==
  /\ pc[t] = "alloc"
  /\ \E i \in free :
       /\ free' = free \ {i}
       /\ SetSlot(t, i)
  /\ SetPc(t, "reuse")
  /\ UNCHANGED <<dataVars, mem, live, poisoned, viewVars>>

\* ... and gets its initial state in place: alloc_from_free_slot.
AllocFromFreeSlot(t) ==
  /\ pc[t] = "reuse"
  /\ SetCell(buf, slot[t], InitialState)
  /\ SetPc(t, "owner")
  /\ UNCHANGED <<dataVars, live, free, poisoned, slot, viewVars>>

\* There is no free slot but room in the buffer: the new slot is written
\* behind the end ...
PushInPlace(t) ==
  /\ pc[t] = "alloc" /\ free = {}
  /\ len < cap /\ len < SLOT_ID_MAX
  /\ SetCell(buf, len + 1, InitialState)
  /\ SetSlot(t, len + 1)
  /\ SetPc(t, "len")
  /\ UNCHANGED <<dataVars, live, free, poisoned, viewVars>>

\* Fault: the borrowed vector is dropped instead of forgotten.
PublishLenAndDrop(t) ==
  /\ pc[t] = "len"
  /\ len' = len + 1
  /\ live' = live \ {buf}
  /\ SetPc(t, "owner")
  /\ UNCHANGED <<buf, cap, mem, free, poisoned, slot, viewVars>>

\* ... and then the end is moved.
PublishLen(t) ==
  /\ pc[t] = "len"
  /\ len' = len + 1
  /\ SetPc(t, "owner")
  /\ UNCHANGED <<buf, cap, mem, live, free, poisoned, slot, viewVars>>

\* The vector that borrowed the buffer is dropped by the unwinding of a panic:
\* the buffer is freed, cur_data keeps pointing to it.
PanicTooManyThreads(t) ==
  /\ live' = live \ {buf}
  /\ poisoned' = TRUE
  /\ SetPc(t, "dead")
  /\ UNCHANGED <<dataVars, mem, free, slot, viewVars>>

\* try_push(..).expect(..) when there is room but no slot id.
PushPanics(t) ==
  /\ pc[t] = "alloc" /\ free = {}
  /\ len < cap /\ len = SLOT_ID_MAX
  /\ PanicTooManyThreads(t)

\* No buffer yet, or a full one: modify_cur_data asks for cur_data_lock.
RequestModify(t) ==
  /\ pc[t] = "alloc" /\ free = {}
  /\ len >= cap
  /\ SetPc(t, "modify")
  /\ UNCHANGED <<dataVars, mem, live, free, poisoned, slot, viewVars>>

\* The contents of a bigger buffer: the old slots and the new one.
Grown == [i \in SlotIds |-> IF i \in 1 .. len THEN mem[buf][i]
                            ELSE IF i = len + 1 THEN InitialState ELSE NONE]

\* The callback of modify_cur_data: a first buffer, or one of twice the size
\* with the old contents; the old buffer is freed.
Reallocate(t) ==
  /\ \E b \in Bufs \ live :
       /\ buf' = b
       /\ live' = (live \ {buf}) \cup {b}
       /\ mem' = [mem EXCEPT ![b] = Grown]
  /\ len' = len + 1
  /\ IF cap = 0 THEN cap' \in InitialCapacities ELSE cap' = 2 * cap
  /\ SetSlot(t, len + 1)
  /\ SetPc(t, "owner")
  /\ UNCHANGED <<free, poisoned, viewVars>>

\* Fault: the swap does not wait for the readers.
ModifyUnderReaders(t) ==
  /\ pc[t] = "modify"
  /\ IF len = SLOT_ID_MAX THEN PanicTooManyThreads(t) ELSE Reallocate(t)

\* Once the readers are gone: alloc_no_cur_data, or the second half of
\* alloc_no_free_slots_grow_cur_data, where push panics without a slot id left.
ModifyCurData(t) ==
  /\ pc[t] = "modify"
  /\ NoReader
  /\ IF len = SLOT_ID_MAX THEN PanicTooManyThreads(t) ELSE Reallocate(t)

-----------------------------------------------------------------------------
(***************************************************************************)
(* Deallocation, by on_thread_stop or by the thread local's destructor.    *)
(***************************************************************************)

Dealloc(t) == pc[t] = "owner" /\ LockForWriting(t, "dealloc")

\* Fault: a slot is given back with its last state in it.
VacateWithoutStore(t) ==
  /\ pc[t] = "dealloc"
  /\ SetPc(t, "release")
  /\ UNCHANGED <<dataVars, mem, live, free, poisoned, slot, viewVars>>

\* The slot's last store.  A scan that is under way has no more to learn of t.
VacateSlot(t) ==
  /\ pc[t] = "dealloc"
  /\ SetCell(buf, slot[t], NONE)
  /\ looked' = IF \E s \in Threads : pc[s] = "scan" THEN looked \cup {t} ELSE looked
  /\ SetPc(t, "release")
  /\ UNCHANGED <<dataVars, live, free, poisoned, slot, viewBuf, viewLen, pos>>

ReleaseSlot(t) ==
  /\ pc[t] = "release"
  /\ free' = free \cup {slot[t]}
  /\ SetSlot(t, 0)
  /\ SetPc(t, "out")
  /\ UNCHANGED <<dataVars, mem, live, poisoned, viewVars>>

-----------------------------------------------------------------------------
(***************************************************************************)
(* Readers: thread_storage_slot_get_all, by hooks for the thread's own     *)
(* slot and by wait_for_running_threads_to_see_epoch_id for all of them.   *)
(* Only the task that holds GP_SERIALIZATION_MUTEX scans.                  *)
(***************************************************************************)

\* Fault: read_recursive, which overtakes a waiting writer.
ReadLockRecursive(t) ==
  /\ pc[t] = "owner"
  /\ \/ SetPc(t, "access_lock")
     \/ NoScan /\ SetPc(t, "scan_lock")
  /\ UNCHANGED <<dataVars, mem, live, free, poisoned, slot, viewVars>>

\* ThreadStorageSlots::read
ReadLock(t) ==
  /\ pc[t] = "owner"
  /\ NoWriter
  /\ \/ SetPc(t, "access_lock")
     \/ NoScan /\ SetPc(t, "scan_lock")
  /\ UNCHANGED <<dataVars, mem, live, free, poisoned, slot, viewVars>>

\* Deref of the guard: cur_data_as_slice.  What has no slot at this point is
\* vacant for the scan that starts here.
CurDataAsSlice(t) ==
  /\ \/ pc[t] = "access_lock" /\ SetPc(t, "access") /\ UNCHANGED scanVars
     \/ /\ pc[t] = "scan_lock" /\ SetPc(t, "scan")
        /\ looked' = {u \in Threads : Word(u) = NONE}
        /\ pos' = pos
  /\ viewBuf' = [viewBuf EXCEPT ![t] = buf]
  /\ viewLen' = [viewLen EXCEPT ![t] = len]
  /\ UNCHANGED <<dataVars, mem, live, free, poisoned, slot>>

\* A hook's store to the thread's own slot; some hooks store twice.
Access(t, v) ==
  /\ pc[t] = "access"
  /\ SetCell(viewBuf[t], slot[t], v)
  /\ UNCHANGED <<dataVars, live, free, poisoned, pc, slot, viewVars>>

\* Fault: a vacant slot is taken for the end of the array.
ScanUntilVacant(t) ==
  /\ pc[t] = "scan" /\ pos <= viewLen[t]
  /\ pos' = IF mem[viewBuf[t]][pos] = NONE THEN viewLen[t] + 1 ELSE pos + 1
  /\ looked' = looked \cup {u \in Threads : slot[u] = pos}
  /\ UNCHANGED <<dataVars, mem, live, free, poisoned, pc, slot, viewBuf, viewLen>>

\* One slot of a scan that lets it pass.  The scan has looked at the owner if
\* what it read is the owner's word.
ScanSlot(t) ==
  /\ pc[t] = "scan" /\ pos <= viewLen[t]
  /\ pos' = pos + 1
  /\ looked' = looked \cup
       {u \in Threads : slot[u] = pos /\ mem[viewBuf[t]][pos] = Word(u)}
  /\ UNCHANGED <<dataVars, mem, live, free, poisoned, pc, slot, viewBuf, viewLen>>

\* The guard is dropped: a hook is done, or a scan is at its end or has met a
\* slot that does not pass.
DropReadGuard(t) ==
  /\ pc[t] \in SlicePcs
  /\ SetPc(t, "owner")
  /\ viewBuf' = [viewBuf EXCEPT ![t] = NoBuf]
  /\ viewLen' = [viewLen EXCEPT ![t] = 0]
  /\ IF pc[t] = "scan" THEN pos' = 1 /\ looked' = {} ELSE UNCHANGED scanVars
  /\ UNCHANGED <<dataVars, mem, live, free, poisoned, slot>>

-----------------------------------------------------------------------------
\* The steps that hold write_lock, up to its release.
WriterStep(t) ==
  \/ PopFreeSlot(t) \/ AllocFromFreeSlot(t)
  \/ PushInPlace(t) \/ PublishLen(t) \/ PushPanics(t)
  \/ RequestModify(t) \/ ModifyCurData(t)
  \/ VacateSlot(t) \/ ReleaseSlot(t)

Next == \E t \in Threads :
  \/ Alloc(t) \/ Dealloc(t) \/ WriterStep(t)
  \/ ReadLock(t) \/ CurDataAsSlice(t)
  \/ \E v \in States : Access(t, v)
  \/ ScanSlot(t) \/ DropReadGuard(t)

Spec == Init /\ [][Next]_vars

\* A thread inside alloc, dealloc, a hook or a scan gets out of it.
LiveSpec ==
  /\ Spec
  /\ \A t \in Threads : /\ WF_vars(WriterStep(t))
                        /\ WF_vars(CurDataAsSlice(t))
                        /\ WF_vars(DropReadGuard(t))

-----------------------------------------------------------------------------
(***************************************************************************)
(* Properties.                                                             *)
(***************************************************************************)

\* Whoever uses the array uses allocated memory and stays inside it: the slices
\* that read guards hand out, which scans and hooks keep across growth by other
\* threads, and the accesses that alloc and dealloc make under write_lock only
\* ("the slices stored are always valid slices", cur_data_as_slice).
NoDanglingAccess == \A t \in Threads :
  /\ pc[t] \in SlicePcs => viewBuf[t] \in live
  /\ pc[t] = "access" => slot[t] \in 1 .. viewLen[t]
  /\ pc[t] \in {"reuse", "dealloc"} => buf \in live /\ slot[t] \in 1 .. len

\* The same as long as no thread has panicked inside write_lock: growth, reuse
\* and release never pull the array away from under anybody.
SoundAccess == ~poisoned => NoDanglingAccess

\* The two halves of slot ownership (free_slots and OwnedThreadStorageSlot::id).
OwnersDiffer == \A t \in Threads :
  /\ \A u \in Threads : slot[t] # 0 /\ slot[t] = slot[u] => t = u
  /\ slot[t] \notin free
NoSlotLost == \A i \in 1 .. len : i \in free \/ \E t \in Threads : slot[t] = i

\* A slot belongs to one thread or to the free list, never to two of them,
\* through any sequence of alloc, growth, dealloc and reuse, and none is lost.
SlotOwnership == OwnersDiffer /\ NoSlotLost

\* A scan that has run to its end has looked at the word of every thread, at a
\* moment of its own for each, although it follows slot numbers while threads
\* come, go and take over each other's slots behind its back.  This is what the
\* scan of RcuCore, thread by thread, relies on.
ScanLooksAtEveryThread == \A t \in Threads :
  pc[t] = "scan" /\ pos > viewLen[t] => looked = Threads

\* A store by a hook is what the next scan finds: growth never loses one.
StoresLand ==
  [][\A t \in Threads, v \in States : Access(t, v) => Word(t)' = v]_vars

\* The array implements the table of words that RcuCore is written with: a slot
\* appears with its initial state, is changed by its owner only and vanishes at
\* once; growth, reuse and the free list do not show.
Table == INSTANCE SlotTable WITH table <- [t \in Threads |-> Word(t)]
ImplementsTable == Table!Spec

\* Whoever holds write_lock lets go of it: growth waits for the readers, and
\* later readers do not overtake it ("waits for all readers of the current data
\* to finish using it, blocks new readers", modify_cur_data).
WriterFinishes == \A t \in Threads :
  pc[t] \in WritePcs ~> pc[t] \notin WritePcs

-----------------------------------------------------------------------------
(***************************************************************************)
(* The inductive invariant behind these properties.                        *)
(***************************************************************************)

\* Threads whose slot lies inside the array.
OwnerPcs == {"owner", "reuse"} \cup DeallocPcs \cup ReadPcs

LocksInv == \A t, u \in Threads :
  /\ pc[t] \in WritePcs /\ pc[u] \in WritePcs => t = u
  /\ pc[t] \in ScanPcs /\ pc[u] \in ScanPcs => t = u

BufferInv ==
  /\ cap = 0 => len = 0 /\ live = {}
  /\ cap # 0 => buf \in Bufs
  /\ live \subseteq {buf}
  /\ cap # 0 /\ ~poisoned => buf \in live

SlotInv == \A t \in Threads :
  /\ pc[t] \in {"out", "alloc", "modify"} => slot[t] = 0
  /\ pc[t] = "len" => slot[t] = len + 1 /\ len < cap /\ free = {}
  /\ pc[t] = "modify" => len >= cap /\ free = {}
  /\ pc[t] \in OwnerPcs => slot[t] \in 1 .. len
  /\ pc[t] = "dead" => slot[t] \in 0 .. len

FreeInv == free \subseteq 1 .. len

CellInv ==
  /\ \A i \in free : mem[buf][i] = NONE
  /\ \A t \in Threads :
       /\ pc[t] \in {"reuse", "release"} => mem[buf][slot[t]] = NONE
       /\ pc[t] = "len" => mem[buf][slot[t]] = InitialState
       /\ pc[t] \in {"owner", "dealloc"} \cup ReadPcs => mem[buf][slot[t]] \in States

\* A reader's slice is the current array, or was before the end moved on.
ViewInv == \A t \in Threads : pc[t] \in SlicePcs =>
  viewBuf[t] = buf /\ slot[t] <= viewLen[t] /\ viewLen[t] <= len

\* Whom the scan has not looked at it has still ahead of it.
ScanInv ==
  /\ \A t \in Threads : pc[t] = "scan" =>
       /\ pos <= viewLen[t] + 1
       /\ \A u \in Threads \ looked : slot[u] \in pos .. viewLen[t] /\ pc[u] # "release"
  /\ (\A t \in Threads : pc[t] # "scan") => pos = 1

SlotsInv ==
  /\ TypeOK /\ LocksInv /\ BufferInv /\ SlotInv /\ OwnersDiffer /\ NoSlotLost
  /\ FreeInv /\ CellInv /\ ViewInv /\ ScanInv
=============================================================================
