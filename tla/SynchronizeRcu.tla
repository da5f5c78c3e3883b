--------------------------- MODULE SynchronizeRcu ---------------------------
(***************************************************************************)
(* synchronize_rcu (src/rcu_core/mod.rs): how concurrent callers share     *)
(* grace periods through GP_STARTED_COUNTER and GP_FINISHED_COUNTER, how   *)
(* GP_SERIALIZATION_MUTEX lets one of them work at a time, and how the     *)
(* counters are reset when they are used up.                               *)
(*                                                                         *)
(* A step runs to the next access of something shared.  The grace period   *)
(* itself (synchronize_rcu_serialized) is what module GracePeriod says of  *)
(* it, a beginning and an end that waits for the uses of unlinked data     *)
(* there were at the beginning; module RcuCore implements it.  before is   *)
(* a history variable: what a call has to wait for.                        *)
(*                                                                         *)
(* tokio's Mutex and RwLock are fair: requests are granted in the order    *)
(* they were made, so that a waiting writer holds back later readers.      *)
(***************************************************************************)
EXTENDS Naturals, Sequences

CONSTANTS
  Tasks,       \* tasks that call synchronize_rcu
  GP_ID_MAX,   \* GpId::MAX: 255 in test mode, 2^64 - 1 otherwise
  CancelAt,    \* await points at which the future may be dropped
  Uses         \* uses of unlinked data by read-side sections

AwaitPcs == {"read_lock", "write_lock", "reset_wait", "mutex", "gp"}

ASSUME SyncAssumption ==
  /\ GP_ID_MAX \in Nat /\ GP_ID_MAX >= 2
  /\ CancelAt \subseteq AwaitPcs

VARIABLES
  started,    \* GP_STARTED_COUNTER
  finished,   \* GP_FINISHED_COUNTER
  pc,         \* pc[t]: where t is in synchronize_rcu ("idle": not in it)
  id,         \* id[t]: my_gp_counter (0: none yet)
  sampled,    \* gp_started_counter of the task that holds the mutex
  rwQueue,    \* tasks waiting for GP_COUNTERS_RESET_SYNC_LOCK, first first
  mutexQueue, \* tasks waiting for GP_SERIALIZATION_MUTEX, first first
  notified,   \* notified[t]: t's subscription to GP_COUNTERS_RESET_DONE fired
  uses,       \* uses of unlinked data that are going on
  gpWaits,    \* those that the running grace period waits for
  before      \* before[t]: those that were going on when t made its call

vars == <<started, finished, pc, id, sampled, rwQueue, mutexQueue, notified,
          uses, gpWaits, before>>

useVars == <<uses, gpWaits, before>>

MutexPcs  == {"check", "load", "begin", "gp", "publish", "unlock"}
HasIdPcs  == {"got_id", "mutex"} \cup MutexPcs

\* Fault: the read guard is dropped as soon as the task has its id.
ReadPcsUntilId == {"inc", "lead", "slave", "subscribed"}

\* Where a task holds the reset lock for reading, and for writing.
ReadPcs   == {"inc", "lead", "slave", "subscribed"} \cup HasIdPcs
WritePcs  == {"reset_started", "reset_finished", "reset_unlock"}
Pcs == ReadPcs \cup WritePcs
         \cup {"idle", "read_lock", "write_lock", "reset_notify", "reset_wake", "reset_wait", "done"}

TaskStateOK ==
  /\ started \in 0 .. GP_ID_MAX
  /\ finished \in 0 .. GP_ID_MAX
  /\ pc \in [Tasks -> Pcs]
  /\ id \in [Tasks -> 0 .. GP_ID_MAX - 1]
  /\ sampled \in 0 .. GP_ID_MAX
  /\ notified \in [Tasks -> BOOLEAN]
  /\ uses \subseteq Uses
  /\ gpWaits \subseteq uses
  /\ before \in [Tasks -> SUBSET uses]

TypeOK == TaskStateOK /\ rwQueue \in Seq(Tasks) /\ mutexQueue \in Seq(Tasks)

Init ==
  /\ started = 0
  /\ finished = 0
  /\ pc = [t \in Tasks |-> "idle"]
  /\ id = [t \in Tasks |-> 0]
  /\ sampled = 0
  /\ rwQueue = <<>>
  /\ mutexQueue = <<>>
  /\ notified = [t \in Tasks |-> FALSE]
  /\ uses = {}
  /\ gpWaits = {}
  /\ before = [t \in Tasks |-> {}]

-----------------------------------------------------------------------------
(***************************************************************************)
(* The locks.                                                              *)
(***************************************************************************)
SetPc(t, to) == pc' = [pc EXCEPT ![t] = to]

IsFirst(t, queue) == queue # <<>> /\ Head(queue) = t

\* A task waits in a queue at most once.
Place(t, queue) == CHOOSE i \in 1 .. Len(queue) : queue[i] = t

Without(t, queue) ==
  IF \A i \in 1 .. Len(queue) : queue[i] # t THEN queue
  ELSE SubSeq(queue, 1, Place(t, queue) - 1) \o SubSeq(queue, Place(t, queue) + 1, Len(queue))

\* Nobody holds the lock for writing, for reading, or nobody holds the mutex.
NoWriter == \A u \in Tasks : pc[u] \notin WritePcs
NoReader == \A u \in Tasks : pc[u] \notin ReadPcs

\* Fault: the mutex guard does not live across the grace period.
MutexFreeInGp == \A u \in Tasks : pc[u] \notin MutexPcs \ {"gp"}

MutexFree == \A u \in Tasks : pc[u] \notin MutexPcs

-----------------------------------------------------------------------------
(***************************************************************************)
(* Getting a grace period id.                                              *)
(***************************************************************************)

Call(t) ==
  /\ pc[t] = "idle"
  /\ SetPc(t, "read_lock")
  /\ rwQueue' = Append(rwQueue, t)
  /\ before' = [before EXCEPT ![t] = uses]
  /\ UNCHANGED <<started, finished, id, sampled, mutexQueue, notified, uses, gpWaits>>

ReadLocked(t) ==
  /\ pc[t] = "read_lock"
  /\ IsFirst(t, rwQueue) /\ NoWriter
  /\ rwQueue' = Tail(rwQueue)
  /\ SetPc(t, "inc")
  /\ UNCHANGED <<started, finished, id, sampled, mutexQueue, notified, useVars>>

\* Fault: the increment is not checked.
IncUnchecked(t) ==
  /\ pc[t] = "inc"
  /\ started' = started + 1
  /\ SetPc(t, "got_id")
  /\ id' = [id EXCEPT ![t] = started + 1]
  /\ UNCHANGED <<finished, sampled, rwQueue, mutexQueue, notified, useVars>>

\* Fault: the task that reaches the maximum takes itself for a slave.
IncWithoutLeader(t) ==
  /\ pc[t] = "inc"
  /\ IF started + 1 >= GP_ID_MAX
       THEN SetPc(t, "slave") /\ started' = GP_ID_MAX /\ id' = id
       ELSE /\ started' = started + 1
            /\ SetPc(t, "got_id") /\ id' = [id EXCEPT ![t] = started + 1]
  /\ UNCHANGED <<finished, sampled, rwQueue, mutexQueue, notified, useVars>>

\* try_update of GP_STARTED_COUNTER.  Reaching the maximum makes the task the
\* leader of a reset; finding the maximum makes it a slave.
IncStarted(t) ==
  /\ pc[t] = "inc"
  /\ IF started = GP_ID_MAX
       THEN SetPc(t, "slave") /\ UNCHANGED <<started, id>>
       ELSE /\ started' = started + 1
            /\ IF started + 1 = GP_ID_MAX
                 THEN SetPc(t, "lead") /\ id' = id
                 ELSE SetPc(t, "got_id") /\ id' = [id EXCEPT ![t] = started + 1]
  /\ UNCHANGED <<finished, sampled, rwQueue, mutexQueue, notified, useVars>>

-----------------------------------------------------------------------------
(***************************************************************************)
(* Resetting the counters.                                                 *)
(***************************************************************************)

\* The leader gives up its read guard and asks for the write guard.
LeaderUnlock(t) ==
  /\ pc[t] = "lead"
  /\ SetPc(t, "write_lock")
  /\ rwQueue' = Append(rwQueue, t)
  /\ UNCHANGED <<started, finished, id, sampled, mutexQueue, notified, useVars>>

WriteLocked(t) ==
  /\ pc[t] = "write_lock"
  /\ IsFirst(t, rwQueue) /\ NoWriter /\ NoReader
  /\ rwQueue' = Tail(rwQueue)
  /\ SetPc(t, "reset_started")
  /\ UNCHANGED <<started, finished, id, sampled, mutexQueue, notified, useVars>>

ResetStarted(t) ==
  /\ pc[t] = "reset_started"
  /\ started' = 0
  /\ SetPc(t, "reset_finished")
  /\ UNCHANGED <<finished, id, sampled, rwQueue, mutexQueue, notified, useVars>>

\* Fault: the finished counter keeps its old value.
ResetOnlyStarted(t) ==
  /\ pc[t] = "reset_finished"
  /\ SetPc(t, "reset_unlock")
  /\ UNCHANGED <<started, finished, id, sampled, rwQueue, mutexQueue, notified, useVars>>

ResetFinished(t) ==
  /\ pc[t] = "reset_finished"
  /\ finished' = 0
  /\ SetPc(t, "reset_unlock")
  /\ UNCHANGED <<started, id, sampled, rwQueue, mutexQueue, notified, useVars>>

ResetUnlock(t) ==
  /\ pc[t] = "reset_unlock"
  /\ SetPc(t, "reset_notify")
  /\ UNCHANGED <<started, finished, id, sampled, rwQueue, mutexQueue, notified, useVars>>

\* Fault: the leader notifies one slave only.
ResetNotifyOne(t) ==
  LET slaves == {u \in Tasks : pc[u] \in {"subscribed", "reset_wait"}} IN
  /\ pc[t] = "reset_notify"
  /\ IF slaves = {} THEN notified' = notified
     ELSE \E u \in slaves : notified' = [notified EXCEPT ![u] = TRUE]
  /\ SetPc(t, "reset_wake")
  /\ UNCHANGED <<started, finished, id, sampled, rwQueue, mutexQueue, useVars>>

\* GP_COUNTERS_RESET_DONE.notify() has two effects (see module Notify): first
\* its counter completes every subscription there is.
ResetNotify(t) ==
  /\ pc[t] = "reset_notify"
  /\ notified' = [u \in Tasks |-> notified[u] \/ pc[u] \in {"subscribed", "reset_wait"}]
  /\ SetPc(t, "reset_wake")
  /\ UNCHANGED <<started, finished, id, sampled, rwQueue, mutexQueue, useVars>>

\* Then it empties its list, and may complete a slave of the next era, that has
\* subscribed and been polled since: that slave retries before its leader is
\* done.  The leader starts over.
ResetWake(t) ==
  /\ pc[t] = "reset_wake"
  /\ \E linked \in SUBSET {u \in Tasks : pc[u] = "reset_wait"} :
       notified' = [u \in Tasks |-> notified[u] \/ u \in linked]
  /\ SetPc(t, "read_lock")
  /\ rwQueue' = Append(rwQueue, t)
  /\ UNCHANGED <<started, finished, id, sampled, mutexQueue, useVars>>

\* A slave subscribes while it still holds its read guard, then drops it.
SlaveSubscribe(t) ==
  /\ pc[t] = "slave"
  /\ notified' = [notified EXCEPT ![t] = FALSE]
  /\ SetPc(t, "subscribed")
  /\ UNCHANGED <<started, finished, id, sampled, rwQueue, mutexQueue, useVars>>

SlaveUnlock(t) ==
  /\ pc[t] = "subscribed"
  /\ SetPc(t, "reset_wait")
  /\ UNCHANGED <<started, finished, id, sampled, rwQueue, mutexQueue, notified, useVars>>

SlaveRetry(t) ==
  /\ pc[t] = "reset_wait" /\ notified[t]
  /\ notified' = [notified EXCEPT ![t] = FALSE]
  /\ SetPc(t, "read_lock")
  /\ rwQueue' = Append(rwQueue, t)
  /\ UNCHANGED <<started, finished, id, sampled, mutexQueue, useVars>>

-----------------------------------------------------------------------------
(***************************************************************************)
(* Doing the work, or finding it done.                                     *)
(***************************************************************************)

RequestMutex(t) ==
  /\ pc[t] = "got_id"
  /\ SetPc(t, "mutex")
  /\ mutexQueue' = Append(mutexQueue, t)
  /\ UNCHANGED <<started, finished, id, sampled, rwQueue, notified, useVars>>

MutexLocked(t) ==
  /\ pc[t] = "mutex"
  /\ IsFirst(t, mutexQueue) /\ MutexFree
  /\ mutexQueue' = Tail(mutexQueue)
  /\ SetPc(t, "check")
  /\ UNCHANGED <<started, finished, id, sampled, rwQueue, notified, useVars>>

\* Fault: the look at the finished counter is missing.
CheckNothing(t) ==
  /\ pc[t] = "check"
  /\ SetPc(t, "load")
  /\ UNCHANGED <<started, finished, id, sampled, rwQueue, mutexQueue, notified, useVars>>

\* Somebody else's grace period was good for this call too: return at once.
CheckFinished(t) ==
  /\ pc[t] = "check"
  /\ SetPc(t, IF finished >= id[t] THEN "done" ELSE "load")
  /\ UNCHANGED <<started, finished, id, sampled, rwQueue, mutexQueue, notified, useVars>>

LoadStarted(t) ==
  /\ pc[t] = "load"
  /\ sampled' = started
  /\ SetPc(t, "begin")
  /\ UNCHANGED <<started, finished, id, rwQueue, mutexQueue, notified, useVars>>

\* synchronize_rcu_serialized begins (GracePeriod!Begin).
GpBegin(t) ==
  /\ pc[t] = "begin"
  /\ gpWaits' = uses
  /\ SetPc(t, "gp")
  /\ UNCHANGED <<started, finished, id, sampled, rwQueue, mutexQueue, notified, uses, before>>

\* It ends (GracePeriod!End).
GpEnd(t) ==
  /\ pc[t] = "gp"
  /\ gpWaits = {}
  /\ SetPc(t, "publish")
  /\ UNCHANGED <<started, finished, id, sampled, rwQueue, mutexQueue, notified, useVars>>

\* Fault: the started counter is read again after the grace period.
PublishLatest(t) ==
  /\ pc[t] = "publish"
  /\ finished' = started
  /\ SetPc(t, "unlock")
  /\ UNCHANGED <<started, id, sampled, rwQueue, mutexQueue, notified, useVars>>

PublishFinished(t) ==
  /\ pc[t] = "publish"
  /\ finished' = sampled
  /\ SetPc(t, "unlock")
  /\ UNCHANGED <<started, id, sampled, rwQueue, mutexQueue, notified, useVars>>

\* Both guards are dropped.
Unlock(t) ==
  /\ pc[t] = "unlock"
  /\ SetPc(t, "done")
  /\ UNCHANGED <<started, finished, id, sampled, rwQueue, mutexQueue, notified, useVars>>

\* What a call leaves behind when it is over.
Forget(t) ==
  /\ SetPc(t, "idle")
  /\ id' = [id EXCEPT ![t] = 0]
  /\ notified' = [notified EXCEPT ![t] = FALSE]
  /\ before' = [before EXCEPT ![t] = {}]
  /\ gpWaits' = IF pc[t] = "gp" THEN {} ELSE gpWaits
  /\ uses' = uses

Return(t) ==
  /\ pc[t] = "done"
  /\ Forget(t)
  /\ UNCHANGED <<started, finished, sampled, rwQueue, mutexQueue>>

\* The future is dropped at an await: its guards and its places in the queues
\* go, the counters stay.
Cancel(t) ==
  /\ pc[t] \in CancelAt
  /\ Forget(t)
  /\ rwQueue' = Without(t, rwQueue)
  /\ mutexQueue' = Without(t, mutexQueue)
  /\ UNCHANGED <<started, finished, sampled>>

-----------------------------------------------------------------------------
(***************************************************************************)
(* Readers and writers elsewhere in the program.                           *)
(***************************************************************************)

\* Data that sections use is unlinked.
Unlink(S) ==
  /\ uses' = uses \cup S
  /\ UNCHANGED <<started, finished, pc, id, sampled, rwQueue, mutexQueue, notified, gpWaits, before>>

\* Sections end.
EndUses(S) ==
  /\ uses' = uses \ S
  /\ gpWaits' = gpWaits \ S
  /\ before' = [t \in Tasks |-> before[t] \ S]
  /\ UNCHANGED <<started, finished, pc, id, sampled, rwQueue, mutexQueue, notified>>

-----------------------------------------------------------------------------
GetId(t) == \/ ReadLocked(t) \/ IncStarted(t)
            \/ LeaderUnlock(t) \/ WriteLocked(t) \/ ResetStarted(t)
            \/ ResetFinished(t) \/ ResetUnlock(t) \/ ResetNotify(t) \/ ResetWake(t)
            \/ SlaveSubscribe(t) \/ SlaveUnlock(t) \/ SlaveRetry(t)

Work(t) == \/ RequestMutex(t) \/ MutexLocked(t) \/ CheckFinished(t)
           \/ LoadStarted(t) \/ GpBegin(t) \/ GpEnd(t)
           \/ PublishFinished(t) \/ Unlock(t) \/ Return(t)

Caller(t) == Call(t) \/ GetId(t) \/ Work(t) \/ Cancel(t)

Next == \/ \E t \in Tasks : Caller(t)
        \/ \E S \in SUBSET Uses : Unlink(S) \/ EndUses(S)

Spec == Init /\ [][Next]_vars

\* A task that can go on eventually does; nothing makes a task call again.
\* Read-side sections are synchronous callbacks, which end.  A
\* leader starts over after its reset, and can be made the leader again by
\* callers that use all the ids up before it gets one: with 2^64 ids this does
\* not go on forever, and the last conjunct says so.
LiveSpec ==
  /\ Spec
  /\ \A t \in Tasks : WF_vars(GetId(t) \/ Work(t))
  /\ \A u \in Uses : WF_vars(EndUses({u}))
  /\ <>[][\A t \in Tasks : ~ResetStarted(t)]_vars

-----------------------------------------------------------------------------
(***************************************************************************)
(* Properties.                                                             *)
(***************************************************************************)

\* What synchronize_rcu promises (mod.rs:127) and batching must not break: when
\* a call returns, every use of data that was unlinked before the call is over,
\* be it by its own grace period or another caller's, across resets of the
\* counters and whatever futures are dropped.
ReturnsSafely == \A t \in Tasks : pc[t] \in {"unlock", "done"} => before[t] = {}

\* "once the reset sync lock is write-locked, every other waiter" has no grace
\* period id in use: a reset never makes an id of the old era comparable with
\* counters of the new one.  Besides the two states the comment goes on to name
\* (waiting for the read guard, waiting for the reset) the previous leader may
\* still be in its notify; it has no id either.
ResetFindsNoId ==
  \A t, u \in Tasks : pc[t] \in WritePcs /\ u # t =>
    pc[u] \in {"idle", "read_lock", "write_lock", "reset_wait", "reset_notify", "reset_wake", "done"}

\* "the gp started counter is already at max. in this case, there must be an
\* ongoing reset operation happening": somebody is on the way to reset it.
ResetHasLeader ==
  started = GP_ID_MAX => \E t \in Tasks : pc[t] \in {"lead", "write_lock", "reset_started"}

\* What a caller at an await is waiting for has not happened yet.  The grace
\* period is left out: it waits for read-side sections, which end.
Blocked(t) ==
  \/ pc[t] = "read_lock"  /\ ~(IsFirst(t, rwQueue) /\ NoWriter)
  \/ pc[t] = "write_lock" /\ ~(IsFirst(t, rwQueue) /\ NoWriter /\ NoReader)
  \/ pc[t] = "reset_wait" /\ ~notified[t]
  \/ pc[t] = "mutex"      /\ ~(IsFirst(t, mutexQueue) /\ MutexFree)

\* The callers never all wait for each other, be it for the two locks, whose
\* queues mix readers with the leader of a reset, or for the notification of a
\* reset: as long as there is a call, some caller can go on.
NotAllBlocked ==
  (\E t \in Tasks : pc[t] # "idle") => \E t \in Tasks : pc[t] # "idle" /\ ~Blocked(t)

\* No grace period is run in vain: what it publishes is above what was
\* published before, although both counters may move while it runs.
GpsAdvance ==
  [][\A t \in Tasks : pc[t] = "publish" /\ pc'[t] = "unlock" => finished' > finished]_vars

\* The callers use synchronize_rcu_serialized as its name demands: one at a
\* time, each grace period with a beginning and an end of its own.  It may
\* then be replaced by RcuCore, which implements the same specification.
Gp == INSTANCE GracePeriod
        WITH running <- \E t \in Tasks : pc[t] = "gp", waits <- gpWaits
RunsSerialized == Gp!Spec

\* Every call returns: neither the mutex, nor the reset lock, nor the wait for
\* the reset's notification holds a caller forever.
CallsReturn == \A t \in Tasks : pc[t] # "idle" ~> pc[t] = "idle"

-----------------------------------------------------------------------------
(***************************************************************************)
(* The inductive invariant behind ReturnsSafely and ResetFindsNoId.       *)
(***************************************************************************)

LockInv ==
  /\ \A t, u \in Tasks : pc[t] \in WritePcs /\ u # t => pc[u] \notin ReadPcs \cup WritePcs
  /\ \A t, u \in Tasks : pc[t] \in MutexPcs /\ pc[u] \in MutexPcs => t = u

\* The published counter is never ahead of the one ids are taken from, except
\* between the two stores of a reset.
CounterInv ==
  /\ finished <= started \/ \E t \in Tasks : pc[t] = "reset_finished"
  /\ \A t \in Tasks : pc[t] \in HasIdPcs => 1 <= id[t] /\ id[t] <= started

\* What the counters tell a task that has an id is true.
FinishedInv == \A t \in Tasks :
  pc[t] \in HasIdPcs /\ id[t] <= finished => before[t] = {}

\* What the task that works is going to publish will be true.
WorkerInv == \A p \in Tasks :
  /\ pc[p] \in {"load", "begin", "gp", "publish"} => finished < id[p]
  /\ pc[p] \in {"begin", "gp", "publish"} => id[p] <= sampled /\ sampled <= started
  /\ \A t \in Tasks : pc[t] \in HasIdPcs /\ id[t] <= sampled =>
       /\ pc[p] = "gp" => before[t] \subseteq gpWaits
       /\ pc[p] = "publish" => before[t] = {}

SyncInv == TaskStateOK /\ LockInv /\ CounterInv /\ FinishedInv /\ WorkerInv
             /\ ReturnsSafely

-----------------------------------------------------------------------------
(***************************************************************************)
(* The inductive invariant behind NotAllBlocked.                           *)
(***************************************************************************)

\* The queue holds the tasks that are at one of the places in at, each once.
QueueOf(queue, at) ==
  /\ \A i \in 1 .. Len(queue) : pc[queue[i]] \in at
  /\ \A t \in Tasks : pc[t] \in at => \E i \in 1 .. Len(queue) : queue[i] = t
  /\ \A i, j \in 1 .. Len(queue) : queue[i] = queue[j] => i = j

\* A task that has made itself a slave has a leader, and one that waits for
\* the reset's notification has a leader that is still to give it.
LeaderPcs == {"lead", "write_lock", "reset_notify"} \cup WritePcs

SlaveInv == \A t \in Tasks :
  /\ pc[t] \in {"slave", "subscribed"} => started = GP_ID_MAX
  /\ pc[t] = "reset_wait" /\ ~notified[t] => \E u \in Tasks : pc[u] \in LeaderPcs

ProgressInv ==
  /\ SlaveInv
  /\ QueueOf(rwQueue, {"read_lock", "write_lock"})
  /\ QueueOf(mutexQueue, {"mutex"})
=============================================================================
