------------------------ MODULE SynchronizeRcuProofs ------------------------
(***************************************************************************)
(* Proofs about SynchronizeRcu, for every set of tasks, every maximum of   *)
(* the counters and every choice of await points at which futures may be   *)
(* dropped.                                                                *)
(***************************************************************************)
EXTENDS SynchronizeRcu, TLAPS

\* The counters stay in range and every task is at a place of the program.
LEMMA TaskStateStep == TaskStateOK /\ [Next]_vars => TaskStateOK'
<1> SUFFICES ASSUME TaskStateOK, [Next]_vars PROVE TaskStateOK'
  OBVIOUS
<1> USE SyncAssumption DEF useVars, TaskStateOK, SetPc, Pcs, ReadPcs, WritePcs, HasIdPcs, MutexPcs
<1>1. ASSUME NEW t \in Tasks, Call(t) PROVE TaskStateOK'
  BY <1>1 DEF Call
<1>2. ASSUME NEW t \in Tasks, ReadLocked(t) PROVE TaskStateOK'
  BY <1>2 DEF ReadLocked
<1>3. ASSUME NEW t \in Tasks, IncStarted(t) PROVE TaskStateOK'
  BY <1>3 DEF IncStarted
<1>4. ASSUME NEW t \in Tasks, LeaderUnlock(t) PROVE TaskStateOK'
  BY <1>4 DEF LeaderUnlock
<1>5. ASSUME NEW t \in Tasks, WriteLocked(t) PROVE TaskStateOK'
  BY <1>5 DEF WriteLocked
<1>6. ASSUME NEW t \in Tasks, ResetStarted(t) PROVE TaskStateOK'
  BY <1>6 DEF ResetStarted
<1>7. ASSUME NEW t \in Tasks, ResetFinished(t) PROVE TaskStateOK'
  BY <1>7 DEF ResetFinished
<1>8. ASSUME NEW t \in Tasks, ResetUnlock(t) PROVE TaskStateOK'
  BY <1>8 DEF ResetUnlock
<1>9. ASSUME NEW t \in Tasks, ResetNotify(t) PROVE TaskStateOK'
  BY <1>9 DEF ResetNotify
<1>24. ASSUME NEW t \in Tasks, ResetWake(t) PROVE TaskStateOK'
  BY <1>24 DEF ResetWake
<1>10. ASSUME NEW t \in Tasks, SlaveSubscribe(t) PROVE TaskStateOK'
  BY <1>10 DEF SlaveSubscribe
<1>11. ASSUME NEW t \in Tasks, SlaveUnlock(t) PROVE TaskStateOK'
  BY <1>11 DEF SlaveUnlock
<1>12. ASSUME NEW t \in Tasks, SlaveRetry(t) PROVE TaskStateOK'
  BY <1>12 DEF SlaveRetry
<1>13. ASSUME NEW t \in Tasks, RequestMutex(t) PROVE TaskStateOK'
  BY <1>13 DEF RequestMutex
<1>14. ASSUME NEW t \in Tasks, MutexLocked(t) PROVE TaskStateOK'
  BY <1>14 DEF MutexLocked
<1>15. ASSUME NEW t \in Tasks, CheckFinished(t) PROVE TaskStateOK'
  BY <1>15 DEF CheckFinished
<1>16. ASSUME NEW t \in Tasks, LoadStarted(t) PROVE TaskStateOK'
  BY <1>16 DEF LoadStarted
<1>17. ASSUME NEW t \in Tasks, GpBegin(t) PROVE TaskStateOK'
  BY <1>17 DEF GpBegin
<1>18. ASSUME NEW t \in Tasks, GpEnd(t) PROVE TaskStateOK'
  BY <1>18 DEF GpEnd
<1>19. ASSUME NEW t \in Tasks, PublishFinished(t) PROVE TaskStateOK'
  BY <1>19 DEF PublishFinished
<1>20. ASSUME NEW t \in Tasks, Unlock(t) PROVE TaskStateOK'
  BY <1>20 DEF Unlock
<1>21. ASSUME NEW t \in Tasks, Return(t) PROVE TaskStateOK'
  BY <1>21 DEF Return, Forget
<1>22. ASSUME NEW t \in Tasks, Cancel(t) PROVE TaskStateOK'
  BY <1>22 DEF Cancel, Forget
<1>23. CASE UNCHANGED vars
  BY <1>23 DEF vars
<1>25. ASSUME NEW S \in SUBSET Uses, Unlink(S) PROVE TaskStateOK'
  BY <1>25 DEF Unlink
<1>26. ASSUME NEW S \in SUBSET Uses, EndUses(S) PROVE TaskStateOK'
  BY <1>26 DEF EndUses
<1> QED
  BY <1>1, <1>2, <1>3, <1>4, <1>5, <1>6, <1>7, <1>8, <1>9, <1>10, <1>11,
     <1>12, <1>13, <1>14, <1>15, <1>16, <1>17, <1>18, <1>19, <1>20, <1>21, <1>22, <1>23, <1>24,
     <1>25, <1>26
  DEF Next, Caller, GetId, Work

LEMMA SyncInit == Init => SyncInv
  BY SyncAssumption
  DEF Init, SyncInv, TaskStateOK, LockInv, CounterInv, FinishedInv, WorkerInv,
      ReturnsSafely, Pcs, ReadPcs, WritePcs, HasIdPcs, MutexPcs

\* Every step keeps the invariant.  The steps that matter: a new id is above
\* every value published or about to be (IncStarted); what a worker sampled
\* belongs to calls its grace period is good for (GpBegin); and a reset, which
\* breaks the order of the counters, meets no task with an id (ResetStarted).
LEMMA SyncStep == SyncInv /\ [Next]_vars => SyncInv'
<1> SUFFICES ASSUME SyncInv, [Next]_vars PROVE SyncInv'
  OBVIOUS
<1>0. TaskStateOK /\ TaskStateOK'
  BY TaskStateStep DEF SyncInv
<1> USE <1>0 DEF useVars, TaskStateOK, SetPc, ReadPcs, WritePcs, HasIdPcs, MutexPcs
<1> USE DEF SyncInv, LockInv, CounterInv, FinishedInv, WorkerInv, ReturnsSafely
<1>1. ASSUME NEW t \in Tasks, Call(t) PROVE SyncInv'
  BY <1>1 DEF Call
<1>2. ASSUME NEW t \in Tasks, ReadLocked(t) PROVE SyncInv'
  BY <1>2 DEF ReadLocked, NoWriter
<1>3. ASSUME NEW t \in Tasks, IncStarted(t) PROVE SyncInv'
  <2>1. pc[t] = "inc" /\ started <= started' /\ finished <= started
    BY <1>3 DEF IncStarted
  <2>2. LockInv' /\ ReturnsSafely'
    BY <1>3 DEF IncStarted
  <2>3. CounterInv'
    BY <1>3, <2>1 DEF IncStarted
  <2>4. pc'[t] \in HasIdPcs => id'[t] > started
    BY <1>3 DEF IncStarted
  <2>5. FinishedInv' /\ WorkerInv'
    BY <1>3, <2>1, <2>4 DEF IncStarted
  <2> QED BY <2>2, <2>3, <2>5
<1>4. ASSUME NEW t \in Tasks, LeaderUnlock(t) PROVE SyncInv'
  BY <1>4 DEF LeaderUnlock
<1>5. ASSUME NEW t \in Tasks, WriteLocked(t) PROVE SyncInv'
  BY <1>5 DEF WriteLocked, NoWriter, NoReader
<1>6. ASSUME NEW t \in Tasks, ResetStarted(t) PROVE SyncInv'
  <2>1. \A u \in Tasks : pc[u] \notin HasIdPcs /\ pc'[u] \notin HasIdPcs
    BY <1>6 DEF ResetStarted
  <2>2. LockInv' /\ CounterInv'
    BY <1>6, <2>1 DEF ResetStarted
  <2>3. FinishedInv' /\ WorkerInv' /\ ReturnsSafely'
    BY <1>6, <2>1 DEF ResetStarted
  <2> QED BY <2>2, <2>3
<1>7. ASSUME NEW t \in Tasks, ResetFinished(t) PROVE SyncInv'
  BY <1>7 DEF ResetFinished
<1>8. ASSUME NEW t \in Tasks, ResetUnlock(t) PROVE SyncInv'
  BY <1>8 DEF ResetUnlock
<1>9. ASSUME NEW t \in Tasks, ResetNotify(t) PROVE SyncInv'
  BY <1>9 DEF ResetNotify
<1>24. ASSUME NEW t \in Tasks, ResetWake(t) PROVE SyncInv'
  BY <1>24 DEF ResetWake
<1>10. ASSUME NEW t \in Tasks, SlaveSubscribe(t) PROVE SyncInv'
  BY <1>10 DEF SlaveSubscribe
<1>11. ASSUME NEW t \in Tasks, SlaveUnlock(t) PROVE SyncInv'
  BY <1>11 DEF SlaveUnlock
<1>12. ASSUME NEW t \in Tasks, SlaveRetry(t) PROVE SyncInv'
  BY <1>12 DEF SlaveRetry
<1>13. ASSUME NEW t \in Tasks, RequestMutex(t) PROVE SyncInv'
  BY <1>13 DEF RequestMutex
<1>14. ASSUME NEW t \in Tasks, MutexLocked(t) PROVE SyncInv'
  BY <1>14 DEF MutexLocked, MutexFree
<1>15. ASSUME NEW t \in Tasks, CheckFinished(t) PROVE SyncInv'
  BY <1>15 DEF CheckFinished
<1>16. ASSUME NEW t \in Tasks, LoadStarted(t) PROVE SyncInv'
  BY <1>16 DEF LoadStarted
<1>17. ASSUME NEW t \in Tasks, GpBegin(t) PROVE SyncInv'
  <2>1. \A u \in Tasks : before'[u] \subseteq gpWaits'
    BY <1>17 DEF GpBegin
  <2>2. WorkerInv'
    BY <1>17, <2>1 DEF GpBegin
  <2>3. LockInv' /\ CounterInv' /\ FinishedInv' /\ ReturnsSafely'
    BY <1>17 DEF GpBegin
  <2> QED BY <2>2, <2>3
<1>18. ASSUME NEW t \in Tasks, GpEnd(t) PROVE SyncInv'
  BY <1>18 DEF GpEnd
<1>19. ASSUME NEW t \in Tasks, PublishFinished(t) PROVE SyncInv'
  <2>1. before[t] = {} /\ sampled <= started /\ id[t] <= sampled
    BY <1>19 DEF PublishFinished
  <2>2. FinishedInv' /\ CounterInv'
    BY <1>19, <2>1 DEF PublishFinished
  <2>3. LockInv' /\ WorkerInv' /\ ReturnsSafely'
    BY <1>19, <2>1 DEF PublishFinished
  <2> QED BY <2>2, <2>3
<1>20. ASSUME NEW t \in Tasks, Unlock(t) PROVE SyncInv'
  BY <1>20 DEF Unlock
<1>21. ASSUME NEW t \in Tasks, Return(t) PROVE SyncInv'
  BY <1>21 DEF Return, Forget
<1>22. ASSUME NEW t \in Tasks, Cancel(t) PROVE SyncInv'
  BY <1>22, SyncAssumption DEF Cancel, Forget, AwaitPcs
<1>23. CASE UNCHANGED vars
  BY <1>23 DEF vars
<1>25. ASSUME NEW S \in SUBSET Uses, Unlink(S) PROVE SyncInv'
  BY <1>25 DEF Unlink
<1>26. ASSUME NEW S \in SUBSET Uses, EndUses(S) PROVE SyncInv'
  <2>1. LockInv' /\ CounterInv'
    BY <1>26 DEF EndUses
  <2>2. \A t \in Tasks : /\ before[t] = {} => before'[t] = {}
                         /\ before[t] \subseteq gpWaits => before'[t] \subseteq gpWaits'
    BY <1>26 DEF EndUses
  <2>3. FinishedInv' /\ WorkerInv' /\ ReturnsSafely'
    BY <1>26, <2>2 DEF EndUses
  <2> QED BY <2>1, <2>3
<1> QED
  BY <1>1, <1>2, <1>3, <1>4, <1>5, <1>6, <1>7, <1>8, <1>9, <1>10, <1>11,
     <1>12, <1>13, <1>14, <1>15, <1>16, <1>17, <1>18, <1>19, <1>20, <1>21, <1>22, <1>23, <1>24,
     <1>25, <1>26
  DEF Next, Caller, GetId, Work

\* Readers and writers elsewhere do not touch what the callers share.
LEMMA EnvironmentStep ==
  ASSUME NEW S, Unlink(S) \/ EndUses(S)
  PROVE  UNCHANGED <<started, finished, pc, id, sampled, rwQueue, mutexQueue, notified>>
  BY DEF Unlink, EndUses

\* A step of one caller leaves the others where they are.
LEMMA OthersStay ==
  ASSUME TaskStateOK, NEW t \in Tasks, NEW u \in Tasks, t # u, Caller(u)
  PROVE  pc'[t] = pc[t]
  BY DEF Caller, GetId, Work, Call, ReadLocked, IncStarted, LeaderUnlock, WriteLocked,
         ResetStarted, ResetFinished, ResetUnlock, ResetNotify, ResetWake, SlaveSubscribe,
         SlaveUnlock, SlaveRetry, RequestMutex, MutexLocked, CheckFinished, LoadStarted,
         GpBegin, GpEnd, PublishFinished, Unlock, Return, Cancel, Forget, SetPc, TaskStateOK

\* A dropped request leaves a queue of tasks.
LEMMA WithoutType ==
  ASSUME NEW t, NEW queue \in Seq(Tasks)
  PROVE  Without(t, queue) \in Seq(Tasks)
<1>1. CASE \A i \in 1 .. Len(queue) : queue[i] # t
  BY <1>1 DEF Without
<1>2. CASE \E i \in 1 .. Len(queue) : queue[i] = t
  <2>1. Place(t, queue) \in 1 .. Len(queue)
    BY <1>2 DEF Place
  <2> DEFINE front == SubSeq(queue, 1, Place(t, queue) - 1)
             back == SubSeq(queue, Place(t, queue) + 1, Len(queue))
  <2>2. front \in Seq(Tasks) /\ back \in Seq(Tasks)
    BY <2>1
  <2>3. front \o back \in Seq(Tasks)
    BY <2>2
  <2> QED BY <1>2, <2>3 DEF Without
<1> QED BY <1>1, <1>2

\* So do a new request and one that is granted.
LEMMA QueueType ==
  ASSUME NEW t \in Tasks, NEW queue \in Seq(Tasks)
  PROVE  /\ Append(queue, t) \in Seq(Tasks)
         /\ queue # <<>> => Tail(queue) \in Seq(Tasks)
  OBVIOUS

\* Counters stay within their width, tasks at places of the program, and the
\* locks' queues hold tasks.
THEOREM TypesHold == Spec => []TypeOK
<1>1. Init => TypeOK
  BY SyncInit DEF Init, SyncInv, TypeOK
<1>2. TypeOK /\ [Next]_vars => TypeOK'
  <2> SUFFICES ASSUME TypeOK, [Next]_vars
               PROVE  rwQueue' \in Seq(Tasks) /\ mutexQueue' \in Seq(Tasks)
    BY TaskStateStep DEF TypeOK
  <2> USE DEF TypeOK
  <2>1. CASE UNCHANGED vars
    BY <2>1 DEF vars
  <2>2. ASSUME NEW t \in Tasks, Call(t) \/ ReadLocked(t) \/ LeaderUnlock(t) \/ WriteLocked(t)
                                  \/ ResetWake(t) \/ SlaveRetry(t)
        PROVE  rwQueue' \in Seq(Tasks) /\ mutexQueue' = mutexQueue
    <3>1. /\ mutexQueue' = mutexQueue
          /\ \/ rwQueue' = Append(rwQueue, t)
             \/ rwQueue # <<>> /\ rwQueue' = Tail(rwQueue)
      BY <2>2, Zenon DEF Call, ReadLocked, LeaderUnlock, WriteLocked, ResetWake, SlaveRetry,
                         IsFirst
    <3> QED BY <3>1, QueueType
  <2>3. ASSUME NEW t \in Tasks, RequestMutex(t) \/ MutexLocked(t)
        PROVE  rwQueue' = rwQueue /\ mutexQueue' \in Seq(Tasks)
    <3>1. /\ rwQueue' = rwQueue
          /\ \/ mutexQueue' = Append(mutexQueue, t)
             \/ mutexQueue # <<>> /\ mutexQueue' = Tail(mutexQueue)
      BY <2>3, Zenon DEF RequestMutex, MutexLocked, IsFirst
    <3> QED BY <3>1, QueueType
  <2>4. ASSUME NEW t \in Tasks, Cancel(t)
        PROVE  rwQueue' \in Seq(Tasks) /\ mutexQueue' \in Seq(Tasks)
    BY <2>4, WithoutType DEF Cancel
  <2>5. ASSUME NEW t \in Tasks, \/ IncStarted(t) \/ ResetStarted(t) \/ ResetFinished(t)
                                \/ ResetUnlock(t) \/ ResetNotify(t) \/ SlaveSubscribe(t)
                                \/ SlaveUnlock(t) \/ CheckFinished(t) \/ LoadStarted(t)
                                \/ GpBegin(t) \/ GpEnd(t) \/ PublishFinished(t)
                                \/ Unlock(t) \/ Return(t)
        PROVE  rwQueue' = rwQueue /\ mutexQueue' = mutexQueue
    BY <2>5 DEF IncStarted, ResetStarted, ResetFinished, ResetUnlock, ResetNotify,
                SlaveSubscribe, SlaveUnlock, CheckFinished, LoadStarted, GpBegin, GpEnd,
                PublishFinished, Unlock, Return
  <2>6. ASSUME NEW S \in SUBSET Uses, Unlink(S) \/ EndUses(S)
        PROVE  rwQueue' = rwQueue /\ mutexQueue' = mutexQueue
    BY <2>6, EnvironmentStep
  <2> QED BY <2>1, <2>2, <2>3, <2>4, <2>5, <2>6 DEF Next, Caller, GetId, Work
<1> QED BY <1>1, <1>2, PTL DEF Spec

\* The published counter never runs ahead of the calls that a grace period was
\* good for, the locks exclude each other and no id outlives a reset.
THEOREM SyncInvariance == Spec => []SyncInv
  BY SyncInit, SyncStep, PTL DEF Spec

\* No call of synchronize_rcu returns without a grace period of its own or of
\* another caller that began after the call, however many tasks call, wherever
\* their futures are dropped, and across any number of counter resets.
THEOREM BatchingIsSafe == Spec => []ReturnsSafely
<1>1. SyncInv => ReturnsSafely
  BY DEF SyncInv
<1> QED BY <1>1, SyncInvariance, PTL

\* While the leader of a reset holds the lock for writing no other task has a
\* grace period id: the comment in synchronize_rcu that lists the places the
\* other tasks can be at is right.
THEOREM ResetIsExclusive == Spec => []ResetFindsNoId
<1>1. SyncInv => ResetFindsNoId
  BY DEF SyncInv, TaskStateOK, LockInv, ResetFindsNoId, Pcs, ReadPcs, WritePcs
<1> QED BY <1>1, SyncInvariance, PTL

\* A counter at its maximum keeps its leader.
LEMMA LeaderStep ==
  ASSUME "write_lock" \notin CancelAt, TaskStateOK, ResetHasLeader, [Next]_vars
  PROVE  ResetHasLeader'
<1>1. CASE started' # GP_ID_MAX
  BY <1>1 DEF ResetHasLeader
<1>2. CASE started' = GP_ID_MAX /\ started # GP_ID_MAX
  <2>1. PICK t \in Tasks : IncStarted(t)
    BY <1>2, SyncAssumption
    DEF vars, Next, Caller, GetId, Work, Call, ReadLocked, LeaderUnlock, WriteLocked,
        ResetStarted, ResetFinished, ResetUnlock, ResetNotify, ResetWake, SlaveSubscribe,
        SlaveUnlock, SlaveRetry, RequestMutex, MutexLocked, CheckFinished, LoadStarted,
        GpBegin, GpEnd, PublishFinished, Unlock, Return, Cancel, Unlink, EndUses
  <2>2. pc'[t] = "lead"
    BY <1>2, <2>1 DEF IncStarted, SetPc, TaskStateOK
  <2> QED BY <2>2 DEF ResetHasLeader
<1>3. CASE started' = GP_ID_MAX /\ started = GP_ID_MAX
  <2>1. PICK t \in Tasks : pc[t] \in {"lead", "write_lock", "reset_started"}
    BY <1>3 DEF ResetHasLeader
  <2>2. pc'[t] \in {"lead", "write_lock", "reset_started"}
    <3>1. CASE UNCHANGED vars
      BY <2>1, <3>1 DEF vars
    <3>2. ASSUME NEW S \in SUBSET Uses, Unlink(S) \/ EndUses(S) PROVE pc'[t] = pc[t]
      BY <3>2, EnvironmentStep
    <3>3. CASE Caller(t)
      BY <1>3, <2>1, <3>3, SyncAssumption
      DEF AwaitPcs, Caller, GetId, Work, Call, ReadLocked, IncStarted, LeaderUnlock,
          WriteLocked, ResetStarted, ResetFinished, ResetUnlock, ResetNotify, ResetWake,
          SlaveSubscribe, SlaveUnlock, SlaveRetry, RequestMutex, MutexLocked, CheckFinished,
          LoadStarted, GpBegin, GpEnd, PublishFinished, Unlock, Return, Cancel, Forget, SetPc,
          TaskStateOK
    <3> QED BY <2>1, <3>1, <3>2, <3>3, OthersStay DEF Next
  <2> QED BY <2>2 DEF ResetHasLeader
<1> QED BY <1>1, <1>2, <1>3

\* As long as a leader's future is not dropped while it waits for the write
\* guard, a counter at its maximum has a leader that is going to reset it.
THEOREM ResetIsLed ==
  ASSUME "write_lock" \notin CancelAt
  PROVE  Spec => []ResetHasLeader
<1>1. Init => ResetHasLeader
  BY SyncAssumption DEF Init, ResetHasLeader
<1>2. SyncInv /\ ResetHasLeader /\ [Next]_vars => ResetHasLeader'
  BY LeaderStep DEF SyncInv
<1> QED BY <1>1, <1>2, SyncInvariance, PTL DEF Spec

\* No caller runs a grace period in vain.
THEOREM PublishedAdvances == Spec => GpsAdvance
<1>1. ASSUME SyncInv, [Next]_vars, NEW t \in Tasks, pc[t] = "publish", pc'[t] = "unlock"
      PROVE  finished' > finished
  <2>1. finished < id[t] /\ id[t] <= sampled
    BY <1>1 DEF SyncInv, WorkerInv
  <2>2. finished' = sampled
    <3>1. CASE UNCHANGED vars
      BY <1>1, <3>1 DEF vars
    <3>2. ASSUME NEW S \in SUBSET Uses, Unlink(S) \/ EndUses(S) PROVE FALSE
      BY <1>1, <3>2, EnvironmentStep
    <3>3. CASE Caller(t)
      BY <1>1, <3>3, SyncAssumption
      DEF AwaitPcs, Caller, GetId, Work, Call, ReadLocked, IncStarted, LeaderUnlock,
          WriteLocked, ResetStarted, ResetFinished, ResetUnlock, ResetNotify, ResetWake,
          SlaveSubscribe, SlaveUnlock, SlaveRetry, RequestMutex, MutexLocked, CheckFinished,
          LoadStarted, GpBegin, GpEnd, PublishFinished, Unlock, Return, Cancel
    <3> QED BY <1>1, <3>1, <3>2, <3>3, OthersStay DEF Next, SyncInv
  <2> QED BY <1>1, <2>1, <2>2, SyncAssumption DEF SyncInv, TaskStateOK
<1>2. SyncInv /\ [Next]_vars =>
        [\A t \in Tasks : pc[t] = "publish" /\ pc'[t] = "unlock" => finished' > finished]_vars
  BY <1>1
<1> QED BY <1>2, SyncInvariance, PTL DEF Spec, GpsAdvance

\* The callers run one grace period at a time, whatever they drop.
THEOREM GracePeriodsAreSerialized == Spec => RunsSerialized
<1> DEFINE running == \E t \in Tasks : pc[t] = "gp"
<1>1. Init => Gp!Init
  BY DEF Init, Gp!Init
<1>2. SyncInv /\ SyncInv' /\ [Next]_vars => [Gp!Next]_<<uses, running, gpWaits>>
  <2> SUFFICES ASSUME SyncInv, SyncInv', [Next]_vars
               PROVE  Gp!Next \/ UNCHANGED <<uses, running, gpWaits>>
    OBVIOUS
  <2> USE DEF SyncInv, TaskStateOK
  <2>1. CASE UNCHANGED vars
    BY <2>1 DEF vars
  <2>2. ASSUME NEW S \in SUBSET Uses, Unlink(S) PROVE Gp!Next
    BY <2>2 DEF Unlink, Gp!Next, Gp!Unlink
  <2>3. ASSUME NEW S \in SUBSET Uses, EndUses(S) PROVE Gp!Next
    BY <2>3 DEF EndUses, Gp!Next, Gp!EndUses
  <2>4. ASSUME NEW t \in Tasks, Caller(t), pc[t] # "gp", pc'[t] # "gp"
        PROVE  UNCHANGED <<uses, running, gpWaits>>
    <3>1. UNCHANGED <<uses, gpWaits>>
      BY <2>4
      DEF Caller, GetId, Work, Call, ReadLocked, IncStarted, LeaderUnlock, WriteLocked,
          ResetStarted, ResetFinished, ResetUnlock, ResetNotify, ResetWake, SlaveSubscribe,
          SlaveUnlock, SlaveRetry, RequestMutex, MutexLocked, CheckFinished, LoadStarted,
          GpBegin, GpEnd, PublishFinished, Unlock, Return, Cancel, Forget, SetPc, useVars
    <3> QED BY <2>4, <3>1, OthersStay
  <2>5. ASSUME NEW t \in Tasks, Caller(t), pc[t] # "gp", pc'[t] = "gp"
        PROVE  Gp!Next
    <3>1. GpBegin(t)
      BY <2>5
      DEF Caller, GetId, Work, Call, ReadLocked, IncStarted, LeaderUnlock, WriteLocked,
          ResetStarted, ResetFinished, ResetUnlock, ResetNotify, ResetWake, SlaveSubscribe,
          SlaveUnlock, SlaveRetry, RequestMutex, MutexLocked, CheckFinished, LoadStarted,
          GpEnd, PublishFinished, Unlock, Return, Cancel, Forget, SetPc
    <3>2. ~running
      BY <3>1 DEF GpBegin, LockInv, MutexPcs
    <3> QED BY <2>5, <3>1, <3>2 DEF GpBegin, Gp!Next, Gp!Begin
  <2>6. ASSUME NEW t \in Tasks, Caller(t), pc[t] = "gp"
        PROVE  Gp!Next
    <3>1. GpEnd(t) \/ Cancel(t)
      BY <2>6
      DEF Caller, GetId, Work, Call, ReadLocked, IncStarted, LeaderUnlock, WriteLocked,
          ResetStarted, ResetFinished, ResetUnlock, ResetNotify, ResetWake, SlaveSubscribe,
          SlaveUnlock, SlaveRetry, RequestMutex, MutexLocked, CheckFinished, LoadStarted,
          GpBegin, PublishFinished, Unlock, Return
    <3>2. \A u \in Tasks \ {t} : pc[u] # "gp"
      BY <2>6 DEF LockInv, MutexPcs
    <3>3. running /\ ~running'
      BY <2>6, <3>1, <3>2, OthersStay DEF GpEnd, Cancel, Forget, SetPc
    <3> QED BY <2>6, <3>1, <3>3
            DEF GpEnd, Cancel, Forget, useVars, Gp!Next, Gp!End, Gp!Abandon
  <2> QED BY <2>1, <2>2, <2>3, <2>4, <2>5, <2>6 DEF Next
<1> QED BY <1>1, <1>2, SyncInvariance, PTL DEF Spec, RunsSerialized, Gp!Spec
=============================================================================
