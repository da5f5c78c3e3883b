------------------------ MODULE CallerProgressProofs ------------------------
(***************************************************************************)
(* The callers of synchronize_rcu never all wait for each other.           *)
(* ProgressInv says who is in the queues of the two locks and that a slave *)
(* has a leader; with the exclusion of the locks (SyncInv) it leaves       *)
(* somebody who can go on in every state with a call.                      *)
(***************************************************************************)
EXTENDS SynchronizeRcuProofs, SequenceTheorems

RwPcs == {"read_lock", "write_lock"}

\* The elements of a queue after a request, after a grant and after a request
\* was dropped.
LEMMA AppendElements ==
  ASSUME NEW queue \in Seq(Tasks), NEW t \in Tasks
  PROVE  /\ Len(Append(queue, t)) = Len(queue) + 1
         /\ \A i \in 1 .. Len(queue) : Append(queue, t)[i] = queue[i]
         /\ Append(queue, t)[Len(queue) + 1] = t
  OBVIOUS

LEMMA TailElements ==
  ASSUME NEW queue \in Seq(Tasks), queue # <<>>
  PROVE  /\ Len(queue) \in Nat \ {0}
         /\ Len(Tail(queue)) = Len(queue) - 1
         /\ \A i \in 1 .. Len(queue) - 1 : Tail(queue)[i] = queue[i + 1]
  OBVIOUS

LEMMA WithoutElements ==
  ASSUME NEW queue \in Seq(Tasks), NEW t, \E i \in 1 .. Len(queue) : queue[i] = t
  PROVE  LET p == Place(t, queue) IN
         /\ p \in 1 .. Len(queue) /\ queue[p] = t
         /\ Len(Without(t, queue)) = Len(queue) - 1
         /\ \A i \in 1 .. Len(queue) - 1 :
              Without(t, queue)[i] = IF i < p THEN queue[i] ELSE queue[i + 1]
<1> DEFINE p == Place(t, queue)
           front == SubSeq(queue, 1, p - 1)
           back == SubSeq(queue, p + 1, Len(queue))
<1>1. p \in 1 .. Len(queue) /\ queue[p] = t
  BY DEF Place
<1>2. Without(t, queue) = front \o back
  BY DEF Without
<1> HIDE DEF p
<1>3. Len(queue) \in Nat /\ p \in Nat
  BY <1>1
<1>4. /\ front \in Seq(Tasks) /\ Len(front) = p - 1
      /\ \A i \in 1 .. p - 1 : front[i] = queue[i]
  BY <1>1, <1>3
<1>5. /\ back \in Seq(Tasks) /\ Len(back) = Len(queue) - p
      /\ \A i \in 1 .. Len(queue) - p : back[i] = queue[p + i]
  BY <1>1, <1>3
<1> HIDE DEF front, back
<1>6. /\ Len(front \o back) = Len(queue) - 1
      /\ \A i \in 1 .. Len(queue) - 1 :
           (front \o back)[i] = IF i <= Len(front) THEN front[i] ELSE back[i - Len(front)]
  <2>1. Len(front) + Len(back) = Len(queue) - 1
    BY <1>3, <1>4, <1>5
  <2>2. front \in Seq(Tasks) /\ back \in Seq(Tasks)
    BY <1>4, <1>5
  <2>3. /\ Len(front \o back) = Len(front) + Len(back)
        /\ \A i \in 1 .. Len(front) + Len(back) :
             (front \o back)[i] = IF i <= Len(front) THEN front[i] ELSE back[i - Len(front)]
    BY <2>2, ConcatProperties, Zenon
  <2> QED BY <2>1, <2>3, Zenon
<1>7. ASSUME NEW i \in 1 .. Len(queue) - 1
      PROVE  (front \o back)[i] = IF i < p THEN queue[i] ELSE queue[i + 1]
  <2>0. i \in Nat
    OBVIOUS
  <2>1. CASE i < p
    BY <1>1, <1>3, <1>4, <1>6, <2>1
  <2>2. CASE i >= p
    <3>1. i - (p - 1) \in 1 .. Len(queue) - p /\ p + (i - (p - 1)) = i + 1
      BY <1>1, <1>3, <2>2
    <3>2. back[i - (p - 1)] = queue[p + (i - (p - 1))]
      BY <1>5, <3>1
    <3>3. (front \o back)[i] = back[i - (p - 1)]
      BY <1>3, <1>4, <1>6, <2>2
    <3> QED BY <1>3, <2>0, <2>2, <3>1, <3>2, <3>3
  <2>3. i < p \/ i >= p
    BY <1>3, <2>0
  <2> QED BY <2>1, <2>2, <2>3, Zenon
<1> QED BY <1>1, <1>2, <1>6, <1>7 DEF p

-----------------------------------------------------------------------------
(***************************************************************************)
(* What the steps of a task do to a queue.  f and g are the places of the  *)
(* tasks before and after the step.                                        *)
(***************************************************************************)
Holds(f, queue, at) ==
  /\ \A i \in 1 .. Len(queue) : f[queue[i]] \in at
  /\ \A t \in Tasks : f[t] \in at => \E i \in 1 .. Len(queue) : queue[i] = t
  /\ \A i, j \in 1 .. Len(queue) : queue[i] = queue[j] => i = j

\* A task that neither comes to wait nor ceases to does not change the queue.
LEMMA QueueKept ==
  ASSUME NEW f \in [Tasks -> Pcs], NEW queue \in Seq(Tasks), NEW at, Holds(f, queue, at),
         NEW t \in Tasks, NEW to, f[t] \in at <=> to \in at
  PROVE  Holds([f EXCEPT ![t] = to], queue, at)
<1> DEFINE g == [f EXCEPT ![t] = to]
<1>1. \A u \in Tasks : g[u] \in at <=> f[u] \in at
  OBVIOUS
<1>2. \A i \in 1 .. Len(queue) : queue[i] \in Tasks
  OBVIOUS
<1> HIDE DEF g
<1>3. Holds(g, queue, at)
  BY <1>1, <1>2 DEF Holds
<1> QED BY <1>3 DEF g

\* A request goes to the end of the queue.
LEMMA QueueJoined ==
  ASSUME NEW f \in [Tasks -> Pcs], NEW queue \in Seq(Tasks), NEW at, Holds(f, queue, at),
         NEW t \in Tasks, NEW to, f[t] \notin at, to \in at
  PROVE  Holds([f EXCEPT ![t] = to], Append(queue, t), at)
<1> DEFINE g == [f EXCEPT ![t] = to]
           longer == Append(queue, t)
           n == Len(queue)
<1>1. g[t] = to /\ \A u \in Tasks : u # t => g[u] = f[u]
  OBVIOUS
<1>2. n \in Nat /\ \A i \in 1 .. n : queue[i] \in Tasks /\ queue[i] # t
  BY DEF Holds
<1>3. Len(longer) = n + 1 /\ longer[n + 1] = t /\ \A i \in 1 .. n : longer[i] = queue[i]
  BY AppendElements
<1> HIDE DEF g, longer, n
<1>4. \A i \in 1 .. n + 1 : i = n + 1 \/ i \in 1 .. n
  BY <1>2
<1>5. n + 1 \in 1 .. n + 1 /\ \A i \in 1 .. n : i \in 1 .. n + 1
  BY <1>2
<1>6. \A i \in 1 .. n + 1 : g[longer[i]] \in at
  BY <1>1, <1>2, <1>3, <1>4 DEF Holds, n
<1>7. \A u \in Tasks : g[u] \in at => \E i \in 1 .. n + 1 : longer[i] = u
  BY <1>1, <1>3, <1>5 DEF Holds, n
<1>8. \A i, j \in 1 .. n + 1 : longer[i] = longer[j] => i = j
  BY <1>2, <1>3, <1>4 DEF Holds, n
<1>9. Holds(g, longer, at)
  BY <1>3, <1>6, <1>7, <1>8 DEF Holds
<1> QED BY <1>9 DEF g, longer

\* A queue without one of its places.
LEMMA PlaceDropped ==
  ASSUME NEW f \in [Tasks -> Pcs], NEW queue \in Seq(Tasks), NEW at, Holds(f, queue, at),
         NEW t \in Tasks, NEW to, to \notin at,
         NEW shorter, NEW p \in 1 .. Len(queue), queue[p] = t,
         Len(shorter) = Len(queue) - 1,
         \A i \in 1 .. Len(queue) - 1 : shorter[i] = IF i < p THEN queue[i] ELSE queue[i + 1]
  PROVE  Holds([f EXCEPT ![t] = to], shorter, at)
<1> DEFINE g == [f EXCEPT ![t] = to]
           n == Len(queue)
           From(i) == IF i < p THEN i ELSE i + 1
<1>1. g[t] = to /\ \A u \in Tasks : u # t => g[u] = f[u]
  OBVIOUS
<1>2. n \in Nat /\ p \in Nat /\ p <= n /\ 1 <= p /\ \A i \in 1 .. n : queue[i] \in Tasks
  OBVIOUS
<1>3. \A i \in 1 .. n : i # p => queue[i] # t
  BY DEF Holds
<1>4. \A i \in 1 .. n - 1 : /\ From(i) \in 1 .. n /\ From(i) # p
                            /\ shorter[i] = queue[From(i)]
  BY <1>2
<1>5. \A i, j \in 1 .. n - 1 : From(i) = From(j) => i = j
  BY <1>2
<1>6. \A k \in 1 .. n : k # p => \E i \in 1 .. n - 1 : From(i) = k
  <2> SUFFICES ASSUME NEW k \in 1 .. n, k # p PROVE \E i \in 1 .. n - 1 : From(i) = k
    OBVIOUS
  <2>1. CASE k < p
    <3>1. k \in 1 .. n - 1 /\ From(k) = k
      BY <1>2, <2>1
    <3> QED BY <3>1
  <2>2. CASE k > p
    <3>1. k - 1 \in 1 .. n - 1 /\ From(k - 1) = k
      BY <1>2, <2>2
    <3> QED BY <3>1
  <2> QED BY <1>2, <2>1, <2>2
<1> HIDE DEF g, n, From
<1>7. \A i \in 1 .. n - 1 : g[shorter[i]] \in at
  BY <1>1, <1>2, <1>3, <1>4 DEF Holds, n
<1>8. \A u \in Tasks : g[u] \in at => \E i \in 1 .. n - 1 : shorter[i] = u
  <2> SUFFICES ASSUME NEW u \in Tasks, g[u] \in at PROVE \E i \in 1 .. n - 1 : shorter[i] = u
    OBVIOUS
  <2>1. u # t /\ f[u] \in at
    BY <1>1
  <2>2. PICK k \in 1 .. n : queue[k] = u
    BY <2>1 DEF Holds, n
  <2>3. PICK i \in 1 .. n - 1 : From(i) = k
    BY <1>6, <2>1, <2>2
  <2> QED BY <1>4, <2>2, <2>3
<1>9. \A i, j \in 1 .. n - 1 : shorter[i] = shorter[j] => i = j
  BY <1>4, <1>5 DEF Holds, n
<1>10. Holds(g, shorter, at)
  BY <1>7, <1>8, <1>9 DEF Holds, n
<1> QED BY <1>10 DEF g

\* The first request is granted.
LEMMA QueueGranted ==
  ASSUME NEW f \in [Tasks -> Pcs], NEW queue \in Seq(Tasks), NEW at, Holds(f, queue, at),
         NEW t \in Tasks, NEW to, to \notin at, IsFirst(t, queue)
  PROVE  Holds([f EXCEPT ![t] = to], Tail(queue), at)
<1>1. queue # <<>> /\ queue[1] = t
  BY DEF IsFirst
<1>2. /\ Len(queue) \in Nat \ {0} /\ Len(Tail(queue)) = Len(queue) - 1
      /\ \A i \in 1 .. Len(queue) - 1 : Tail(queue)[i] = queue[i + 1]
  BY <1>1, TailElements
<1>3. 1 \in 1 .. Len(queue)
  BY <1>2
<1>4. \A i \in 1 .. Len(queue) - 1 :
        Tail(queue)[i] = IF i < 1 THEN queue[i] ELSE queue[i + 1]
  BY <1>2
<1> QED BY <1>1, <1>2, <1>3, <1>4, PlaceDropped

\* A request is dropped, or there was none.
LEMMA QueueLeft ==
  ASSUME NEW f \in [Tasks -> Pcs], NEW queue \in Seq(Tasks), NEW at, Holds(f, queue, at),
         NEW t \in Tasks, NEW to, to \notin at
  PROVE  Holds([f EXCEPT ![t] = to], Without(t, queue), at)
<1>1. CASE \A i \in 1 .. Len(queue) : queue[i] # t
  <2>1. f[t] \notin at /\ Without(t, queue) = queue
    BY <1>1 DEF Holds, Without
  <2> QED BY <2>1, QueueKept
<1>2. CASE \E i \in 1 .. Len(queue) : queue[i] = t
  <2> DEFINE p == Place(t, queue)
  <2>1. /\ p \in 1 .. Len(queue) /\ queue[p] = t
        /\ Len(Without(t, queue)) = Len(queue) - 1
        /\ \A i \in 1 .. Len(queue) - 1 :
             Without(t, queue)[i] = IF i < p THEN queue[i] ELSE queue[i + 1]
    BY <1>2, WithoutElements
  <2> HIDE DEF p
  <2> QED BY <2>1, PlaceDropped
<1> QED BY <1>1, <1>2

-----------------------------------------------------------------------------
(***************************************************************************)
(* Every step keeps ProgressInv.                                           *)
(***************************************************************************)

\* A caller's step changes its own place.
LEMMA OwnPlace ==
  ASSUME TaskStateOK, NEW t \in Tasks, Caller(t)
  PROVE  pc' = [pc EXCEPT ![t] = pc'[t]]
  BY DEF Caller, GetId, Work, Call, ReadLocked, IncStarted, LeaderUnlock, WriteLocked,
         ResetStarted, ResetFinished, ResetUnlock, ResetNotify, ResetWake, SlaveSubscribe,
         SlaveUnlock, SlaveRetry, RequestMutex, MutexLocked, CheckFinished, LoadStarted,
         GpBegin, GpEnd, PublishFinished, Unlock, Return, Cancel, Forget, SetPc, TaskStateOK

\* What the step does to the queue of the reset lock.
LEMMA RwQueueMove ==
  ASSUME TaskStateOK, NEW t \in Tasks, Caller(t)
  PROVE  \/ pc[t] \notin RwPcs /\ pc'[t] \in RwPcs /\ rwQueue' = Append(rwQueue, t)
         \/ IsFirst(t, rwQueue) /\ pc'[t] \notin RwPcs /\ rwQueue' = Tail(rwQueue)
         \/ pc'[t] \notin RwPcs /\ rwQueue' = Without(t, rwQueue)
         \/ pc[t] \notin RwPcs /\ pc'[t] \notin RwPcs /\ rwQueue' = rwQueue
<1> USE DEF TaskStateOK, SetPc, RwPcs
<1>1. CASE Call(t) \/ LeaderUnlock(t) \/ ResetWake(t) \/ SlaveRetry(t)
  BY <1>1 DEF Call, LeaderUnlock, ResetWake, SlaveRetry
<1>2. CASE ReadLocked(t) \/ WriteLocked(t)
  BY <1>2 DEF ReadLocked, WriteLocked
<1>3. CASE Cancel(t)
  BY <1>3 DEF Cancel, Forget
<1>4. CASE \/ IncStarted(t) \/ ResetStarted(t) \/ ResetFinished(t) \/ ResetUnlock(t)
           \/ ResetNotify(t) \/ SlaveSubscribe(t) \/ SlaveUnlock(t)
  BY <1>4 DEF IncStarted, ResetStarted, ResetFinished, ResetUnlock, ResetNotify,
              SlaveSubscribe, SlaveUnlock
<1>5. CASE Work(t)
  BY <1>5 DEF Work, RequestMutex, MutexLocked, CheckFinished, LoadStarted, GpBegin, GpEnd,
              PublishFinished, Unlock, Return, Forget
<1> QED BY <1>1, <1>2, <1>3, <1>4, <1>5 DEF Caller, GetId

\* And to the queue of the mutex.
LEMMA MutexQueueMove ==
  ASSUME TaskStateOK, NEW t \in Tasks, Caller(t)
  PROVE  \/ pc[t] # "mutex" /\ pc'[t] = "mutex" /\ mutexQueue' = Append(mutexQueue, t)
         \/ IsFirst(t, mutexQueue) /\ pc'[t] # "mutex" /\ mutexQueue' = Tail(mutexQueue)
         \/ pc'[t] # "mutex" /\ mutexQueue' = Without(t, mutexQueue)
         \/ pc[t] # "mutex" /\ pc'[t] # "mutex" /\ mutexQueue' = mutexQueue
<1> USE DEF TaskStateOK, SetPc
<1>1. CASE RequestMutex(t) \/ MutexLocked(t)
  BY <1>1 DEF RequestMutex, MutexLocked
<1>2. CASE Cancel(t)
  BY <1>2 DEF Cancel, Forget
<1>3. CASE Call(t) \/ GetId(t)
  BY <1>3 DEF Call, GetId, ReadLocked, IncStarted, LeaderUnlock, WriteLocked, ResetStarted,
              ResetFinished, ResetUnlock, ResetNotify, ResetWake, SlaveSubscribe,
              SlaveUnlock, SlaveRetry
<1>4. CASE \/ CheckFinished(t) \/ LoadStarted(t) \/ GpBegin(t) \/ GpEnd(t)
           \/ PublishFinished(t) \/ Unlock(t) \/ Return(t)
  BY <1>4 DEF CheckFinished, LoadStarted, GpBegin, GpEnd, PublishFinished, Unlock, Return,
              Forget
<1> QED BY <1>1, <1>2, <1>3, <1>4 DEF Caller, Work

\* The four things that can happen to a queue keep it in order.
LEMMA QueueMove ==
  ASSUME NEW f \in [Tasks -> Pcs], NEW queue \in Seq(Tasks), NEW at, Holds(f, queue, at),
         NEW t \in Tasks, NEW to, NEW next,
         \/ f[t] \notin at /\ to \in at /\ next = Append(queue, t)
         \/ IsFirst(t, queue) /\ to \notin at /\ next = Tail(queue)
         \/ to \notin at /\ next = Without(t, queue)
         \/ f[t] \notin at /\ to \notin at /\ next = queue
  PROVE  Holds([f EXCEPT ![t] = to], next, at)
<1>1. CASE f[t] \notin at /\ to \in at /\ next = Append(queue, t)
  BY <1>1, QueueJoined, Zenon
<1>2. CASE IsFirst(t, queue) /\ to \notin at /\ next = Tail(queue)
  BY <1>2, QueueGranted, Zenon
<1>3. CASE to \notin at /\ next = Without(t, queue)
  BY <1>3, QueueLeft, Zenon
<1>4. CASE f[t] \notin at /\ to \notin at /\ next = queue
  BY <1>4, QueueKept, Zenon
<1> QED BY <1>1, <1>2, <1>3, <1>4

\* The queues hold who waits for the locks, in the order of the requests.
LEMMA QueueStep ==
  ASSUME TypeOK, QueueOf(rwQueue, RwPcs), QueueOf(mutexQueue, {"mutex"}),
         NEW t \in Tasks, Caller(t)
  PROVE  QueueOf(rwQueue, RwPcs)' /\ QueueOf(mutexQueue, {"mutex"})'
<1>1. Holds(pc, rwQueue, RwPcs) /\ Holds(pc, mutexQueue, {"mutex"})
  BY DEF Holds, QueueOf
<1>2. /\ TaskStateOK /\ pc \in [Tasks -> Pcs]
      /\ rwQueue \in Seq(Tasks) /\ mutexQueue \in Seq(Tasks)
  BY DEF TypeOK, TaskStateOK
<1> DEFINE to == pc'[t]
<1>3. pc' = [pc EXCEPT ![t] = to]
  BY <1>2, OwnPlace
<1>4. /\ \/ pc[t] \notin RwPcs /\ to \in RwPcs /\ rwQueue' = Append(rwQueue, t)
         \/ IsFirst(t, rwQueue) /\ to \notin RwPcs /\ rwQueue' = Tail(rwQueue)
         \/ to \notin RwPcs /\ rwQueue' = Without(t, rwQueue)
         \/ pc[t] \notin RwPcs /\ to \notin RwPcs /\ rwQueue' = rwQueue
      /\ \/ pc[t] \notin {"mutex"} /\ to \in {"mutex"} /\ mutexQueue' = Append(mutexQueue, t)
         \/ IsFirst(t, mutexQueue) /\ to \notin {"mutex"} /\ mutexQueue' = Tail(mutexQueue)
         \/ to \notin {"mutex"} /\ mutexQueue' = Without(t, mutexQueue)
         \/ pc[t] \notin {"mutex"} /\ to \notin {"mutex"} /\ mutexQueue' = mutexQueue
  BY <1>2, RwQueueMove, MutexQueueMove
<1> HIDE DEF to
<1>5. Holds([pc EXCEPT ![t] = to], rwQueue', RwPcs)
  BY <1>1, <1>2, <1>4, QueueMove, Zenon
<1>6. Holds([pc EXCEPT ![t] = to], mutexQueue', {"mutex"})
  BY <1>1, <1>2, <1>4, QueueMove, Zenon
<1>7. Holds(pc', rwQueue', RwPcs) /\ Holds(pc', mutexQueue', {"mutex"})
  BY <1>3, <1>5, <1>6
<1> QED BY <1>7 DEF Holds, QueueOf

\* A slave keeps its leader until the leader has notified it.
LEMMA SlaveStep ==
  ASSUME "write_lock" \notin CancelAt, SyncInv, ResetHasLeader, SlaveInv,
         NEW t \in Tasks, Caller(t)
  PROVE  SlaveInv'
<1> USE DEF SyncInv, TaskStateOK
<1> SUFFICES ASSUME NEW s \in Tasks
             PROVE  /\ pc'[s] \in {"slave", "subscribed"} => started' = GP_ID_MAX
                    /\ pc'[s] = "reset_wait" /\ ~notified'[s] =>
                         \E u \in Tasks : pc'[u] \in LeaderPcs
  BY DEF SlaveInv
<1>1. ASSUME pc'[s] \in {"slave", "subscribed"} PROVE started' = GP_ID_MAX
  <2>1. CASE pc[s] \in {"slave", "subscribed"}
    <3>1. started = GP_ID_MAX
      BY <2>1 DEF SlaveInv
    <3>2. ~ResetStarted(t)
      BY <2>1 DEF ResetStarted, LockInv, ReadPcs, WritePcs
    <3> QED
      BY <3>1, <3>2
      DEF Caller, GetId, Work, Call, ReadLocked, IncStarted, LeaderUnlock, WriteLocked,
          ResetFinished, ResetUnlock, ResetNotify, ResetWake, SlaveSubscribe,
          SlaveUnlock, SlaveRetry, RequestMutex, MutexLocked, CheckFinished, LoadStarted,
          GpBegin, GpEnd, PublishFinished, Unlock, Return, Cancel
  <2>2. CASE pc[s] \notin {"slave", "subscribed"}
    <3>1. s = t
      BY <1>1, <2>2, OthersStay
    <3> QED
      BY <1>1, <2>2, <3>1
      DEF Caller, GetId, Work, Call, ReadLocked, IncStarted, LeaderUnlock, WriteLocked,
          ResetStarted, ResetFinished, ResetUnlock, ResetNotify, ResetWake, SlaveSubscribe,
          SlaveUnlock, SlaveRetry, RequestMutex, MutexLocked, CheckFinished, LoadStarted,
          GpBegin, GpEnd, PublishFinished, Unlock, Return, Cancel, Forget, SetPc
  <2> QED BY <2>1, <2>2
<1>2. ASSUME pc'[s] = "reset_wait", ~notified'[s] PROVE \E u \in Tasks : pc'[u] \in LeaderPcs
  <2>1. \/ pc[s] = "subscribed" /\ s = t
        \/ pc[s] = "reset_wait" /\ ~notified[s] /\ ~ResetNotify(t)
    <3>1. CASE s = t
      BY <1>2, <3>1
      DEF Caller, GetId, Work, Call, ReadLocked, IncStarted, LeaderUnlock, WriteLocked,
          ResetStarted, ResetFinished, ResetUnlock, ResetNotify, ResetWake, SlaveSubscribe,
          SlaveUnlock, SlaveRetry, RequestMutex, MutexLocked, CheckFinished, LoadStarted,
          GpBegin, GpEnd, PublishFinished, Unlock, Return, Cancel, Forget, SetPc
    <3>2. CASE s # t
      <4>1. pc[s] = "reset_wait"
        BY <1>2, <3>2, OthersStay
      <4>2. ~notified[s] /\ ~ResetNotify(t)
        BY <1>2, <3>2, <4>1
        DEF Caller, GetId, Work, Call, ReadLocked, IncStarted, LeaderUnlock, WriteLocked,
            ResetStarted, ResetFinished, ResetUnlock, ResetNotify, ResetWake, SlaveSubscribe,
            SlaveUnlock, SlaveRetry, RequestMutex, MutexLocked, CheckFinished, LoadStarted,
            GpBegin, GpEnd, PublishFinished, Unlock, Return, Cancel, Forget, SetPc
      <4> QED BY <4>1, <4>2
    <3> QED BY <3>1, <3>2
  <2>2. PICK u \in Tasks : pc[u] \in LeaderPcs
    BY <2>1 DEF SlaveInv, ResetHasLeader, LeaderPcs, WritePcs
  <2>3. ~ResetNotify(t)
    BY <1>2, <2>1 DEF ResetNotify
  <2>4. pc'[u] \in LeaderPcs
    <3>1. CASE u # t
      BY <2>2, <3>1, OthersStay
    <3>2. CASE u = t
      BY <2>2, <2>3, <3>2, SyncAssumption
      DEF LeaderPcs, WritePcs, AwaitPcs, Caller, GetId, Work, Call, ReadLocked, IncStarted,
          LeaderUnlock, WriteLocked, ResetStarted, ResetFinished, ResetUnlock, ResetWake,
          SlaveSubscribe, SlaveUnlock, SlaveRetry, RequestMutex, MutexLocked, CheckFinished,
          LoadStarted, GpBegin, GpEnd, PublishFinished, Unlock, Return, Cancel, Forget, SetPc
    <3> QED BY <3>1, <3>2
  <2> QED BY <2>4
<1> QED BY <1>1, <1>2

\* The queues of the locks hold exactly the callers that wait for them, and a
\* slave has a leader for as long as it has to wait, as long as a leader's
\* future is not dropped while it waits for the write guard.
THEOREM ProgressInvariance ==
  ASSUME "write_lock" \notin CancelAt
  PROVE  Spec => []ProgressInv
<1>1. Init => ProgressInv
  BY DEF Init, ProgressInv, SlaveInv, QueueOf
<1>2. TypeOK /\ SyncInv /\ ResetHasLeader /\ ProgressInv /\ [Next]_vars => ProgressInv'
  <2> SUFFICES ASSUME TypeOK, SyncInv, ResetHasLeader, ProgressInv, [Next]_vars
               PROVE  ProgressInv'
    OBVIOUS
  <2>1. ASSUME NEW t \in Tasks, Caller(t) PROVE ProgressInv'
    BY <2>1, SlaveStep, QueueStep DEF ProgressInv, RwPcs
  <2>2. CASE UNCHANGED <<started, pc, rwQueue, mutexQueue, notified>>
    BY <2>2 DEF ProgressInv, SlaveInv, QueueOf
  <2>3. ASSUME NEW S \in SUBSET Uses, Unlink(S) \/ EndUses(S)
        PROVE  UNCHANGED <<started, pc, rwQueue, mutexQueue, notified>>
    BY <2>3, EnvironmentStep
  <2> QED BY <2>1, <2>2, <2>3 DEF Next, vars
<1> QED BY <1>1, <1>2, TypesHold, SyncInvariance, ResetIsLed, PTL DEF Spec

\* If somebody waits for a lock, the first in its queue does.
LEMMA FirstWaits ==
  ASSUME NEW queue \in Seq(Tasks), NEW at, QueueOf(queue, at),
         NEW t \in Tasks, pc[t] \in at
  PROVE  \E h \in Tasks : pc[h] \in at /\ IsFirst(h, queue)
<1>1. PICK i \in 1 .. Len(queue) : queue[i] = t
  BY DEF QueueOf
<1>2. queue # <<>> /\ 1 \in 1 .. Len(queue) /\ Head(queue) = queue[1] /\ queue[1] \in Tasks
  BY <1>1
<1> QED BY <1>2 DEF QueueOf, IsFirst

\* Who holds a lock can go on; who waits for one is behind somebody who holds
\* it, or first.
LEMMA SomebodyGoesOn ==
  ASSUME TypeOK, ProgressInv, NEW t \in Tasks, pc[t] # "idle"
  PROVE  \E u \in Tasks : pc[u] # "idle" /\ ~Blocked(u)
<1> USE DEF TypeOK, TaskStateOK
<1>1. ASSUME NEW r \in Tasks, pc[r] \in ReadPcs
      PROVE  \E u \in Tasks : pc[u] # "idle" /\ ~Blocked(u)
  <2>1. CASE pc[r] # "mutex"
    BY <1>1, <2>1 DEF Blocked, ReadPcs, HasIdPcs, MutexPcs
  <2>2. CASE pc[r] = "mutex"
    <3>1. PICK h \in Tasks : pc[h] = "mutex" /\ IsFirst(h, mutexQueue)
      BY <2>2, FirstWaits DEF ProgressInv
    <3>2. CASE MutexFree
      BY <3>1, <3>2 DEF Blocked
    <3>3. CASE ~MutexFree
      BY <3>3 DEF MutexFree, MutexPcs, Blocked
    <3> QED BY <3>2, <3>3
  <2> QED BY <2>1, <2>2
<1>2. ASSUME NEW w \in Tasks, pc[w] \in WritePcs
      PROVE  \E u \in Tasks : pc[u] # "idle" /\ ~Blocked(u)
  BY <1>2 DEF WritePcs, Blocked
<1>3. CASE NoReader /\ NoWriter
  <2>1. ASSUME NEW q \in Tasks, pc[q] \in RwPcs
        PROVE  \E u \in Tasks : pc[u] # "idle" /\ ~Blocked(u)
    <3>1. PICK h \in Tasks : pc[h] \in RwPcs /\ IsFirst(h, rwQueue)
      BY <2>1, FirstWaits DEF ProgressInv, RwPcs
    <3> QED BY <1>3, <3>1 DEF Blocked, RwPcs
  <2>2. CASE pc[t] = "reset_wait"
    <3>1. CASE notified[t]
      BY <2>2, <3>1 DEF Blocked
    <3>2. CASE ~notified[t]
      <4>1. PICK u \in Tasks : pc[u] \in LeaderPcs
        BY <2>2, <3>2 DEF ProgressInv, SlaveInv
      <4>2. pc[u] \in {"write_lock", "reset_notify"}
        BY <1>3, <4>1 DEF LeaderPcs, NoReader, NoWriter, ReadPcs
      <4> QED BY <2>1, <4>2 DEF RwPcs, Blocked
    <3> QED BY <3>1, <3>2
  <2>3. CASE pc[t] \in {"reset_notify", "reset_wake", "done"}
    BY <2>3 DEF Blocked
  <2>4. pc[t] \in RwPcs \/ pc[t] = "reset_wait" \/ pc[t] \in {"reset_notify", "reset_wake", "done"}
    BY <1>3 DEF NoReader, NoWriter, Pcs, RwPcs
  <2> QED BY <2>1, <2>2, <2>3, <2>4
<1> QED BY <1>1, <1>2, <1>3 DEF NoReader, NoWriter

\* However many tasks call synchronize_rcu, the two locks and the notification
\* of a reset never leave all of them waiting for each other.
THEOREM CallersNeverDeadlock ==
  ASSUME "write_lock" \notin CancelAt
  PROVE  Spec => []NotAllBlocked
<1>1. TypeOK /\ ProgressInv => NotAllBlocked
  BY SomebodyGoesOn DEF NotAllBlocked
<1> QED BY <1>1, TypesHold, ProgressInvariance, PTL
=============================================================================
