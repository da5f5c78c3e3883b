-------------------------- MODULE RcuWakeupProofs --------------------------
(***************************************************************************)
(* No wakeup is lost: SleepJustified of RcuCore, for every set of threads, *)
(* with cancellation in any phase and with manual polling, as long as no   *)
(* thread ends with the slot a panicked root future left behind.           *)
(***************************************************************************)
EXTENDS RcuCoreProofs

\* A step of thread t's hooks that leaves the waiter alone: if t was going to
\* wake the waiter it still is, and t does not skip a notification it owes.
LEMMA QuietHook ==
  ASSUME WakeInv, TypeOK', NEW t \in Threads,
         UNCHANGED <<epoch, notif, gpVars, subVars>>,
         \A u \in Threads \ {t} : /\ state'[u] = state[u]
                                  /\ pc'[u] = pc[u]
                                  /\ seen'[u] = seen[u],
         gpOn # t,
         pc[t] \notin NotifyPcs,
         Blocks(t) => Stirring(t)',
         pc'[t] = "park_notify" => pc[t] = "idle",
         pc'[t] = "after_store" => seen'[t] = epoch,
         pc'[t] = "idle" /\ gpPc = "await" /\ info = t => LastSeen(state'[t]) = epoch
  PROVE  WakeInv'
<1>0. TypeOK /\ WaiterInv /\ OwnThreadInv /\ WakerInv
  BY DEF WakeInv
<1>1. WaiterInv'
  BY <1>0 DEF WaiterInv, gpVars, subVars
<1>2. OwnThreadInv'
  BY <1>0 DEF OwnThreadInv, TypeOK, gpVars, subVars
<1>3. \A u \in Threads : Stirring(u) => Stirring(u)'
  <2> SUFFICES ASSUME NEW u \in Threads, Stirring(u) PROVE Stirring(u)'
    OBVIOUS
  <2>1. CASE u = t
    BY <2>1 DEF Stirring
  <2>2. CASE u # t
    BY <2>2 DEF Stirring, Blocks, SawEpoch, gpVars
  <2> QED BY <2>1, <2>2
<1>30. \A u \in Threads : Unheard(u) => Unheard(u)'
  <2> SUFFICES ASSUME NEW u \in Threads, Unheard(u) PROVE Unheard(u)'
    OBVIOUS
  <2>1. CASE u = t
    BY <1>0, <1>3, <2>1 DEF Unheard, Stirring, WaiterInv
  <2>2. CASE u # t
    BY <2>2 DEF Unheard, Blocks, SawEpoch, gpVars
  <2> QED BY <2>1, <2>2
<1>4. ASSUME gpPc = "await", info = t, pc[t] = "idle" PROVE ~Stirring(t)
  <2>1. LastSeen(state[t]) = epoch
    BY <1>0, <1>4, CoreAssumption DEF OwnThreadInv
  <2>2. SawEpoch(epoch)
    BY <1>0, <1>4, EpochArith DEF SawEpoch, WaiterInv, TypeOK, Phases
  <2> QED BY <1>4, <2>1, <2>2 DEF Stirring, Blocks, NotifyPcs
<1>5. WakerInv'
  <2>1. gpPc' = gpPc /\ changed' = changed /\ info' = info
    BY DEF gpVars, subVars
  <2>2. gpPc = "sleep" /\ ~changed => \E u \in Threads : Unheard(u)'
    BY <1>0, <1>30 DEF WakerInv
  <2>3. ASSUME gpPc = "await", info # NoThread
        PROVE  \E u \in Threads : Stirring(u)' /\ ~(pc'[u] = "park_notify" /\ info = u)
    <3>1. PICK u \in Threads : Stirring(u) /\ ~(pc[u] = "park_notify" /\ info = u)
      BY <1>0, <2>3 DEF WakerInv
    <3>2. ~(pc'[u] = "park_notify" /\ info = u)
      BY <1>4, <2>3, <3>1
    <3> QED BY <1>3, <3>1, <3>2
  <2> QED BY <2>1, <2>2, <2>3 DEF WakerInv
<1> QED BY <1>1, <1>2, <1>5 DEF WakeInv

\* A thread that shows 0 has not seen the epoch id any wait asks for.
LEMMA NeverSeenBlocks ==
  ASSUME epoch \in EpochIds PROVE ~SawEpoch(0)
  BY EpochArith DEF SawEpoch, EPOCH_ID_MIN, EpochIds

\* What the hooks' stores do to a thread that keeps the waiter waiting.
LEMMA WakeQuietStep ==
  ASSUME WakeInv, TypeOK', NEW t \in Threads,
         \/ SeeNewEpochId(t) \/ PublishSeen(t) \/ OnAfterTaskPoll(t)
         \/ LeaveIdle(t) \/ OnThreadUnpark(t) \/ EndPoll(t)
  PROVE  WakeInv'
<1> DEFINE Frame == /\ UNCHANGED <<epoch, notif, gpVars, subVars>>
                    /\ \A u \in Threads \ {t} : /\ state'[u] = state[u]
                                                /\ pc'[u] = pc[u]
                                                /\ seen'[u] = seen[u]
                    /\ gpOn # t
                    /\ pc[t] \notin NotifyPcs
           Quiet == /\ Blocks(t) => Stirring(t)'
                    /\ pc'[t] = "park_notify" => pc[t] = "idle"
                    /\ pc'[t] = "after_store" => seen'[t] = epoch
                    /\ pc'[t] = "idle" /\ gpPc = "await" /\ info = t
                         => LastSeen(state'[t]) = epoch
<1>0. TypeOK /\ WaiterInv /\ OwnThreadInv
  BY DEF WakeInv
<1>00. pc[t] # "poll" => gpOn # t
  BY <1>0, CoreAssumption DEF WaiterInv, TypeOK, GpPcs
<1>000. Frame /\ Quiet => WakeInv'
  BY QuietHook
<1>01. UNCHANGED <<epoch, gpVars>> /\ state'[t] = state[t] => (Blocks(t) => Stirring(t)')
  BY DEF Blocks, Stirring, SawEpoch, gpVars
<1>02. pc'[t] \in NotifyPcs => Stirring(t)'
  BY DEF Stirring
<1> HIDE DEF Frame, Quiet
<1>1. CASE SeeNewEpochId(t)
  <2>1. Frame
    BY <1>0, <1>00, <1>1 DEF Frame, SeeNewEpochId, SetPc, TypeOK, LoadPcs, NotifyPcs
  <2>2. Quiet
    BY <1>0, <1>01, <1>1 DEF Quiet, SeeNewEpochId, SetPc, TypeOK
  <2> QED BY <2>1, <2>2, <1>000
<1>2. CASE PublishSeen(t)
  <2>1. Frame
    BY <1>0, <1>00, <1>2 DEF Frame, PublishSeen, SetPc, SetState, TypeOK, NotifyPcs
  <2>2. Quiet
    BY <1>0, <1>02, <1>2 DEF Quiet, PublishSeen, SetPc, TypeOK, NotifyPcs
  <2> QED BY <2>1, <2>2, <1>000
<1>3. CASE OnAfterTaskPoll(t)
  <2>1. Frame
    BY <1>0, <1>00, <1>3 DEF Frame, OnAfterTaskPoll, SetPc, SetState, TypeOK, NotifyPcs
  <2>2. IsBusy(state'[t]) /\ LastSeen(state'[t]) = seen[t]
    BY <1>0, <1>3, EncodeDecode DEF OnAfterTaskPoll, SetState, TypeOK
  <2>3. Blocks(t) => Stirring(t)'
    <3>1. CASE LastSeen(state[t]) # seen[t]
      BY <1>0, <1>02, <1>3, <3>1 DEF OnAfterTaskPoll, SetPc, TypeOK, NotifyPcs
    <3>2. CASE LastSeen(state[t]) = seen[t]
      BY <1>3, <2>2, <3>2 DEF OnAfterTaskPoll, Blocks, Stirring, SawEpoch, gpVars
    <3> QED BY <3>1, <3>2
  <2>4. Quiet
    BY <1>0, <1>3, <2>2, <2>3, CoreAssumption
    DEF Quiet, OnAfterTaskPoll, SetPc, TypeOK, OwnThreadInv
  <2> QED BY <2>1, <2>4, <1>000
<1>4. CASE OnBeforeTaskPoll(t)
  <2>1. Frame
    BY <1>0, <1>00, <1>4 DEF Frame, OnBeforeTaskPoll, SetPc, SetState, TypeOK, NotifyPcs
  <2>2. Blocks(t) => Stirring(t)'
    <3>1. CASE pc[t] = "idle"
      BY <1>0, <1>01, <1>4, <3>1 DEF OnBeforeTaskPoll
    <3>2. CASE pc[t] = "out"
      <4>1. IsBusy(state'[t]) /\ LastSeen(state'[t]) = 0
        BY <1>0, <1>4, <3>2, EncodeDecode, EpochArith DEF OnBeforeTaskPoll, SetState, TypeOK
      <4>2. UNCHANGED <<epoch, gpVars>>
        BY <1>4 DEF OnBeforeTaskPoll
      <4> QED BY <1>0, <4>1, <4>2, NeverSeenBlocks DEF Blocks, Stirring, gpVars, SawEpoch, TypeOK
    <3> QED BY <1>4, <3>1, <3>2 DEF OnBeforeTaskPoll
  <2>3. Quiet
    BY <1>0, <1>4, <2>2 DEF Quiet, OnBeforeTaskPoll, SetPc, TypeOK
  <2> QED BY <2>1, <2>3, <1>000
<1>5. CASE OnThreadPark(t)
  <2>1. Frame
    BY <1>0, <1>00, <1>5 DEF Frame, OnThreadPark, SetPc, SetState, TypeOK, NotifyPcs
  <2>2. Quiet
    BY <1>0, <1>02, <1>5 DEF Quiet, OnThreadPark, SetPc, TypeOK, NotifyPcs
  <2> QED BY <2>1, <2>2, <1>000
<1>6. CASE OnThreadStop(t)
  <2>1. Frame
    BY <1>0, <1>00, <1>6 DEF Frame, OnThreadStop, SetPc, SetState, TypeOK, NotifyPcs
  <2>2. Quiet
    BY <1>0, <1>02, <1>6 DEF Quiet, OnThreadStop, SetPc, TypeOK, NotifyPcs
  <2> QED BY <2>1, <2>2, <1>000
<1>7. CASE OnThreadUnpark(t)
  <2>1. Frame
    BY <1>0, <1>00, <1>7 DEF Frame, OnThreadUnpark, SetPc, SetState, TypeOK, NotifyPcs
  <2>2. IsBusy(state'[t]) /\ LastSeen(state'[t]) = 0
    BY <1>0, <1>7, EncodeDecode, EpochArith DEF OnThreadUnpark, SetState, TypeOK
  <2>3. Blocks(t) => Stirring(t)'
    BY <1>0, <1>7, <2>2, NeverSeenBlocks
    DEF OnThreadUnpark, Blocks, Stirring, gpVars, SawEpoch, TypeOK
  <2>4. Quiet
    BY <1>0, <1>7, <2>3 DEF Quiet, OnThreadUnpark, SetPc, TypeOK
  <2> QED BY <2>1, <2>4, <1>000
<1>8. CASE EndPoll(t)
  <2>1. Frame
    BY <1>0, <1>8 DEF Frame, EndPoll, SetPc, TypeOK, NotifyPcs
  <2>2. Quiet
    BY <1>0, <1>01, <1>8 DEF Quiet, EndPoll, SetPc, TypeOK
  <2> QED BY <2>1, <2>2, <1>000
<1> QED BY <1>1, <1>2, <1>3, <1>4, <1>5, <1>6, <1>7, <1>8 DEF LeaveIdle

\* A panic leaves the slot as it is: its thread blocks the waiter as before.
LEMMA WakePanicStep ==
  ASSUME WakeInv, TypeOK', "exit" \notin AfterPanic, NEW t \in Threads, Panic(t)
  PROVE  WakeInv'
<1>0. TypeOK /\ WaiterInv /\ OwnThreadInv /\ WakerInv
  BY DEF WakeInv
<1>1. CASE RootPanic(t) \/ ReEnter(t)
  <2>1. gpOn # t
    BY <1>0, <1>1, CoreAssumption DEF RootPanic, ReEnter, WaiterInv, TypeOK, GpPcs
  <2>2. /\ UNCHANGED <<epoch, state, seen, notif, gpVars, subVars>>
        /\ pc[t] \in {"poll", "panicked"} /\ pc'[t] \in {"poll", "panicked"}
        /\ \A u \in Threads \ {t} : pc'[u] = pc[u]
    BY <1>0, <1>1 DEF RootPanic, ReEnter, SetPc, TypeOK
  <2>3. Blocks(t) => Stirring(t)'
    BY <2>2 DEF Blocks, Stirring, SawEpoch, gpVars
  <2> QED BY <2>1, <2>2, <2>3, QuietHook DEF NotifyPcs
<1>2. CASE OuterUnlock(t)
  <2>1. UNCHANGED <<epoch, threadVars, gpVars, subVars>>
    BY <1>2 DEF OuterUnlock
  <2> QED
    BY <1>0, <2>1
    DEF WakeInv, WaiterInv, OwnThreadInv, WakerInv, Stirring, Unheard, Blocks, SawEpoch,
        threadVars, gpVars, subVars
<1> QED BY <1>1, <1>2 DEF Panic, ThreadExit

\* A hook on its way to notify changes the waiter's count, or is still going
\* to, or nobody is listening.
LEMMA WakeCountStep ==
  ASSUME WakeInv, TypeOK', NEW t \in Threads, HookNotify(t) \/ HookCount(t)
  PROVE  WakeInv'
<1>0. TypeOK /\ WaiterInv /\ OwnThreadInv /\ WakerInv
  BY DEF WakeInv
<1>1. /\ UNCHANGED <<epoch, state, seen, gpVars, hasSub, info>>
      /\ pc[t] \in NotifyPcs /\ notif[t] # "wake"
      /\ \A u \in Threads \ {t} : pc'[u] = pc[u] /\ notif'[u] = notif[u]
      /\ hasSub => pc'[t] = pc[t] /\ (changed' \/ notif'[t] # "wake")
      /\ changed => changed'
      /\ pc'[t] = pc[t] \/ notif'[t] = "load"
  BY <1>0 DEF HookNotify, HookCount, CountNotification, SetPc, TypeOK, subVars
<1>2. gpOn # t
  BY <1>0, <1>1, CoreAssumption DEF WaiterInv, TypeOK, GpPcs, NotifyPcs
<1>3. WaiterInv'
  BY <1>0, <1>1, <1>2 DEF WaiterInv, gpVars
<1>4. gpPc = "await" /\ info # NoThread => pc' = pc
  BY <1>0, <1>1 DEF WaiterInv, TypeOK
<1>5. OwnThreadInv'
  BY <1>0, <1>1, <1>4 DEF OwnThreadInv, gpVars
<1>6. WakerInv'
  <2>1. gpPc = "sleep" /\ ~changed' => \E u \in Threads : Unheard(u)'
    BY <1>0, <1>1 DEF WaiterInv, Unheard
  <2>2. ASSUME gpPc = "await", info # NoThread
        PROVE  \E u \in Threads : Stirring(u)' /\ ~(pc'[u] = "park_notify" /\ info' = u)
    BY <1>0, <1>1, <1>4, <2>2 DEF WakerInv, Stirring, Blocks, SawEpoch, gpVars
  <2> QED BY <1>1, <2>1, <2>2 DEF WakerInv, gpVars
<1> QED BY <1>3, <1>5, <1>6 DEF WakeInv

\* A counted notification wakes the registered waiter, or is the parking
\* thread's own, which the waiter can do without.
LEMMA WakeNotifyStep ==
  ASSUME WakeInv, TypeOK', NEW t \in Threads, HookWake(t)
  PROVE  WakeInv'
<1>0. TypeOK /\ WaiterInv /\ OwnThreadInv /\ WakerInv
  BY DEF WakeInv
<1>1. /\ UNCHANGED <<epoch, state, seen, gpVars, changed>>
      /\ pc[t] \in NotifyPcs /\ notif[t] = "wake" /\ notif'[t] = "load"
      /\ \A u \in Threads \ {t} : pc'[u] = pc[u] /\ notif'[u] = notif[u]
      /\ pc'[t] = AfterNotify(pc[t])
  BY <1>0 DEF HookWake, WakeSubscriber, SetPc, TypeOK, subVars
<1>2. gpOn # t
  BY <1>0, <1>1, CoreAssumption DEF WaiterInv, TypeOK, GpPcs, NotifyPcs
<1>3. \/ info' = NoThread /\ info # NoThread
      \/ info' = info /\ hasSub' = hasSub
         /\ (info = NoThread \/ (info = t /\ pc[t] = "park_notify"))
  BY DEF HookWake, WakeSubscriber, subVars
<1>4. WaiterInv'
  BY <1>0, <1>1, <1>2, <1>3 DEF WaiterInv, gpVars
<1>5. info' # NoThread => info' = t /\ info = t /\ pc'[t] = "parked"
  BY <1>1, <1>3 DEF AfterNotify
<1>6. OwnThreadInv'
  BY <1>1, <1>5 DEF OwnThreadInv, gpVars
<1>7. \A u \in Threads \ {t} : /\ Stirring(u) => Stirring(u)'
                               /\ Unheard(u) => Unheard(u)'
  BY <1>1 DEF Stirring, Unheard, Blocks, SawEpoch, gpVars
<1>8. Blocks(t) => Blocks(t)'
  BY <1>1 DEF Blocks, SawEpoch, gpVars
<1>9. WakerInv'
  <2>1. gpPc = "sleep" /\ ~changed => \E u \in Threads : Unheard(u)'
    BY <1>0, <1>1, <1>7, <1>8 DEF WakerInv, Unheard
  <2>2. ASSUME gpPc = "await", info' # NoThread
        PROVE  \E u \in Threads : Stirring(u)' /\ ~(pc'[u] = "park_notify" /\ info' = u)
    <3>1. PICK u \in Threads : Stirring(u) /\ ~(pc[u] = "park_notify" /\ info = u)
      BY <1>0, <1>5, <2>2, CoreAssumption DEF WakerInv
    <3>2. u # t
      BY <1>3, <1>5, <2>2, <3>1
    <3> QED BY <1>1, <1>5, <1>7, <2>2, <3>1, <3>2
  <2> QED BY <1>1, <2>1, <2>2 DEF WakerInv, gpVars
<1> QED BY <1>4, <1>6, <1>9 DEF WakeInv

\* Readers, writers and the waiter's own steps.
LEMMA WakeGpStep ==
  ASSUME WakeInv, TypeOK',
         \/ \E t \in Threads : Read(t) \/ ReadUnlock(t) \/ GpBegin(t) \/ GpRepoll(t)
         \/ \E x \in Objs : Swap(x)
         \/ GpStep \/ GpBeginUntracked \/ GpCancel
  PROVE  WakeInv'
<1>0. TypeOK /\ WaiterInv /\ OwnThreadInv /\ WakerInv
  BY DEF WakeInv
<1>1. pc' = pc /\ state' = state /\ seen' = seen /\ notif' = notif
  BY DEF Read, ReadUnlock, GpBegin, GpRepoll, Swap, GpStep, GpSubscribe, GpScan,
         GpResetSeen, GpComplete, GpSleep, GpBeginUntracked, GpCancel, threadVars
<1>2. ASSUME NEW t \in Threads, Read(t) \/ ReadUnlock(t) PROVE WakeInv'
  <2>1. UNCHANGED <<epoch, gpVars, subVars>>
    BY <1>2 DEF Read, ReadUnlock
  <2> QED
    BY <1>0, <1>1, <2>1
    DEF WakeInv, WaiterInv, OwnThreadInv, WakerInv, Stirring, Unheard, Blocks, SawEpoch,
        gpVars, subVars
<1>3. ASSUME NEW x \in Objs, Swap(x) PROVE WakeInv'
  <2>1. UNCHANGED <<epoch, gpVars, subVars>>
    BY <1>3 DEF Swap
  <2> QED
    BY <1>0, <1>1, <2>1
    DEF WakeInv, WaiterInv, OwnThreadInv, WakerInv, Stirring, Unheard, Blocks, SawEpoch,
        gpVars, subVars
<1>4. ASSUME NEW t \in Threads, GpBegin(t) PROVE WakeInv'
  BY <1>0, <1>1, <1>4
  DEF WakeInv, WaiterInv, OwnThreadInv, WakerInv, GpBegin, MayPoll, subVars
<1>5. CASE GpSubscribe
  BY <1>0, <1>1, <1>5
  DEF WakeInv, WaiterInv, OwnThreadInv, WakerInv, GpSubscribe, Subscribe
<1>6. ASSUME NEW u \in Threads, GpScan(u) PROVE WakeInv'
  <2>1. UNCHANGED <<epoch, gpPhase, gpOn, subVars>> /\ gpPc = "scan"
    BY <1>6 DEF GpScan
  <2>2. gpPc' = "sleep" => Unheard(u)'
    BY <1>1, <1>6, <2>1 DEF GpScan, SlotPasses, Unheard, Blocks, SawEpoch
  <2>3. gpPc' \in {"scan", "sleep"}
    BY <1>6 DEF GpScan
  <2> QED
    BY <1>0, <1>1, <2>1, <2>2, <2>3
    DEF WakeInv, WaiterInv, OwnThreadInv, WakerInv, subVars
<1>7. CASE GpResetSeen
  BY <1>0, <1>1, <1>7
  DEF WakeInv, WaiterInv, OwnThreadInv, WakerInv, GpResetSeen, Unsubscribe
<1>8. CASE GpComplete
  BY <1>0, <1>1, <1>8
  DEF WakeInv, WaiterInv, OwnThreadInv, WakerInv, GpComplete, Unsubscribe
<1>9. CASE GpCancel
  BY <1>0, <1>1, <1>9
  DEF WakeInv, WaiterInv, OwnThreadInv, WakerInv, GpCancel, Unsubscribe
<1>10. CASE GpSleep
  <2>1. UNCHANGED <<epoch, gpPhase>> /\ gpPc = "sleep" /\ gpOn \in Threads /\ pc[gpOn] = "poll"
    BY <1>0, <1>10 DEF GpSleep, WaiterInv
  <2>2. CASE changed
    BY <1>0, <1>1, <1>10, <2>1, <2>2
    DEF WakeInv, WaiterInv, OwnThreadInv, WakerInv, GpSleep, Unsubscribe
  <2>3. CASE ~changed
    <3>1. gpPc' = "await" /\ gpOn' = NoThread /\ info' = gpOn /\ UNCHANGED <<hasSub, changed>>
      BY <1>10, <2>3 DEF GpSleep
    <3>2. PICK u \in Threads : Unheard(u)
      BY <1>0, <2>1, <2>3 DEF WakerInv
    <3>3. Stirring(u)' /\ ~(pc'[u] = "park_notify" /\ info' = u)
      BY <1>1, <2>1, <3>1, <3>2 DEF Stirring, Unheard, Blocks, SawEpoch
    <3>4. WakerInv'
      BY <3>1, <3>3 DEF WakerInv
    <3>5. WaiterInv' /\ OwnThreadInv'
      BY <1>0, <1>1, <2>1, <3>1, CoreAssumption DEF WaiterInv, OwnThreadInv
    <3> QED BY <3>4, <3>5 DEF WakeInv
  <2> QED BY <2>2, <2>3
<1>11. ASSUME NEW t \in Threads, GpRepoll(t) PROVE WakeInv'
  <2>1. UNCHANGED <<epoch, gpPhase>> /\ gpPc = "await" /\ pc[t] = "poll" /\ t \notin Roots
    BY <1>11 DEF GpRepoll, MayPoll
  <2>2. CASE changed \/ info = NoThread
    BY <1>0, <1>1, <1>11, <2>1, <2>2
    DEF WakeInv, WaiterInv, OwnThreadInv, WakerInv, GpRepoll, Unsubscribe
  <2>3. CASE ~changed /\ info # NoThread
    <3>1. gpPc' = "await" /\ gpOn' = gpOn /\ info' = t /\ UNCHANGED <<hasSub, changed>>
      BY <1>11, <2>1, <2>3 DEF GpRepoll
    <3>3. PICK u \in Threads : Stirring(u)
      BY <1>0, <2>1, <2>3 DEF WakerInv
    <3>4. Stirring(u)' /\ ~(pc'[u] = "park_notify" /\ info' = u)
      BY <1>1, <2>1, <3>1, <3>3 DEF Stirring, Blocks, SawEpoch
    <3>5. WakerInv'
      BY <3>1, <3>4 DEF WakerInv
    <3>6. WaiterInv' /\ OwnThreadInv'
      BY <1>0, <1>1, <2>1, <2>3, <3>1, CoreAssumption DEF WaiterInv, OwnThreadInv
    <3> QED BY <3>5, <3>6 DEF WakeInv
  <2> QED BY <2>2, <2>3
<1>12. CASE GpBeginUntracked
  BY <1>0, <1>1, <1>12
  DEF WakeInv, WaiterInv, OwnThreadInv, WakerInv, GpBeginUntracked, gpVars, subVars
<1> QED
  BY <1>2, <1>3, <1>4, <1>5, <1>6, <1>7, <1>8, <1>9, <1>10, <1>11, <1>12 DEF GpStep

LEMMA WakeStep == "exit" \notin AfterPanic /\ WakeInv /\ [Next]_vars => WakeInv'
<1> SUFFICES ASSUME "exit" \notin AfterPanic, WakeInv, [Next]_vars PROVE WakeInv'
  OBVIOUS
<1>1. TypeOK'
  BY TypeStep DEF WakeInv
<1>2. CASE UNCHANGED vars
  BY <1>1, <1>2
  DEF vars, threadVars, gpVars, subVars, WakeInv, WaiterInv, OwnThreadInv, WakerInv,
      Stirring, Unheard, Blocks, SawEpoch
<1> QED
  BY <1>1, <1>2, WakeQuietStep, WakePanicStep, WakeCountStep, WakeNotifyStep, WakeGpStep
  DEF Next, Hook

\* The bookkeeping of the waiter's sleep: registration, flag and snapshot agree,
\* and somebody who will not skip it is still to notify a sleeping waiter.
THEOREM WakeInvariance == "exit" \notin AfterPanic => (Spec => []WakeInv)
<1> SUFFICES ASSUME "exit" \notin AfterPanic PROVE Spec => []WakeInv
  OBVIOUS
<1>1. Init => WakeInv
  BY TypeInit DEF Init, WakeInv, WaiterInv, OwnThreadInv, WakerInv
<1>2. WakeInv /\ [Next]_vars => WakeInv'
  BY WakeStep
<1> QED BY <1>1, <1>2, PTL DEF Spec

\* The waiter of a grace period never sleeps without a thread that will wake
\* it: no interleaving of the hooks, the scan, cancellations and polls on
\* changing threads loses a notification, with any number of threads, unless a
\* thread ends with the slot of a panicked root future (which notifies nobody).
THEOREM NoLostWakeup == "exit" \notin AfterPanic => (Spec => []SleepJustified)
<1>1. WakeInv => SleepJustified
  <2> SUFFICES ASSUME WakeInv, gpPc = "await", info # NoThread
               PROVE  \E t \in Threads : ~SlotPasses(t) \/ pc[t] \in NotifyPcs
    BY DEF SleepJustified, Woken
  <2>1. PICK t \in Threads : Stirring(t)
    BY DEF WakeInv, WakerInv
  <2>2. t # gpOn
    BY CoreAssumption DEF WakeInv, WaiterInv
  <2> QED BY <2>1, <2>2, VacantNotBusy DEF Stirring, Blocks, SlotPasses
<1> QED BY <1>1, WakeInvariance, PTL
=============================================================================
