--------------------------- MODULE RcuCoreProofs ---------------------------
(***************************************************************************)
(* Theorems about RcuCore, for every set of threads, every set of objects  *)
(* and every width of the epoch id.                                        *)
(***************************************************************************)
EXTENDS RcuCore, TLAPS

(***************************************************************************)
(* The packed thread state.                                                *)
(***************************************************************************)

\* decode inverts encode (ThreadState::encode, ThreadState::decode).
LEMMA EncodeDecode ==
  ASSUME NEW e \in LastSeenIds, NEW b \in BOOLEAN
  PROVE  /\ Encode(e, b) \in EncodedStates
         /\ LastSeen(Encode(e, b)) = e
         /\ IsBusy(Encode(e, b)) <=> b
  BY EpochMaxAssumption
  DEF Encode, LastSeen, IsBusy, LastSeenIds, EpochIds, EncodedStates, EPOCH_ID_MIN

\* fetch_and(!1) in on_thread_park keeps the epoch id, clears the busy flag,
\* and yields the vacant encoding only if the epoch id was 0.
LEMMA ClearBusyKeepsSeen ==
  ASSUME NEW s \in EncodedStates
  PROVE  /\ ClearBusy(s) \in EncodedStates
         /\ ~IsBusy(ClearBusy(s))
         /\ LastSeen(s) # 0 => ClearBusy(s) # NONE_ENCODED_VALUE
  BY EpochMaxAssumption
  DEF ClearBusy, LastSeen, IsBusy, EncodedStates, NONE_ENCODED_VALUE, EPOCH_ID_MIN

\* A vacant slot is not busy.
LEMMA VacantNotBusy ==
  /\ NONE_ENCODED_VALUE \in EncodedStates
  /\ ~IsBusy(NONE_ENCODED_VALUE)
  BY EpochMaxAssumption DEF NONE_ENCODED_VALUE, EncodedStates, IsBusy, EPOCH_ID_MIN

\* The epoch ids the grace period code writes are epoch ids.
LEMMA EpochArith ==
  /\ EPOCH_ID_MIN \in EpochIds
  /\ EPOCH_ID_MIN + 2 \in EpochIds
  /\ EPOCH_ID_MAX \in EpochIds
  /\ EpochIds \subseteq LastSeenIds
  /\ 0 \in LastSeenIds
  /\ 0 \notin EpochIds
  /\ EpochIds \subseteq Nat
  /\ \A e \in EpochIds : e # EPOCH_ID_MAX => e + 2 \in EpochIds
  BY EpochMaxAssumption DEF EpochIds, LastSeenIds, EPOCH_ID_MIN

-----------------------------------------------------------------------------
(***************************************************************************)
(* Type correctness.                                                       *)
(***************************************************************************)

LEMMA TypeInit == Init => TypeOK
<1> SUFFICES ASSUME Init PROVE TypeOK
  OBVIOUS
<1>1. /\ epoch \in EpochIds
      /\ state \in [Threads -> EncodedStates]
      /\ seen \in [Threads -> LastSeenIds]
  BY EpochArith, VacantNotBusy DEF Init
<1>2. pc \in [Threads -> Pcs] /\ notif \in [Threads -> NotifSteps]
  BY DEF Init, Pcs, NotifSteps
<1>3. held \in [Threads -> SUBSET Objs] /\ outer \in [Threads -> SUBSET Objs]
  BY DEF Init
<1> QED
  BY <1>1, <1>2, <1>3 DEF Init, TypeOK, GpPcs, Phases

LEMMA TypeStep == TypeOK /\ [Next]_vars => TypeOK'
<1> SUFFICES ASSUME TypeOK, [Next]_vars PROVE TypeOK'
  OBVIOUS
<1> USE DEF TypeOK
<1>1. ASSUME NEW t \in Threads, OnBeforeTaskPoll(t) PROVE TypeOK'
  BY <1>1, EncodeDecode, EpochArith
  DEF OnBeforeTaskPoll, SetPc, SetState, dataVars, gpVars, subVars, Pcs, LoadPcs
<1>2. ASSUME NEW t \in Threads, OnThreadUnpark(t) PROVE TypeOK'
  BY <1>2, EncodeDecode, EpochArith
  DEF OnThreadUnpark, SetPc, SetState, dataVars, gpVars, subVars, Pcs, LoadPcs
<1>3. ASSUME NEW t \in Threads, SeeNewEpochId(t) PROVE TypeOK'
  BY <1>3, EpochArith
  DEF SeeNewEpochId, SetPc, dataVars, gpVars, subVars, Pcs, StorePcs
<1>4. ASSUME NEW t \in Threads, PublishSeen(t) PROVE TypeOK'
  BY <1>4, EncodeDecode, EpochArith
  DEF PublishSeen, SetPc, SetState, dataVars, gpVars, subVars, Pcs, NotifyPcs
<1>5. ASSUME NEW t \in Threads, EndPoll(t) PROVE TypeOK'
  BY <1>5, EpochArith
  DEF EndPoll, SetPc, dataVars, gpVars, subVars, Pcs, StorePcs
<1>6. ASSUME NEW t \in Threads, OnAfterTaskPoll(t) PROVE TypeOK'
  BY <1>6, EncodeDecode, EpochArith
  DEF OnAfterTaskPoll, SetPc, SetState, dataVars, gpVars, subVars, Pcs, NotifyPcs
<1>7. ASSUME NEW t \in Threads, OnThreadPark(t) PROVE TypeOK'
  BY <1>7, ClearBusyKeepsSeen
  DEF OnThreadPark, SetPc, SetState, dataVars, gpVars, subVars, Pcs, NotifyPcs
<1>8. ASSUME NEW t \in Threads, OnThreadStop(t) PROVE TypeOK'
  BY <1>8, VacantNotBusy
  DEF OnThreadStop, SetPc, SetState, dataVars, gpVars, subVars, Pcs, NotifyPcs
<1>9. ASSUME NEW t \in Threads, HookNotify(t) \/ HookCount(t) \/ HookWake(t) PROVE TypeOK'
  <2>1. AfterNotify(pc[t]) \in Pcs
    BY <1>9 DEF HookNotify, HookCount, HookWake, AfterNotify, NotifyPcs, Pcs
  <2>2. hasSub' \in BOOLEAN /\ changed' \in BOOLEAN /\ info' \in Threads \cup {NoThread}
    BY <1>9 DEF HookNotify, HookCount, HookWake, CountNotification, WakeSubscriber, subVars
  <2> QED
    BY <1>9, <2>1, <2>2
    DEF HookNotify, HookCount, HookWake, SetPc, NotifSteps, dataVars, gpVars
<1>10. ASSUME NEW t \in Threads, Read(t) PROVE TypeOK'
  BY <1>10 DEF Read, dataVars, gpVars, subVars
<1>11. ASSUME NEW t \in Threads, ReadUnlock(t) PROVE TypeOK'
  BY <1>11 DEF ReadUnlock, dataVars, gpVars, subVars
<1>12. ASSUME NEW x \in Objs, Swap(x) PROVE TypeOK'
  BY <1>12 DEF Swap, threadVars, gpVars, subVars
<1>13. ASSUME NEW t \in Threads, GpBegin(t) PROVE TypeOK'
  BY <1>13, EpochArith DEF GpBegin, threadVars, dataVars, subVars, GpPcs, Phases
<1>14. ASSUME NEW t \in Threads, GpRepoll(t) PROVE TypeOK'
  BY <1>14 DEF GpRepoll, Unsubscribe, threadVars, dataVars, GpPcs
<1>15. CASE GpSubscribe
  BY <1>15 DEF GpSubscribe, Subscribe, threadVars, dataVars, GpPcs
<1>16. ASSUME NEW u \in Threads, GpScan(u) PROVE TypeOK'
  BY <1>16 DEF GpScan, threadVars, dataVars, subVars, GpPcs
<1>17. CASE GpResetSeen
  BY <1>17, EpochArith DEF GpResetSeen, Unsubscribe, threadVars, dataVars, GpPcs, Phases
<1>18. CASE GpComplete
  BY <1>18 DEF GpComplete, Unsubscribe, threadVars, GpPcs, Phases
<1>19. CASE GpSleep
  BY <1>19 DEF GpSleep, Unsubscribe, threadVars, dataVars, GpPcs
<1>20. CASE GpCancel
  BY <1>20 DEF GpCancel, Unsubscribe, threadVars, dataVars, GpPcs, Phases
<1>21. CASE UNCHANGED vars
  BY <1>21 DEF vars, threadVars, dataVars, gpVars, subVars
<1>22. ASSUME NEW t \in Threads, Panic(t) PROVE TypeOK'
  BY <1>22, VacantNotBusy
  DEF Panic, RootPanic, ThreadExit, ReEnter, OuterUnlock, SetPc, SetState, threadVars,
      dataVars, gpVars, subVars, Pcs
<1>23. CASE GpBeginUntracked
  BY <1>23, EpochArith DEF GpBeginUntracked, threadVars, dataVars, gpVars, subVars
<1> QED
  BY <1>1, <1>2, <1>3, <1>4, <1>5, <1>6, <1>7, <1>8, <1>9, <1>10, <1>11, <1>12,
     <1>13, <1>14, <1>15, <1>16, <1>17, <1>18, <1>19, <1>20, <1>21, <1>22, <1>23
  DEF Next, Hook, LeaveIdle, GpStep

\* Every reachable state is well typed: in particular the epoch id never
\* leaves the even values EPOCH_ID_MIN .. EPOCH_ID_MAX (epoch_id_set).
THEOREM TypeCorrect == Spec => []TypeOK
  BY TypeInit, TypeStep, PTL DEF Spec

-----------------------------------------------------------------------------
(***************************************************************************)
(* Inductive invariance.                                                   *)
(***************************************************************************)

\* Era(e) is a set of epoch ids that holds e, excludes EPOCH_ID_MIN and
\* everything after e; with cancellation it only grows with e.
LEMMA EraFacts ==
  ASSUME NEW e \in EpochIds, e >= EPOCH_ID_MIN + 2
  PROVE  /\ e \in Era(e)
         /\ Era(e) \subseteq EpochIds
         /\ \A d \in Era(e) : EPOCH_ID_MIN < d /\ d <= e
         /\ CancelPhases # {} /\ e + 2 \in EpochIds =>
              Era(e) \cup {e + 2} \subseteq Era(e + 2)
  BY EpochMaxAssumption DEF Era, EpochIds, EPOCH_ID_MIN

\* What a step of a hook has to establish: it changes the slot, the place and
\* the register of one thread, which is not inside a read-side section
\* afterwards, and does not run the grace period.
LEMMA HookFrame ==
  ASSUME IndInv, TypeOK', NEW t \in Threads,
         UNCHANGED <<epoch, dataVars, gpVars>>,
         \A u \in Threads \ {t} : /\ state'[u] = state[u]
                                  /\ pc'[u] = pc[u]
                                  /\ seen'[u] = seen[u]
                                  /\ held'[u] = held[u],
         held'[t] = {}, gpOn # t,
         SlotOK(t)', EpochOK(t)'
  PROVE  IndInv'
<1>1. \A u \in Threads : (SlotOK(u) /\ EpochOK(u))'
  <2> TAKE u \in Threads
  <2>1. CASE u = t
    BY <2>1
  <2>2. CASE u # t
    BY <2>2 DEF IndInv, SlotOK, EpochOK, Fresh, Settled, Passed, Era, gpVars
  <2> QED BY <2>1, <2>2
<1>2. GpInv'
  BY DEF IndInv, GpInv, TypeOK, gpVars
<1>3. DataInv'
  BY DEF IndInv, DataInv, TypeOK, gpVars, dataVars
<1>4. ReaderInv'
  BY DEF IndInv, ReaderInv, TypeOK, gpVars
<1> QED BY <1>1, <1>2, <1>3, <1>4 DEF IndInv

\* The four ways a hook step treats the epoch ids of its thread t: it shows
\* none, keeps what it shows, loads the current one, or publishes the loaded.
LEMMA EpochOKHook ==
  ASSUME IndInv, NEW t \in Threads, UNCHANGED <<epoch, gpVars>>,
         \/ /\ ~IsBusy(state'[t]) \/ LastSeen(state'[t]) = 0
            /\ pc'[t] \notin StorePcs
         \/ /\ state'[t] = state[t]
            /\ pc'[t] \notin StorePcs
         \/ /\ state'[t] = state[t]
            /\ seen'[t] = epoch
         \/ /\ pc[t] \in StorePcs /\ pc'[t] \notin StorePcs
            /\ LastSeen(state'[t]) = seen[t]
            /\ IsBusy(state[t])
  PROVE  EpochOK(t)'
<1>0. epoch \in EpochIds /\ GpInv /\ EpochOK(t) /\ gpPhase \in Phases
  BY DEF IndInv, TypeOK
<1>1. CASE gpPc = "none"
  BY <1>0, <1>1, EraFacts DEF EpochOK, Fresh, GpInv, gpVars, Era
<1>2. CASE gpPc # "none"
  <2>1. Settled(t)'
    BY <1>0, <1>2, EpochArith DEF EpochOK, Settled, Fresh, gpVars
  <2>2. Passed(t)' => Fresh(t, {epoch})'
    BY <1>0, <1>2 DEF EpochOK, Passed, Fresh, gpVars
  <2>3. gpPhase = "gp" => Fresh(t, Era(epoch - 2) \cup {epoch})'
    BY <1>0, <1>2 DEF EpochOK, Fresh, gpVars, Era
  <2>4. gpPhase = "reset" => Fresh(t, Era(EPOCH_ID_MAX) \cup {epoch})'
    BY <1>0, <1>2 DEF EpochOK, Fresh, gpVars, Era
  <2>5. gpPhase = "final" =>
          /\ IsBusy(state'[t]) => LastSeen(state'[t]) \in
               Era(EPOCH_ID_MAX) \cup {0, EPOCH_ID_MIN, epoch}
          /\ pc'[t] \in StorePcs => seen'[t] \in {EPOCH_ID_MIN, epoch}
    BY <1>0, <1>2 DEF EpochOK
  <2> QED
    BY <1>2, <2>1, <2>2, <2>3, <2>4, <2>5 DEF EpochOK, gpVars, Era
<1> QED BY <1>1, <1>2

\* A hook that is about to publish has loaded an epoch id.
LEMMA SeenIsEpoch ==
  ASSUME IndInv, NEW t \in Threads, pc[t] \in StorePcs
  PROVE  seen[t] \in EpochIds /\ seen[t] # 0
<1>0. epoch \in EpochIds /\ GpInv /\ EpochOK(t) /\ gpPhase \in Phases
  BY DEF IndInv, TypeOK
<1>1. CASE gpPc = "none"
  BY <1>0, <1>1, EraFacts, EpochArith DEF EpochOK, Fresh, GpInv
<1>2. CASE gpPc # "none" /\ gpPhase = "gp"
  <2>1. epoch - 2 \in EpochIds /\ epoch - 2 >= EPOCH_ID_MIN + 2
    BY <1>0, <1>2, EpochMaxAssumption DEF GpInv, EpochIds, EPOCH_ID_MIN
  <2> QED BY <1>0, <1>2, <2>1, EraFacts, EpochArith DEF EpochOK, Fresh
<1>3. CASE gpPc # "none" /\ gpPhase = "reset"
  <2>1. EPOCH_ID_MAX \in EpochIds /\ EPOCH_ID_MAX >= EPOCH_ID_MIN + 2
    BY EpochMaxAssumption, EpochArith DEF EPOCH_ID_MIN
  <2> QED BY <1>0, <1>3, <2>1, EraFacts, EpochArith DEF EpochOK, Fresh
<1>4. CASE gpPc # "none" /\ gpPhase = "final"
  BY <1>0, <1>4, EpochArith DEF EpochOK
<1> QED BY <1>0, <1>1, <1>2, <1>3, <1>4 DEF Phases

\* The hooks preserve the invariant.
LEMMA HookStep ==
  ASSUME IndInv, TypeOK', NEW t \in Threads,
         \/ Hook(t) \/ LeaveIdle(t) \/ OnThreadUnpark(t) \/ EndPoll(t)
  PROVE  IndInv'
<1> DEFINE Frame == /\ UNCHANGED <<epoch, held, dataVars, gpVars>>
                    /\ \A u \in Threads \ {t} : /\ state'[u] = state[u]
                                                /\ pc'[u] = pc[u]
                                                /\ seen'[u] = seen[u]
                    /\ held[t] = {} /\ gpOn # t
<1>0. TypeOK /\ SlotOK(t) /\ EpochOK(t) /\ GpInv /\ DataInv
  BY DEF IndInv
<1>00. pc[t] \notin {"poll", "panicked"} => held[t] = {} /\ gpOn # t
  BY <1>0, CoreAssumption DEF DataInv, GpInv
<1>000. Frame /\ SlotOK(t)' /\ EpochOK(t)' => IndInv'
  BY HookFrame
<1>01. IsBusy(Encode(0, TRUE)) /\ LastSeen(Encode(0, TRUE)) = 0
  BY EncodeDecode, EpochArith
<1> HIDE DEF Frame
<1>1. CASE OnBeforeTaskPoll(t)
  <2>1. Frame
    BY <1>0, <1>00, <1>1 DEF Frame, OnBeforeTaskPoll, SetPc, SetState, TypeOK
  <2>2. SlotOK(t)'
    BY <1>0, <1>1 DEF SlotOK, OnBeforeTaskPoll, SetPc, SetState, TypeOK, LoadPcs
  <2>3. EpochOK(t)'
    BY <1>0, <1>1, <1>01, EpochOKHook
    DEF OnBeforeTaskPoll, SetPc, SetState, TypeOK, StorePcs
  <2> QED BY <2>1, <2>2, <2>3, <1>000
<1>2. CASE OnThreadUnpark(t)
  <2>1. Frame
    BY <1>0, <1>00, <1>2 DEF Frame, OnThreadUnpark, SetPc, SetState, TypeOK
  <2>2. SlotOK(t)'
    BY <1>0, <1>2 DEF SlotOK, OnThreadUnpark, SetPc, SetState, TypeOK, LoadPcs
  <2>3. EpochOK(t)'
    BY <1>0, <1>2, <1>01, EpochOKHook
    DEF OnThreadUnpark, SetPc, SetState, TypeOK, StorePcs
  <2> QED BY <2>1, <2>2, <2>3, <1>000
<1>3. CASE SeeNewEpochId(t)
  <2>1. Frame
    BY <1>0, <1>00, <1>3 DEF Frame, SeeNewEpochId, SetPc, TypeOK, LoadPcs
  <2>2. SlotOK(t)'
    BY <1>0, <1>3 DEF SlotOK, SeeNewEpochId, SetPc, TypeOK, LoadPcs
  <2>3. EpochOK(t)'
    BY <1>0, <1>3, EpochOKHook DEF SeeNewEpochId, TypeOK
  <2> QED BY <2>1, <2>2, <2>3, <1>000
<1>4. CASE PublishSeen(t)
  <2>1. Frame
    BY <1>0, <1>00, <1>4 DEF Frame, PublishSeen, SetPc, SetState, TypeOK
  <2>2. seen[t] \in LastSeenIds /\ seen[t] # 0
    BY <1>0, <1>4, SeenIsEpoch DEF PublishSeen, StorePcs, TypeOK
  <2>3. IsBusy(state'[t]) /\ LastSeen(state'[t]) = seen[t]
    BY <1>0, <1>4, <2>2, EncodeDecode DEF PublishSeen, SetState, TypeOK
  <2>4. SlotOK(t)'
    BY <1>0, <1>4, <2>2, <2>3 DEF SlotOK, PublishSeen, SetPc, TypeOK, LoadPcs
  <2>5. IsBusy(state[t])
    BY <1>0, <1>01, <1>4 DEF SlotOK, PublishSeen
  <2>6. EpochOK(t)'
    BY <1>0, <1>4, <2>3, <2>5, EpochOKHook DEF PublishSeen, SetPc, StorePcs, TypeOK
  <2> QED BY <2>1, <2>4, <2>6, <1>000
<1>5. CASE EndPoll(t)
  <2>1. Frame
    BY <1>0, <1>5 DEF Frame, EndPoll, SetPc, TypeOK
  <2>2. SlotOK(t)'
    BY <1>0, <1>5 DEF SlotOK, EndPoll, SetPc, TypeOK, LoadPcs
  <2>3. EpochOK(t)'
    BY <1>0, <1>5, EpochOKHook DEF EndPoll, TypeOK
  <2> QED BY <2>1, <2>2, <2>3, <1>000
<1>6. CASE OnAfterTaskPoll(t)
  <2>1. Frame
    BY <1>0, <1>00, <1>6 DEF Frame, OnAfterTaskPoll, SetPc, SetState, TypeOK
  <2>2. seen[t] \in LastSeenIds /\ seen[t] # 0
    BY <1>0, <1>6, SeenIsEpoch DEF OnAfterTaskPoll, StorePcs, TypeOK
  <2>3. IsBusy(state'[t]) /\ LastSeen(state'[t]) = seen[t]
    BY <1>0, <1>6, <2>2, EncodeDecode DEF OnAfterTaskPoll, SetState, TypeOK
  <2>4. SlotOK(t)'
    BY <1>0, <1>6, <2>2, <2>3 DEF SlotOK, OnAfterTaskPoll, SetPc, TypeOK, LoadPcs
  <2>5. IsBusy(state[t])
    BY <1>0, <1>6 DEF SlotOK, OnAfterTaskPoll
  <2>6. EpochOK(t)'
    BY <1>0, <1>6, <2>3, <2>5, EpochOKHook
    DEF OnAfterTaskPoll, SetPc, StorePcs, TypeOK
  <2> QED BY <2>1, <2>4, <2>6, <1>000
<1>7. CASE OnThreadPark(t)
  <2>1. Frame
    BY <1>0, <1>00, <1>7 DEF Frame, OnThreadPark, SetPc, SetState, TypeOK
  <2>2. ~IsBusy(state'[t]) /\ state'[t] # NONE_ENCODED_VALUE
    BY <1>0, <1>7, ClearBusyKeepsSeen DEF OnThreadPark, SetState, TypeOK, SlotOK
  <2>3. SlotOK(t)'
    BY <1>0, <1>7, <2>2 DEF SlotOK, OnThreadPark, SetPc, TypeOK, LoadPcs
  <2>4. EpochOK(t)'
    BY <1>0, <1>7, <2>2, EpochOKHook DEF OnThreadPark, SetPc, TypeOK, StorePcs
  <2> QED BY <2>1, <2>3, <2>4, <1>000
<1>8. CASE OnThreadStop(t)
  <2>1. Frame
    BY <1>0, <1>00, <1>8 DEF Frame, OnThreadStop, SetPc, SetState, TypeOK
  <2>2. SlotOK(t)'
    BY <1>0, <1>8 DEF SlotOK, OnThreadStop, SetPc, SetState, TypeOK, LoadPcs
  <2>3. EpochOK(t)'
    BY <1>0, <1>8, VacantNotBusy, EpochOKHook
    DEF OnThreadStop, SetPc, SetState, TypeOK, StorePcs
  <2> QED BY <2>1, <2>2, <2>3, <1>000
<1>9. CASE HookNotify(t) \/ HookCount(t) \/ HookWake(t)
  <2>1. Frame
    BY <1>0, <1>00, <1>9 DEF Frame, HookNotify, HookCount, HookWake, SetPc, TypeOK, NotifyPcs
  <2>2. /\ pc[t] \in NotifyPcs
        /\ pc'[t] = pc[t] \/ pc'[t] = AfterNotify(pc[t])
        /\ state'[t] = state[t]
        /\ UNCHANGED <<epoch, gpVars>>
    BY <1>0, <1>9 DEF HookNotify, HookCount, HookWake, SetPc, TypeOK
  <2>3. \/ pc'[t] = pc[t]
        \/ /\ pc[t] \in {"before_notify", "unpark_notify", "after_notify"}
           /\ pc'[t] \in {"poll", "idle"}
        \/ pc[t] = "park_notify" /\ pc'[t] = "parked"
        \/ pc[t] = "stop_notify" /\ pc'[t] = "out"
    BY <2>2 DEF AfterNotify, NotifyPcs
  <2>4. SlotOK(t)'
    BY <1>0, <2>2, <2>3 DEF SlotOK, LoadPcs, NotifyPcs
  <2>5. EpochOK(t)'
    BY <2>2, <2>3, EpochOKHook DEF NotifyPcs, StorePcs
  <2> QED BY <2>1, <2>4, <2>5, <1>000
<1> QED
  BY <1>1, <1>2, <1>3, <1>4, <1>5, <1>6, <1>7, <1>8, <1>9 DEF Hook, LeaveIdle

\* So does a panic, if what the thread does next is not both to read and to run
\* another root future.
LEMMA PanicStep ==
  ASSUME IndInv, TypeOK', SafeUse, NEW t \in Threads, Panic(t)
  PROVE  IndInv'
<1>0. TypeOK /\ SlotOK(t) /\ EpochOK(t) /\ GpInv /\ DataInv /\ outer[t] = {}
  BY DEF IndInv, DataInv
<1>1. CASE RootPanic(t)
  <2>1. gpOn # t
    BY <1>0, <1>1, CoreAssumption DEF RootPanic, GpInv
  <2>2. SlotOK(t)'
    BY <1>0, <1>1 DEF SlotOK, RootPanic, SetPc, TypeOK, LoadPcs
  <2>3. EpochOK(t)'
    BY <1>0, <1>1, EpochOKHook DEF RootPanic, SetPc, TypeOK, StorePcs
  <2> QED BY <1>0, <1>1, <2>1, <2>2, <2>3, HookFrame DEF RootPanic, SetPc, TypeOK
<1>2. CASE ThreadExit(t)
  <2>1. gpOn # t
    BY <1>0, <1>2, CoreAssumption DEF ThreadExit, GpInv
  <2>2. SlotOK(t)'
    BY <1>0, <1>2 DEF SlotOK, ThreadExit, SetPc, SetState, TypeOK, LoadPcs
  <2>3. EpochOK(t)'
    BY <1>0, <1>2, VacantNotBusy, EpochOKHook
    DEF ThreadExit, SetPc, SetState, TypeOK, StorePcs
  <2> QED
    BY <1>0, <1>2, <2>1, <2>2, <2>3, HookFrame DEF ThreadExit, SetPc, SetState, TypeOK
<1>3. CASE ReEnter(t)
  <2>1. gpOn # t
    BY <1>0, <1>3, CoreAssumption DEF ReEnter, GpInv
  <2>2. held[t] = {}
    BY <1>0, <1>3 DEF ReEnter, DataInv, SafeUse
  <2>3. outer' = outer
    BY <1>0, <1>3, <2>2 DEF ReEnter, TypeOK
  <2>4. SlotOK(t)'
    BY <1>0, <1>3 DEF SlotOK, ReEnter, SetPc, TypeOK, LoadPcs
  <2>5. EpochOK(t)'
    BY <1>0, <1>3, EpochOKHook DEF ReEnter, SetPc, TypeOK, StorePcs
  <2> QED
    BY <1>0, <1>3, <2>1, <2>3, <2>4, <2>5, HookFrame DEF ReEnter, SetPc, TypeOK, dataVars
<1>4. CASE OuterUnlock(t)
  BY <1>0, <1>4 DEF OuterUnlock
<1> QED BY <1>1, <1>2, <1>3, <1>4 DEF Panic

\* Readers and writers preserve the invariant: what a reader picks up is the
\* current object, which no grace period in progress is to free.
LEMMA DataStep ==
  ASSUME IndInv, TypeOK',
         \/ \E t \in Threads : Read(t) \/ ReadUnlock(t)
         \/ \E x \in Objs : Swap(x)
  PROVE  IndInv'
<1>1. ASSUME NEW t \in Threads, Read(t) \/ ReadUnlock(t) PROVE IndInv'
  <2>0. UNCHANGED <<epoch, state, pc, seen, dataVars, gpVars>>
    BY <1>1 DEF Read, ReadUnlock
  <2>1. \A u \in Threads : (SlotOK(u) /\ EpochOK(u))'
    BY <2>0 DEF IndInv, SlotOK, EpochOK, Fresh, Settled, Passed, Era, gpVars
  <2>2. GpInv'
    BY <1>1, <2>0 DEF IndInv, GpInv, TypeOK, gpVars, Read, ReadUnlock
  <2>3. DataInv'
    BY <1>1, <2>0 DEF IndInv, DataInv, TypeOK, gpVars, dataVars, Read, ReadUnlock
  <2>4. ReaderInv'
    BY <1>1, <2>0
    DEF IndInv, ReaderInv, DataInv, TypeOK, gpVars, dataVars, Read, ReadUnlock
  <2> QED BY <2>1, <2>2, <2>3, <2>4 DEF IndInv
<1>2. ASSUME NEW x \in Objs, Swap(x) PROVE IndInv'
  <2>0. UNCHANGED <<epoch, threadVars, outer, gpVars>>
    BY <1>2 DEF Swap
  <2>1. \A u \in Threads : (SlotOK(u) /\ EpochOK(u))'
    BY <2>0 DEF IndInv, SlotOK, EpochOK, Fresh, Settled, Passed, Era, gpVars, threadVars
  <2>2. GpInv' /\ ReaderInv'
    BY <2>0 DEF IndInv, GpInv, ReaderInv, gpVars, threadVars
  <2>3. DataInv'
    BY <1>2, <2>0 DEF IndInv, DataInv, Swap, Pool, gpVars, threadVars
  <2> QED BY <2>1, <2>2, <2>3 DEF IndInv
<1> QED BY <1>1, <1>2

\* A grace period moves the epoch id to a value no thread shows.
LEMMA GpBeginStep ==
  ASSUME IndInv, TypeOK', SafeUse, NEW t \in Threads, GpBegin(t)
  PROVE  IndInv'
<1>0. /\ UNCHANGED <<threadVars, dataVars>>
      /\ gpPc = "none" /\ gpPc' = "subscribe" /\ gpOn' = t /\ gpCovers' = retired
      /\ pc[t] = "poll" /\ t \notin Roots /\ (ManualPoll \/ held[t] = {})
  BY DEF GpBegin, MayPoll
<1>1. /\ epoch \in EpochIds /\ epoch >= EPOCH_ID_MIN + 2
      /\ \A u \in Threads : Fresh(u, Era(epoch))
  BY <1>0 DEF IndInv, TypeOK, GpInv, EpochOK
<1>2. /\ \A u \in Threads : IsBusy(state[u]) => LastSeen(state[u]) # epoch'
      /\ \A u \in Threads : EpochOK(u)'
  <2> SUFFICES ASSUME NEW u \in Threads
               PROVE  /\ IsBusy(state[u]) => LastSeen(state[u]) # epoch'
                      /\ EpochOK(u)'
    OBVIOUS
  <2>1. CASE epoch = EPOCH_ID_MAX
    <3>1. epoch' = EPOCH_ID_MIN /\ gpPhase' = "reset"
      BY <2>1 DEF GpBegin
    <3>2. IsBusy(state[u]) => LastSeen(state[u]) # EPOCH_ID_MIN
      <4>1. /\ \A d \in Era(epoch) : EPOCH_ID_MIN < d
            /\ EPOCH_ID_MIN \in Nat /\ EPOCH_ID_MIN # 0
        BY <1>1, EraFacts, EpochArith
      <4>2. EPOCH_ID_MIN \notin Era(epoch) \cup {0}
        BY <4>1
      <4> QED BY <1>1, <4>2 DEF Fresh
    <3> QED
      BY <1>0, <1>1, <2>1, <3>1, <3>2
      DEF EpochOK, Settled, Passed, Fresh, Era, threadVars
  <2>2. CASE epoch # EPOCH_ID_MAX
    <3>1. epoch' = epoch + 2 /\ gpPhase' = "gp"
      BY <2>2 DEF GpBegin
    <3>2. epoch' - 2 = epoch
      BY <1>1, <3>1, EpochArith
    <3>3. IsBusy(state[u]) => LastSeen(state[u]) # epoch'
      <4>1. /\ \A d \in Era(epoch) : d <= epoch
            /\ epoch \in Nat /\ epoch' = epoch + 2
        BY <1>1, <3>1, EraFacts, EpochArith
      <4>2. epoch' \notin Era(epoch) \cup {0}
        BY <4>1
      <4> QED BY <1>1, <4>2 DEF Fresh
    <3> QED
      BY <1>0, <1>1, <3>1, <3>2, <3>3
      DEF EpochOK, Settled, Passed, Fresh, Era, threadVars
  <2> QED BY <2>1, <2>2
<1>3. \A u \in Threads : SlotOK(u)'
  BY <1>0 DEF IndInv, SlotOK, threadVars
<1>4. GpInv'
  BY <1>0, <1>1, EpochArith, CoreAssumption
  DEF GpInv, GpBegin, threadVars, EPOCH_ID_MIN
<1>5. DataInv'
  BY <1>0 DEF IndInv, DataInv, dataVars, threadVars
<1>6. ReaderInv'
  BY <1>0, <1>2 DEF IndInv, ReaderInv, DataInv, SlotOK, threadVars
<1> QED BY <1>2, <1>3, <1>4, <1>5, <1>6 DEF IndInv

\* Steps that only move the waiter within its loop.
LEMMA GpLoopStep ==
  ASSUME IndInv, TypeOK',
         \/ GpSubscribe \/ GpSleep
         \/ \E t \in Threads : GpRepoll(t)
  PROVE  IndInv'
<1>0. /\ UNCHANGED <<epoch, threadVars, dataVars, gpPhase, gpCovers>>
      /\ gpPc # "none" /\ gpPc' # "none"
  BY DEF GpSubscribe, GpSleep, GpRepoll
<1>1. \A u \in Threads : ~Passed(u)'
  BY DEF GpSubscribe, GpSleep, GpRepoll, Passed, TypeOK
<1>2. \A u \in Threads : (SlotOK(u) /\ EpochOK(u))'
  BY <1>0, <1>1 DEF IndInv, SlotOK, EpochOK, Fresh, Settled, Era, threadVars
<1>3. GpInv'
  BY <1>0, CoreAssumption
  DEF IndInv, TypeOK, GpInv, GpSubscribe, GpSleep, GpRepoll, MayPoll, threadVars
<1>4. DataInv' /\ ReaderInv'
  BY <1>0 DEF IndInv, DataInv, ReaderInv, dataVars, threadVars
<1> QED BY <1>2, <1>3, <1>4 DEF IndInv

\* A slot that the scan accepts shows the current epoch id, or nothing, and
\* its thread is about to show nothing else.
LEMMA GpScanStep ==
  ASSUME IndInv, TypeOK', NEW u \in Threads, GpScan(u)
  PROVE  IndInv'
<1>0. /\ UNCHANGED <<epoch, threadVars, dataVars, gpPhase, gpOn, gpCovers>>
      /\ gpPc = "scan" /\ gpPc' \in {"scan", "sleep"}
  BY DEF GpScan
<1>1. ASSUME NEW w \in Threads, Passed(w)' PROVE Fresh(w, {epoch})
  <2>1. CASE Passed(w)
    BY <1>0, <2>1 DEF IndInv, EpochOK
  <2>2. CASE ~Passed(w)
    <3>1. w = u /\ SlotPasses(w) /\ ~(gpPhase = "reset" /\ w = gpOn)
      BY <1>0, <1>1, <2>2 DEF GpScan, Passed
    <3>2. SlotOK(w) /\ EpochOK(w) /\ Settled(w) /\ GpInv /\ epoch \in EpochIds
      BY <1>0 DEF IndInv, EpochOK, TypeOK
    <3>3. CASE ~IsBusy(state[w])
      <4>1. pc[w] \notin StorePcs
        BY <3>2, <3>3, EncodeDecode, EpochArith DEF SlotOK, StorePcs
      <4> QED BY <3>3, <4>1 DEF Fresh
    <3>4. CASE IsBusy(state[w])
      <4>1. SawEpoch(LastSeen(state[w]))
        BY <3>1, <3>4, VacantNotBusy DEF SlotPasses
      <4>2. LastSeen(state[w]) = epoch
        <5>1. CASE gpPhase = "gp"
          <6>1. LastSeen(state[w]) >= epoch
            BY <4>1, <5>1 DEF SawEpoch
          <6>2. /\ epoch - 2 \in EpochIds /\ epoch - 2 >= EPOCH_ID_MIN + 2
                /\ epoch \in Nat
            BY <1>0, <3>2, <5>1, EpochMaxAssumption DEF GpInv, EpochIds, EPOCH_ID_MIN
          <6>3. LastSeen(state[w]) \in Era(epoch - 2) \cup {epoch, 0}
            BY <1>0, <3>2, <3>4, <5>1 DEF EpochOK, Fresh
          <6>4. \A d \in Era(epoch - 2) : d \in Nat /\ d <= epoch - 2
            BY <6>2, EraFacts, EpochArith
          <6> QED BY <6>1, <6>2, <6>3, <6>4 DEF EPOCH_ID_MIN
        <5>2. CASE gpPhase # "gp"
          BY <1>0, <3>2, <4>1, <5>2 DEF SawEpoch, GpInv
        <5> QED BY <5>1, <5>2
      <4> QED BY <3>2, <3>4, <4>2 DEF Settled, Fresh
    <3> QED BY <3>3, <3>4
  <2> QED BY <2>1, <2>2
<1>2. \A w \in Threads : (SlotOK(w) /\ EpochOK(w))'
  <2> SUFFICES ASSUME NEW w \in Threads PROVE (SlotOK(w) /\ EpochOK(w))'
    OBVIOUS
  <2>1. Passed(w)' => Fresh(w, {epoch})'
    BY <1>0, <1>1 DEF Fresh, threadVars
  <2> QED
    BY <1>0, <2>1 DEF IndInv, SlotOK, EpochOK, Fresh, Settled, Era, threadVars
<1>3. GpInv'
  BY <1>0 DEF IndInv, GpInv, threadVars
<1>4. DataInv' /\ ReaderInv'
  BY <1>0 DEF IndInv, DataInv, ReaderInv, dataVars, threadVars
<1> QED BY <1>2, <1>3, <1>4 DEF IndInv

\* Between the two waits of the overflow path every thread but the polling
\* one shows the reset value; the polling one has nothing to protect, or
\* shows EPOCH_ID_MAX or the reset value.
LEMMA GpResetSeenStep ==
  ASSUME IndInv, TypeOK', SafeUse, GpResetSeen
  PROVE  IndInv'
<1>0. /\ UNCHANGED <<threadVars, dataVars, gpOn, gpCovers>>
      /\ gpPc = "scan" /\ gpTodo = {} /\ gpPhase = "reset"
      /\ gpPc' = "subscribe" /\ gpPhase' = "final" /\ epoch' = EPOCH_ID_MIN + 2
      /\ epoch = EPOCH_ID_MIN
  BY DEF GpResetSeen, IndInv, GpInv
<1>1. ASSUME NEW u \in Threads, u # gpOn PROVE Fresh(u, {EPOCH_ID_MIN})
  BY <1>0, <1>1 DEF IndInv, EpochOK, Passed
<1>2. ASSUME NEW u \in Threads, u = gpOn
      PROVE  /\ pc[u] = "poll" /\ (ManualPoll \/ held[u] = {})
             /\ IsBusy(state[u]) =>
                  LastSeen(state[u]) \in Era(EPOCH_ID_MAX) \cup {0, EPOCH_ID_MIN}
  <2>1. gpOn # NoThread
    BY <1>2, CoreAssumption
  <2> QED BY <1>0, <1>2, <2>1 DEF IndInv, EpochOK, Fresh, GpInv
<1>3. \A u \in Threads : EpochOK(u)'
  <2> SUFFICES ASSUME NEW u \in Threads PROVE EpochOK(u)'
    OBVIOUS
  <2>1. CASE u # gpOn
    BY <1>0, <1>1, <2>1 DEF EpochOK, Fresh, Settled, Passed, Era, threadVars, EPOCH_ID_MIN
  <2>2. CASE u = gpOn
    BY <1>0, <1>2, <2>2 DEF EpochOK, Settled, Passed, Era, threadVars, StorePcs
  <2> QED BY <2>1, <2>2
<1>4. \A u \in Threads : SlotOK(u)'
  BY <1>0 DEF IndInv, SlotOK, threadVars
<1>5. GpInv'
  BY <1>0 DEF IndInv, GpInv, threadVars
<1>6. DataInv'
  BY <1>0 DEF IndInv, DataInv, dataVars, threadVars
<1>7. ReaderInv'
  <2> SUFFICES ASSUME NEW u \in Threads, held[u] \cap gpCovers # {}
               PROVE  LastSeen(state[u]) # EPOCH_ID_MIN + 2
    BY <1>0 DEF ReaderInv, threadVars
  <2>0. IsBusy(state[u])
    BY DEF IndInv, DataInv, SlotOK
  <2>1. CASE u # gpOn
    BY <1>1, <2>0, <2>1 DEF Fresh, EPOCH_ID_MIN
  <2>2. CASE u = gpOn
    <3>1. CancelPhases = {}
      BY <1>2, <2>2 DEF SafeUse
    <3> QED
      BY <1>2, <2>0, <2>2, <3>1, EpochMaxAssumption DEF Era, EPOCH_ID_MIN
  <2> QED BY <2>1, <2>2
<1> QED BY <1>3, <1>4, <1>5, <1>6, <1>7 DEF IndInv

\* When the last wait ends every busy thread shows the current epoch id, so
\* no thread reads what the grace period frees.
LEMMA GpCompleteStep ==
  ASSUME IndInv, TypeOK', GpComplete
  PROVE  IndInv'
<1>0. /\ UNCHANGED <<epoch, threadVars, ptr, outer>>
      /\ gpPc = "scan" /\ gpTodo = {} /\ gpPhase # "reset"
      /\ gpPc' = "none" /\ gpPhase' = "gp" /\ gpOn' = NoThread
      /\ retired' = retired \ gpCovers /\ gpCovers' = {}
  BY DEF GpComplete
<1>1. \A u \in Threads : Fresh(u, {epoch})
  BY <1>0 DEF IndInv, EpochOK, Passed
<1>2. epoch \in EpochIds /\ epoch >= EPOCH_ID_MIN + 2
  BY <1>0, EpochArith DEF IndInv, TypeOK, GpInv, Phases, EPOCH_ID_MIN
<1>3. \A u \in Threads : (SlotOK(u) /\ EpochOK(u))'
  <2>1. epoch \in Era(epoch)
    BY <1>2, EraFacts
  <2> QED
    BY <1>0, <1>1, <2>1 DEF IndInv, SlotOK, EpochOK, Fresh, Era, threadVars
<1>4. GpInv'
  BY <1>0, <1>2, CoreAssumption DEF GpInv, threadVars
<1>5. \A u \in Threads : held[u] \cap gpCovers = {}
  BY <1>0, <1>1 DEF IndInv, ReaderInv, DataInv, SlotOK, Fresh
<1>6. DataInv'
  BY <1>0, <1>5 DEF IndInv, DataInv, threadVars
<1>7. ReaderInv'
  BY <1>0 DEF ReaderInv
<1> QED BY <1>3, <1>4, <1>6, <1>7 DEF IndInv

\* Dropping the future in an ordinary wait leaves threads behind the epoch id,
\* never ahead of it.
LEMMA GpCancelStep ==
  ASSUME IndInv, TypeOK', SafeUse, GpCancel
  PROVE  IndInv'
<1>0. /\ UNCHANGED <<epoch, threadVars, dataVars, gpOn>>
      /\ gpPc = "await" /\ gpPhase = "gp" /\ CancelPhases # {}
      /\ gpPc' = "none" /\ gpPhase' = "gp" /\ gpCovers' = {}
  BY DEF GpCancel, SafeUse
<1>1. /\ epoch \in EpochIds /\ epoch - 2 \in EpochIds
      /\ epoch - 2 >= EPOCH_ID_MIN + 2 /\ (epoch - 2) + 2 = epoch
  BY <1>0, EpochMaxAssumption DEF IndInv, TypeOK, GpInv, EpochIds, EPOCH_ID_MIN
<1>2. Era(epoch - 2) \cup {epoch} \subseteq Era(epoch)
  BY <1>0, <1>1, EraFacts
<1>3. \A u \in Threads : (SlotOK(u) /\ EpochOK(u))'
  BY <1>0, <1>2 DEF IndInv, SlotOK, EpochOK, Fresh, Era, threadVars
<1>4. GpInv'
  BY <1>0, <1>1, EpochArith DEF IndInv, GpInv, threadVars, EPOCH_ID_MIN
<1>5. DataInv' /\ ReaderInv'
  BY <1>0 DEF IndInv, DataInv, ReaderInv, dataVars, threadVars
<1> QED BY <1>3, <1>4, <1>5 DEF IndInv

\* The same holds of a wait that panics before its first scan.
LEMMA GpBeginUntrackedStep ==
  ASSUME IndInv, TypeOK', SafeUse, GpBeginUntracked
  PROVE  IndInv'
<1>0. /\ UNCHANGED <<threadVars, dataVars, gpVars>>
      /\ gpPc = "none" /\ epoch' = epoch + 2 /\ CancelPhases # {}
  BY DEF GpBeginUntracked, SafeUse
<1>1. /\ epoch \in EpochIds /\ epoch >= EPOCH_ID_MIN + 2 /\ epoch + 2 \in EpochIds
      /\ epoch' >= EPOCH_ID_MIN + 2
  BY <1>0, EpochMaxAssumption DEF IndInv, TypeOK, GpInv, EpochIds, EPOCH_ID_MIN
<1>2. Era(epoch) \subseteq Era(epoch')
  BY <1>0, <1>1, EraFacts
<1>3. \A u \in Threads : (SlotOK(u) /\ EpochOK(u))'
  <2>1. \A u \in Threads : SlotOK(u) /\ Fresh(u, Era(epoch))
    BY <1>0 DEF IndInv, EpochOK
  <2> QED BY <1>0, <1>2, <2>1 DEF SlotOK, EpochOK, Fresh, Era, threadVars, gpVars
<1>4. GpInv'
  BY <1>0, <1>1 DEF IndInv, GpInv, threadVars, gpVars
<1>5. DataInv' /\ ReaderInv'
  BY <1>0 DEF IndInv, DataInv, ReaderInv, dataVars, threadVars, gpVars
<1> QED BY <1>3, <1>4, <1>5 DEF IndInv

LEMMA IndInit == Init => IndInv
<1> SUFFICES ASSUME Init PROVE IndInv
  OBVIOUS
<1>1. \A t \in Threads : SlotOK(t) /\ EpochOK(t)
  BY VacantNotBusy DEF Init, SlotOK, EpochOK, Fresh, LoadPcs, StorePcs
<1>2. GpInv /\ DataInv /\ ReaderInv
  BY DEF Init, GpInv, DataInv, ReaderInv, EPOCH_ID_MIN
<1> QED BY <1>1, <1>2, TypeInit DEF IndInv

LEMMA IndStep == SafeUse /\ IndInv /\ [Next]_vars => IndInv'
<1> SUFFICES ASSUME SafeUse, IndInv, [Next]_vars PROVE IndInv'
  OBVIOUS
<1>0. TypeOK'
  BY TypeStep DEF IndInv
<1>1. CASE UNCHANGED vars
  <2>1. \A t \in Threads : (SlotOK(t) /\ EpochOK(t))'
    BY <1>1 DEF IndInv, SlotOK, EpochOK, Fresh, Settled, Passed, Era, vars, threadVars, gpVars
  <2>2. (GpInv /\ DataInv /\ ReaderInv)'
    BY <1>1 DEF IndInv, GpInv, DataInv, ReaderInv, vars, threadVars, gpVars, dataVars
  <2> QED BY <1>0, <2>1, <2>2 DEF IndInv
<1> QED
  BY <1>0, <1>1, HookStep, PanicStep, DataStep, GpBeginStep, GpLoopStep, GpScanStep,
     GpResetSeenStep, GpCompleteStep, GpCancelStep, GpBeginUntrackedStep
  DEF Next, GpStep

\* The inductive invariant holds in every reachable state, whatever the sets of
\* threads and objects and the width of the epoch id, provided waits are not
\* cancelled, or only ordinary waits are and the future is not polled inside
\* read-side callbacks, and no thread reads around a root future it runs after
\* an earlier one has panicked.
THEOREM Invariance == SafeUse => (Spec => []IndInv)
<1> SUFFICES ASSUME SafeUse PROVE Spec => []IndInv
  OBVIOUS
<1>1. IndInv /\ [Next]_vars => IndInv'
  BY IndStep
<1> QED BY IndInit, <1>1, PTL DEF Spec

\* The promise of synchronize_rcu: no reader can use what a completed grace
\* period freed.
THEOREM Safety == SafeUse => (Spec => []NoUseAfterFree)
<1>1. IndInv => NoUseAfterFree
  BY DEF IndInv, DataInv, NoUseAfterFree, Pool
<1> QED BY <1>1, Invariance, PTL

LEMMA BetweenGracePeriods ==
  ASSUME IndInv, gpPc = "none", NEW t \in Threads, IsBusy(state[t])
  PROVE  LastSeen(state[t]) <= epoch /\ LastSeen(state[t]) # EPOCH_ID_MIN
<1>1. /\ epoch \in EpochIds /\ epoch >= EPOCH_ID_MIN + 2
      /\ LastSeen(state[t]) \in Era(epoch) \cup {0}
  BY DEF IndInv, TypeOK, GpInv, EpochOK, Fresh
<1> QED BY <1>1, EraFacts, EpochArith DEF EPOCH_ID_MIN

\* Between grace periods no busy thread is ahead of the global epoch id, which
\* the test `last_seen >= new` of the next grace period relies on.
THEOREM EpochsInOrder == SafeUse => (Spec => []NoFutureEpoch)
<1>1. IndInv => NoFutureEpoch
  BY BetweenGracePeriods DEF NoFutureEpoch
<1> QED BY <1>1, Invariance, PTL

\* Between grace periods no busy thread holds the reset value, which the first
\* wait of the next overflow relies on.
THEOREM ResetValueGone == SafeUse => (Spec => []NoStaleResetValue)
<1>1. IndInv => NoStaleResetValue
  BY BetweenGracePeriods DEF NoStaleResetValue
<1> QED BY <1>1, Invariance, PTL

\* A slot in use never looks vacant to a scan.
THEOREM SlotsVisible == SafeUse => (Spec => []OwnedSlotNotVacant)
<1>1. ASSUME IndInv PROVE OwnedSlotNotVacant
  <2> SUFFICES ASSUME NEW t \in Threads, pc[t] \notin {"out", "stop_notify"}
               PROVE  state[t] # NONE_ENCODED_VALUE
    BY DEF OwnedSlotNotVacant
  <2>1. pc[t] \in Pcs /\ SlotOK(t)
    BY <1>1 DEF IndInv, TypeOK
  <2>2. IsBusy(state[t]) => state[t] # NONE_ENCODED_VALUE
    BY VacantNotBusy
  <2>3. Encode(0, TRUE) # NONE_ENCODED_VALUE
    BY DEF Encode, NONE_ENCODED_VALUE
  <2> QED
    BY <2>1, <2>2, <2>3 DEF SlotOK, Pcs, LoadPcs, StorePcs, NotifyPcs
<1> QED BY <1>1, Invariance, PTL

-----------------------------------------------------------------------------
(***************************************************************************)
(* RcuCore implements GracePeriod.                                         *)
(***************************************************************************)
absVars == <<UsesOf(retired), gpPc # "none", UsesOf(gpCovers)>>

\* The hooks and the waiter's loop are steps GracePeriod does not see.
LEMMA UnseenStep ==
  ASSUME UNCHANGED <<held, outer, retired, gpCovers>>, gpPc' = "none" <=> gpPc = "none"
  PROVE  UNCHANGED absVars
  BY DEF absVars, UsesOf

LEMMA UnseenHook ==
  ASSUME NEW t \in Threads,
         Hook(t) \/ LeaveIdle(t) \/ OnThreadUnpark(t) \/ EndPoll(t) \/ ThreadExit(t)
  PROVE  UNCHANGED absVars
<1>1. UNCHANGED <<held, outer, retired, gpCovers, gpPc>>
  BY DEF Hook, SeeNewEpochId, PublishSeen, OnAfterTaskPoll, HookNotify, HookCount, HookWake,
         LeaveIdle, OnBeforeTaskPoll, OnThreadPark, OnThreadStop, OnThreadUnpark, EndPoll,
         ThreadExit, dataVars, gpVars
<1> QED BY <1>1, UnseenStep

LEMMA UnseenLoop ==
  ASSUME \/ GpSubscribe \/ GpSleep \/ GpResetSeen
         \/ \E t \in Threads : GpScan(t) \/ GpRepoll(t)
  PROVE  UNCHANGED absVars
<1>1. UNCHANGED <<held, outer, retired, gpCovers>> /\ gpPc # "none" /\ gpPc' # "none"
  BY DEF GpSubscribe, GpSleep, GpResetSeen, GpScan, GpRepoll, threadVars, dataVars
<1> QED BY <1>1, UnseenStep

\* A section that begins finds the current object, which nobody has unlinked;
\* one that goes on around another root future keeps what it uses.
LEMMA UnseenRead ==
  ASSUME IndInv, NEW t \in Threads, Read(t) \/ ReEnter(t)
  PROVE  UNCHANGED absVars
<1>1. UNCHANGED <<retired, gpCovers, gpPc>>
  BY DEF Read, ReEnter, dataVars, gpVars
<1>2. ptr \notin retired /\ ptr \notin gpCovers
  BY DEF IndInv, DataInv
<1>3. \A u \in Threads, x \in retired \cup gpCovers :
        x \in held'[u] \cup outer'[u] <=> x \in held[u] \cup outer[u]
  BY <1>2 DEF Read, ReEnter, IndInv, TypeOK, dataVars
<1>4. UsesOf(retired)' = UsesOf(retired) /\ UsesOf(gpCovers)' = UsesOf(gpCovers)
  BY <1>1, <1>3 DEF UsesOf
<1> QED BY <1>1, <1>4 DEF absVars

\* The end of a section ends its uses.
LEMMA SectionEnds ==
  ASSUME IndInv, NEW t \in Threads, ReadUnlock(t) \/ RootPanic(t)
  PROVE  Gp!EndUses
<1>1. UNCHANGED <<retired, gpCovers, gpPc, outer>> /\ held' = [held EXCEPT ![t] = {}]
  BY DEF ReadUnlock, RootPanic, dataVars, gpVars
<1>2. \A u \in Threads : outer[u] = {} /\ held'[u] = IF u = t THEN {} ELSE held[u]
  BY <1>1 DEF IndInv, DataInv, TypeOK
<1>3. UsesOf(retired)' \subseteq UsesOf(retired)
  BY <1>1, <1>2 DEF UsesOf
<1>4. UsesOf(gpCovers)' = UsesOf(gpCovers) \cap UsesOf(retired)'
  BY <1>1, <1>2 DEF UsesOf, IndInv, DataInv
<1> QED BY <1>1, <1>3, <1>4 DEF Gp!EndUses

\* A swap makes uses of the old object uses of an unlinked one.
LEMMA SwapUnlinks ==
  ASSUME NEW x \in Objs, Swap(x)
  PROVE  Gp!Unlink
<1>1. UNCHANGED <<held, outer, gpCovers, gpPc>> /\ retired' = retired \cup {ptr}
  BY DEF Swap, threadVars, gpVars
<1>2. /\ UsesOf(retired)' \in SUBSET (Threads \X Objs)
      /\ UsesOf(retired) \subseteq UsesOf(retired)'
      /\ UsesOf(gpCovers)' = UsesOf(gpCovers)
  BY <1>1 DEF UsesOf
<1> QED BY <1>1, <1>2 DEF Gp!Unlink

LEMMA GpBegins ==
  ASSUME NEW t \in Threads, GpBegin(t)
  PROVE  Gp!Begin
<1>1. /\ UNCHANGED <<held, outer, retired>> /\ gpCovers' = retired
      /\ gpPc = "none" /\ gpPc' # "none"
  BY DEF GpBegin, threadVars, dataVars
<1>2. UsesOf(retired)' = UsesOf(retired) /\ UsesOf(gpCovers)' = UsesOf(retired)
  BY <1>1 DEF UsesOf
<1> QED BY <1>1, <1>2 DEF Gp!Begin

\* Every slot has passed: nothing is left that the grace period waits for.
LEMMA GpEnds ==
  ASSUME IndInv, GpComplete
  PROVE  Gp!End
<1>1. /\ UNCHANGED <<held, outer>> /\ retired' = retired \ gpCovers /\ gpCovers' = {}
      /\ gpPc = "scan" /\ gpTodo = {} /\ gpPhase # "reset" /\ gpPc' = "none"
  BY DEF GpComplete, threadVars
<1>2. \A u \in Threads : Fresh(u, {epoch}) /\ outer[u] = {}
  BY <1>1 DEF IndInv, EpochOK, Passed, DataInv
<1>3. \A u \in Threads : (held[u] \cup outer[u]) \cap gpCovers = {}
  BY <1>1, <1>2 DEF IndInv, ReaderInv, DataInv, SlotOK, Fresh
<1>4. UsesOf(retired)' = UsesOf(retired) /\ UsesOf(gpCovers)' = {} /\ UsesOf(gpCovers) = {}
  BY <1>1, <1>3 DEF UsesOf
<1> QED BY <1>1, <1>4 DEF Gp!End

LEMMA GpIsAbandoned ==
  ASSUME GpCancel
  PROVE  Gp!Abandon
<1>1. UNCHANGED <<held, outer, retired>> /\ gpCovers' = {} /\ gpPc = "await" /\ gpPc' = "none"
  BY DEF GpCancel, threadVars, dataVars
<1>2. UsesOf(retired)' = UsesOf(retired) /\ UsesOf(gpCovers)' = {}
  BY <1>1 DEF UsesOf
<1> QED BY <1>1, <1>2 DEF Gp!Abandon

\* The epoch id, the hooks and the scan together are the grace period that the
\* callers of synchronize_rcu count on, for any number of threads and objects,
\* any width of the epoch id and across overflows of it.
THEOREM CoreIsGracePeriod == SafeUse => (Spec => ImplementsGracePeriod)
<1> SUFFICES ASSUME SafeUse PROVE Spec => ImplementsGracePeriod
  OBVIOUS
<1>1. Init => Gp!Init
  BY DEF Init, Gp!Init, UsesOf
<1>2. IndInv /\ [Next]_vars => [Gp!Next]_absVars
  <2> SUFFICES ASSUME IndInv, [Next]_vars PROVE Gp!Next \/ UNCHANGED absVars
    OBVIOUS
  <2>1. CASE UNCHANGED vars
    BY <2>1, UnseenStep DEF vars, threadVars, dataVars, gpVars
  <2>2. ASSUME NEW t \in Threads, ReadUnlock(t) \/ RootPanic(t) PROVE Gp!Next
    BY <2>2, SectionEnds DEF Gp!Next
  <2>3. ASSUME NEW x \in Objs, Swap(x) PROVE Gp!Next
    BY <2>3, SwapUnlinks DEF Gp!Next
  <2>4. ASSUME NEW t \in Threads, GpBegin(t) PROVE Gp!Next
    BY <2>4, GpBegins DEF Gp!Next
  <2>5. CASE GpComplete
    BY <2>5, GpEnds DEF Gp!Next
  <2>6. CASE GpCancel
    BY <2>6, GpIsAbandoned DEF Gp!Next
  <2>7. ASSUME NEW t \in Threads, OuterUnlock(t) PROVE FALSE
    BY <2>7 DEF OuterUnlock, IndInv, DataInv
  <2>8. CASE GpBeginUntracked
    BY <2>8, UnseenStep DEF GpBeginUntracked, threadVars, dataVars, gpVars
  <2> QED
    BY <2>1, <2>2, <2>3, <2>4, <2>5, <2>6, <2>7, <2>8, UnseenHook, UnseenLoop, UnseenRead
    DEF Next, GpStep, Panic
<1> QED BY <1>1, <1>2, Invariance, PTL DEF Spec, ImplementsGracePeriod, Gp!Spec, absVars
=============================================================================
