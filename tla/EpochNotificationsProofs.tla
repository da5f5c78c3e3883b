--------------------- MODULE EpochNotificationsProofs ----------------------
(***************************************************************************)
(* Proofs about EpochNotifications, for every set of threads and wakers.   *)
(***************************************************************************)
EXTENDS EpochNotifications, TLAPS

\* Every variable keeps its type.
LEMMA TypeStep == TypeOK /\ [Next]_vars => TypeOK'
<1> SUFFICES ASSUME TypeOK, [Next]_vars PROVE TypeOK'
  OBVIOUS
<1> USE NotificationAssumption DEF TypeOK, SetPc, threadVars, epochVars, wordVars,
      flagVars, taskVars, subVars,
      Pcs, UnparkPcs, NotifyPcs, SubPcs, RunSubPcs, Words, Epochs, Flags, Hooks, News
<1>1. ASSUME NEW t \in Threads, AfterLoad(t) PROVE TypeOK'
  BY <1>1 DEF AfterLoad, LoadEpoch
<1>2. ASSUME NEW t \in Threads, AfterStore(t) PROVE TypeOK'
  BY <1>2 DEF AfterStore, StoreWord
<1>3. ASSUME NEW t \in Threads, Park(t) PROVE TypeOK'
  BY <1>3 DEF Park, StoreWord
<1>4. ASSUME NEW t \in Threads, Unpark(t) PROVE TypeOK'
  BY <1>4 DEF Unpark, StoreWord
<1>5. ASSUME NEW t \in Threads, UnparkFence(t) PROVE TypeOK'
  BY <1>5 DEF UnparkFence, Fence
<1>6. ASSUME NEW t \in Threads, UnparkLoad(t) PROVE TypeOK'
  BY <1>6 DEF UnparkLoad, LoadEpoch
<1>7. ASSUME NEW t \in Threads, UnparkStore(t) PROVE TypeOK'
  BY <1>7 DEF UnparkStore, StoreWord
<1>8. ASSUME NEW t \in Threads, HookFence(t) PROVE TypeOK'
  BY <1>8 DEF HookFence, Fence
<1>9. ASSUME NEW t \in Threads, LoadFlag(t) PROVE TypeOK'
  BY <1>9 DEF LoadFlag, Leave
<1>10. ASSUME NEW t \in Threads, CountNotification(t) PROVE TypeOK'
  BY <1>10 DEF CountNotification
<1>11. ASSUME NEW t \in Threads, LookAtInfo(t) PROVE TypeOK'
  BY <1>11 DEF LookAtInfo, Leave, Release, NotMine, Unlocked
<1>12. ASSUME NEW t \in Threads, TakeInfo(t) PROVE TypeOK'
  <2>1. woken' \in BOOLEAN
    BY <1>12 DEF TakeInfo
  <2>2. CASE NotMine(t)
    BY <1>12, <2>1, <2>2 DEF TakeInfo, Leave, Release
  <2>3. CASE ~NotMine(t)
    BY <1>12, <2>1, <2>3 DEF TakeInfo
  <2> QED BY <2>2, <2>3
<1>13. ASSUME NEW t \in Threads, ClearFlag(t) PROVE TypeOK'
  BY <1>13 DEF ClearFlag, Leave, Release, StoreFlag
<1>14. ASSUME NEW t \in Threads, EpochIdSet(t) PROVE TypeOK'
  <2>1. \A v \in Words : Aged(v) \in Words
    BY DEF Aged
  <2>2. word' \in [Threads -> Words] /\ loaded' \in [Threads -> Epochs]
    BY <1>14, <2>1 DEF EpochIdSet
  <2>3. wordVals' \in [Threads -> SUBSET Words] /\ scanView' \in [Threads -> SUBSET Words]
    BY <1>14, <2>1 DEF EpochIdSet
  <2>4. epochView' \in [Threads -> SUBSET Epochs]
    BY <1>14 DEF EpochIdSet
  <2> QED BY <1>14, <2>2, <2>3, <2>4 DEF EpochIdSet
<1>15. ASSUME NEW t \in Threads, Cancel(t) PROVE TypeOK'
  BY <1>15 DEF Cancel, Resume
<1>16. ASSUME NEW t \in Threads, NEW w \in Wakers, Poll(t, w) PROVE TypeOK'
  BY <1>16 DEF Poll, Resume
<1>17. ASSUME NEW t \in Threads, Scan(t) PROVE TypeOK'
  BY <1>17 DEF Scan
<1>18. CASE Subscribe
  BY <1>18 DEF Subscribe, StoreFlag
<1>19. CASE Snapshot
  BY <1>19 DEF Snapshot
<1>20. CASE SubscriberFence
  BY <1>20 DEF SubscriberFence
<1>21. CASE ScanDone
  BY <1>21 DEF ScanDone
<1>22. CASE Check
  BY <1>22 DEF Check, Changed, NotChanged
<1>23. CASE Register
  BY <1>23 DEF Register, Acquire, Unlocked, Myself
<1>24. CASE LookRegistered
  BY <1>24 DEF LookRegistered, Unlocked, Myself
<1>25. CASE UpdateRegistered
  <2>1. consumed' \in BOOLEAN
    BY <1>25 DEF UpdateRegistered
  <2> QED BY <1>25, <2>1 DEF UpdateRegistered, Acquire, Myself
<1>26. CASE Recheck
  BY <1>26 DEF Recheck, Changed, NotChanged
<1>27. CASE DropFlag
  <2>1. CASE UNCHANGED flagVars
    BY <1>27, <2>1 DEF DropFlag
  <2>2. CASE StoreFlag("clear")
    BY <1>27, <2>2 DEF DropFlag, StoreFlag
  <2> QED BY <1>27, <2>1, <2>2 DEF DropFlag
<1>28. CASE DropInfo
  BY <1>28 DEF DropInfo, Acquire, Unlocked
<1>29. CASE UNCHANGED vars
  BY <1>29 DEF vars
<1> QED
  BY <1>1, <1>2, <1>3, <1>4, <1>5, <1>6, <1>7, <1>8, <1>9, <1>10, <1>11, <1>12, <1>13,
     <1>14, <1>15,
     <1>16, <1>17, <1>18, <1>19, <1>20, <1>21, <1>22, <1>23, <1>24, <1>25, <1>26, <1>27,
     <1>28, <1>29
  DEF Next, Hook, Notification, Waiter

\* A thread and its word agree.
LEMMA WordStep == TypeOK /\ WordInv /\ HostInv /\ [Next]_vars => WordInv'
<1> SUFFICES ASSUME TypeOK /\ WordInv /\ HostInv, [Next]_vars PROVE WordInv'
  OBVIOUS
<1>0. TypeOK /\ TypeOK'
  BY TypeStep
<1> USE <1>0 DEF TypeOK, SetPc, threadVars, epochVars, wordVars, flagVars, taskVars,
      subVars,
      WordInv, HostInv, RunSubPcs, Publishing, Retiring, UnparkPcs, NotifyPcs, Epochs, Hooks
<1>1. ASSUME NEW t \in Threads, AfterLoad(t) PROVE WordInv'
  BY <1>1 DEF AfterLoad, LoadEpoch
<1>2. ASSUME NEW t \in Threads, AfterStore(t) PROVE WordInv'
  BY <1>2 DEF AfterStore, StoreWord
<1>3. ASSUME NEW t \in Threads, Park(t) PROVE WordInv'
  BY <1>3 DEF Park, StoreWord
<1>4. ASSUME NEW t \in Threads, Unpark(t) PROVE WordInv'
  BY <1>4 DEF Unpark, StoreWord
<1>5. ASSUME NEW t \in Threads, UnparkFence(t) PROVE WordInv'
  BY <1>5 DEF UnparkFence, Fence
<1>6. ASSUME NEW t \in Threads, UnparkLoad(t) PROVE WordInv'
  BY <1>6 DEF UnparkLoad, LoadEpoch
<1>7. ASSUME NEW t \in Threads, UnparkStore(t) PROVE WordInv'
  BY <1>7 DEF UnparkStore, StoreWord
<1>8. ASSUME NEW t \in Threads, HookFence(t) PROVE WordInv'
  BY <1>8 DEF HookFence, Fence
<1>9. ASSUME NEW t \in Threads, LoadFlag(t) PROVE WordInv'
  BY <1>9 DEF LoadFlag, Leave
<1>10. ASSUME NEW t \in Threads, CountNotification(t) PROVE WordInv'
  BY <1>10 DEF CountNotification
<1>11. ASSUME NEW t \in Threads, LookAtInfo(t) PROVE WordInv'
  BY <1>11 DEF LookAtInfo, Leave, Release, NotMine, Unlocked
<1>12. ASSUME NEW t \in Threads, TakeInfo(t) PROVE WordInv'
  BY <1>12 DEF TakeInfo, Leave, Release, NotMine, Unlocked
<1>13. ASSUME NEW t \in Threads, ClearFlag(t) PROVE WordInv'
  BY <1>13 DEF ClearFlag, Leave, Release, StoreFlag
<1>14. ASSUME NEW t \in Threads, EpochIdSet(t) PROVE WordInv'
  BY <1>14 DEF EpochIdSet, Aged
<1>15. ASSUME NEW t \in Threads, Cancel(t) PROVE WordInv'
  BY <1>15 DEF Cancel, Resume
<1>16. ASSUME NEW t \in Threads, NEW w \in Wakers, Poll(t, w) PROVE WordInv'
  BY <1>16 DEF Poll, Resume
<1>17. ASSUME NEW t \in Threads, Scan(t) PROVE WordInv'
  BY <1>17 DEF Scan
<1>18. CASE Subscribe
  BY <1>18 DEF Subscribe, StoreFlag
<1>19. CASE Snapshot
  BY <1>19 DEF Snapshot
<1>20. CASE SubscriberFence
  BY <1>20 DEF SubscriberFence
<1>21. CASE ScanDone
  BY <1>21 DEF ScanDone
<1>22. CASE Check
  BY <1>22 DEF Check, Changed, NotChanged
<1>23. CASE Register
  BY <1>23 DEF Register, Acquire, Unlocked, Myself
<1>24. CASE LookRegistered
  BY <1>24 DEF LookRegistered, Unlocked, Myself
<1>25. CASE UpdateRegistered
  BY <1>25 DEF UpdateRegistered, Acquire, Unlocked, Myself
<1>26. CASE Recheck
  BY <1>26 DEF Recheck, Changed, NotChanged
<1>27. CASE DropFlag
  BY <1>27 DEF DropFlag, StoreFlag
<1>28. CASE DropInfo
  BY <1>28 DEF DropInfo, Acquire, Unlocked
<1>29. CASE UNCHANGED vars
  BY <1>29 DEF vars
<1> QED
  BY <1>1, <1>2, <1>3, <1>4, <1>5, <1>6, <1>7, <1>8, <1>9, <1>10, <1>11, <1>12, <1>13,
     <1>14, <1>15,
     <1>16, <1>17, <1>18, <1>19, <1>20, <1>21, <1>22, <1>23, <1>24, <1>25, <1>26, <1>27,
     <1>28, <1>29
  DEF Next, Hook, Notification, Waiter

\* Views hold nothing older than what was seen or fenced.
LEMMA ViewStep == TypeOK /\ WordInv /\ ViewInv /\ HostInv /\ [Next]_vars => ViewInv'
<1> SUFFICES ASSUME TypeOK /\ WordInv /\ ViewInv /\ HostInv, [Next]_vars PROVE ViewInv'
  OBVIOUS
<1>0. TypeOK /\ TypeOK'
  BY TypeStep
<1> USE <1>0 DEF TypeOK, SetPc, threadVars, epochVars, wordVars, flagVars, taskVars,
      subVars,
      WordInv, ViewInv, HostInv, RunSubPcs, Publishing, Retiring, UnparkPcs, NotifyPcs,
      Epochs
<1>1. ASSUME NEW t \in Threads, AfterLoad(t) PROVE ViewInv'
  BY <1>1 DEF AfterLoad, LoadEpoch
<1>2. ASSUME NEW t \in Threads, AfterStore(t) PROVE ViewInv'
  BY <1>2 DEF AfterStore, StoreWord
<1>3. ASSUME NEW t \in Threads, Park(t) PROVE ViewInv'
  BY <1>3 DEF Park, StoreWord
<1>4. ASSUME NEW t \in Threads, Unpark(t) PROVE ViewInv'
  BY <1>4 DEF Unpark, StoreWord
<1>5. ASSUME NEW t \in Threads, UnparkFence(t) PROVE ViewInv'
  BY <1>5 DEF UnparkFence, Fence
<1>6. ASSUME NEW t \in Threads, UnparkLoad(t) PROVE ViewInv'
  BY <1>6 DEF UnparkLoad, LoadEpoch
<1>7. ASSUME NEW t \in Threads, UnparkStore(t) PROVE ViewInv'
  BY <1>7 DEF UnparkStore, StoreWord
<1>8. ASSUME NEW t \in Threads, HookFence(t) PROVE ViewInv'
  BY <1>8 DEF HookFence, Fence
<1>9. ASSUME NEW t \in Threads, LoadFlag(t) PROVE ViewInv'
  BY <1>9 DEF LoadFlag, Leave
<1>10. ASSUME NEW t \in Threads, CountNotification(t) PROVE ViewInv'
  BY <1>10 DEF CountNotification
<1>11. ASSUME NEW t \in Threads, LookAtInfo(t) PROVE ViewInv'
  BY <1>11 DEF LookAtInfo, Leave, Release, NotMine, Unlocked
<1>12. ASSUME NEW t \in Threads, TakeInfo(t) PROVE ViewInv'
  BY <1>12 DEF TakeInfo, Leave, Release, NotMine, Unlocked
<1>13. ASSUME NEW t \in Threads, ClearFlag(t) PROVE ViewInv'
  BY <1>13 DEF ClearFlag, Leave, Release, StoreFlag
<1>14. ASSUME NEW t \in Threads, EpochIdSet(t) PROVE ViewInv'
  <2> SUFFICES ASSUME NEW u \in Threads PROVE ViewInv!(u)'
    BY DEF ViewInv
  <2>1. word'[u] # "new" /\ "new" \notin wordVals'[u] \cup scanView'[u]
    BY <1>14 DEF EpochIdSet, Aged, Words
  <2>2. loaded'[u] = "old" /\ (pc'[u] = pc[u] \/ (pc[u] = "run" /\ pc'[u] = "host"))
    BY <1>14 DEF EpochIdSet
  <2>3. /\ word'[u] = Aged(word[u])
        /\ wordVals'[u] = {Aged(v) : v \in wordVals[u]}
    BY <1>14 DEF EpochIdSet
  <2>4. pc'[u] \notin {"fence", "unpark_fence"} => wordVals'[u] = {word'[u]}
    BY <2>2, <2>3
  <2>5. "idle" \in wordVals'[u] => word'[u] = "idle" \/ pc'[u] = "unpark_fence"
    BY <2>2, <2>3 DEF Aged
  <2>6. "old" \in wordVals'[u] => word'[u] = "old" \/ pc'[u] = "fence"
    BY <2>2, <2>3 DEF Aged
  <2> QED BY <2>1, <2>2, <2>4, <2>5, <2>6
<1>15. ASSUME NEW t \in Threads, Cancel(t) PROVE ViewInv'
  BY <1>15 DEF Cancel, Resume
<1>16. ASSUME NEW t \in Threads, NEW w \in Wakers, Poll(t, w) PROVE ViewInv'
  BY <1>16 DEF Poll, Resume
<1>17. ASSUME NEW t \in Threads, Scan(t) PROVE ViewInv'
  BY <1>17 DEF Scan
<1>18. CASE Subscribe
  BY <1>18 DEF Subscribe, StoreFlag
<1>19. CASE Snapshot
  BY <1>19 DEF Snapshot
<1>20. CASE SubscriberFence
  BY <1>20 DEF SubscriberFence
<1>21. CASE ScanDone
  BY <1>21 DEF ScanDone
<1>22. CASE Check
  BY <1>22 DEF Check, Changed, NotChanged
<1>23. CASE Register
  BY <1>23 DEF Register, Acquire, Unlocked, Myself
<1>24. CASE LookRegistered
  BY <1>24 DEF LookRegistered, Unlocked, Myself
<1>25. CASE UpdateRegistered
  BY <1>25 DEF UpdateRegistered, Acquire, Unlocked, Myself
<1>26. CASE Recheck
  BY <1>26 DEF Recheck, Changed, NotChanged
<1>27. CASE DropFlag
  BY <1>27 DEF DropFlag, StoreFlag
<1>28. CASE DropInfo
  BY <1>28 DEF DropInfo, Acquire, Unlocked
<1>29. CASE UNCHANGED vars
  BY <1>29 DEF vars
<1> QED
  BY <1>1, <1>2, <1>3, <1>4, <1>5, <1>6, <1>7, <1>8, <1>9, <1>10, <1>11, <1>12, <1>13,
     <1>14, <1>15,
     <1>16, <1>17, <1>18, <1>19, <1>20, <1>21, <1>22, <1>23, <1>24, <1>25, <1>26, <1>27,
     <1>28, <1>29
  DEF Next, Hook, Notification, Waiter

\* The task runs on one thread at a time.
LEMMA HostStep == TypeOK /\ HostInv /\ [Next]_vars => HostInv'
<1> SUFFICES ASSUME TypeOK /\ HostInv, [Next]_vars PROVE HostInv'
  OBVIOUS
<1>0. TypeOK /\ TypeOK'
  BY TypeStep
<1> USE <1>0 DEF TypeOK, SetPc, threadVars, epochVars, wordVars, flagVars, taskVars,
      subVars,
      HostInv, RunSubPcs, AwaitPcs, ActivePcs, Epochs
<1>1. ASSUME NEW t \in Threads, AfterLoad(t) PROVE HostInv'
  BY <1>1 DEF AfterLoad, LoadEpoch
<1>2. ASSUME NEW t \in Threads, AfterStore(t) PROVE HostInv'
  BY <1>2 DEF AfterStore, StoreWord
<1>3. ASSUME NEW t \in Threads, Park(t) PROVE HostInv'
  BY <1>3 DEF Park, StoreWord
<1>4. ASSUME NEW t \in Threads, Unpark(t) PROVE HostInv'
  BY <1>4 DEF Unpark, StoreWord
<1>5. ASSUME NEW t \in Threads, UnparkFence(t) PROVE HostInv'
  BY <1>5 DEF UnparkFence, Fence
<1>6. ASSUME NEW t \in Threads, UnparkLoad(t) PROVE HostInv'
  BY <1>6 DEF UnparkLoad, LoadEpoch
<1>7. ASSUME NEW t \in Threads, UnparkStore(t) PROVE HostInv'
  BY <1>7 DEF UnparkStore, StoreWord
<1>8. ASSUME NEW t \in Threads, HookFence(t) PROVE HostInv'
  BY <1>8 DEF HookFence, Fence
<1>9. ASSUME NEW t \in Threads, LoadFlag(t) PROVE HostInv'
  BY <1>9 DEF LoadFlag, Leave
<1>10. ASSUME NEW t \in Threads, CountNotification(t) PROVE HostInv'
  BY <1>10 DEF CountNotification
<1>11. ASSUME NEW t \in Threads, LookAtInfo(t) PROVE HostInv'
  BY <1>11 DEF LookAtInfo, Leave, Release, NotMine, Unlocked
<1>12. ASSUME NEW t \in Threads, TakeInfo(t) PROVE HostInv'
  BY <1>12 DEF TakeInfo, Leave, Release, NotMine, Unlocked
<1>13. ASSUME NEW t \in Threads, ClearFlag(t) PROVE HostInv'
  BY <1>13 DEF ClearFlag, Leave, Release, StoreFlag
<1>14. ASSUME NEW t \in Threads, EpochIdSet(t) PROVE HostInv'
  BY <1>14 DEF EpochIdSet, Aged
<1>15. ASSUME NEW t \in Threads, Cancel(t) PROVE HostInv'
  BY <1>15 DEF Cancel, Resume
<1>16. ASSUME NEW t \in Threads, NEW w \in Wakers, Poll(t, w) PROVE HostInv'
  BY <1>16 DEF Poll, Resume
<1>17. ASSUME NEW t \in Threads, Scan(t) PROVE HostInv'
  BY <1>17 DEF Scan
<1>18. CASE Subscribe
  BY <1>18 DEF Subscribe, StoreFlag
<1>19. CASE Snapshot
  BY <1>19 DEF Snapshot
<1>20. CASE SubscriberFence
  BY <1>20 DEF SubscriberFence
<1>21. CASE ScanDone
  BY <1>21 DEF ScanDone
<1>22. CASE Check
  BY <1>22 DEF Check, Changed, NotChanged
<1>23. CASE Register
  BY <1>23 DEF Register, Acquire, Unlocked, Myself
<1>24. CASE LookRegistered
  BY <1>24 DEF LookRegistered, Unlocked, Myself
<1>25. CASE UpdateRegistered
  BY <1>25 DEF UpdateRegistered, Acquire, Unlocked, Myself
<1>26. CASE Recheck
  BY <1>26 DEF Recheck, Changed, NotChanged
<1>27. CASE DropFlag
  BY <1>27 DEF DropFlag, StoreFlag
<1>28. CASE DropInfo
  BY <1>28 DEF DropInfo, Acquire, Unlocked
<1>29. CASE UNCHANGED vars
  BY <1>29 DEF vars
<1> QED
  BY <1>1, <1>2, <1>3, <1>4, <1>5, <1>6, <1>7, <1>8, <1>9, <1>10, <1>11, <1>12, <1>13,
     <1>14, <1>15,
     <1>16, <1>17, <1>18, <1>19, <1>20, <1>21, <1>22, <1>23, <1>24, <1>25, <1>26, <1>27,
     <1>28, <1>29
  DEF Next, Hook, Notification, Waiter

\* Who takes a registration is done before its subscription is.
LEMMA RegisteredStep ==
  TypeOK /\ ViewInv /\ HostInv /\ RegisteredInv /\ [Next]_vars => RegisteredInv'
<1> SUFFICES ASSUME TypeOK /\ ViewInv /\ HostInv /\ RegisteredInv, [Next]_vars PROVE
      RegisteredInv'
  OBVIOUS
<1>0. TypeOK /\ TypeOK'
  BY TypeStep
<1> USE <1>0 DEF TypeOK, SetPc, threadVars, epochVars, wordVars, flagVars, taskVars,
      subVars,
      RegisteredInv, ViewInv, HostInv, AwaitPcs, ActivePcs, RunSubPcs
<1>1. ASSUME NEW t \in Threads, AfterLoad(t) PROVE RegisteredInv'
  BY <1>1 DEF AfterLoad, LoadEpoch
<1>2. ASSUME NEW t \in Threads, AfterStore(t) PROVE RegisteredInv'
  BY <1>2 DEF AfterStore, StoreWord
<1>3. ASSUME NEW t \in Threads, Park(t) PROVE RegisteredInv'
  BY <1>3 DEF Park, StoreWord
<1>4. ASSUME NEW t \in Threads, Unpark(t) PROVE RegisteredInv'
  BY <1>4 DEF Unpark, StoreWord
<1>5. ASSUME NEW t \in Threads, UnparkFence(t) PROVE RegisteredInv'
  BY <1>5 DEF UnparkFence, Fence
<1>6. ASSUME NEW t \in Threads, UnparkLoad(t) PROVE RegisteredInv'
  BY <1>6 DEF UnparkLoad, LoadEpoch
<1>7. ASSUME NEW t \in Threads, UnparkStore(t) PROVE RegisteredInv'
  BY <1>7 DEF UnparkStore, StoreWord
<1>8. ASSUME NEW t \in Threads, HookFence(t) PROVE RegisteredInv'
  BY <1>8 DEF HookFence, Fence
<1>9. ASSUME NEW t \in Threads, LoadFlag(t) PROVE RegisteredInv'
  BY <1>9 DEF LoadFlag, Leave
<1>10. ASSUME NEW t \in Threads, CountNotification(t) PROVE RegisteredInv'
  BY <1>10 DEF CountNotification
<1>11. ASSUME NEW t \in Threads, LookAtInfo(t) PROVE RegisteredInv'
  BY <1>11 DEF LookAtInfo, Leave, Release, NotMine, Unlocked
<1>12. ASSUME NEW t \in Threads, TakeInfo(t) PROVE RegisteredInv'
  BY <1>12 DEF TakeInfo, Leave, Release, NotMine, Unlocked
<1>13. ASSUME NEW t \in Threads, ClearFlag(t) PROVE RegisteredInv'
  BY <1>13 DEF ClearFlag, Leave, Release, StoreFlag
<1>14. ASSUME NEW t \in Threads, EpochIdSet(t) PROVE RegisteredInv'
  BY <1>14 DEF EpochIdSet, Aged
<1>15. ASSUME NEW t \in Threads, Cancel(t) PROVE RegisteredInv'
  BY <1>15 DEF Cancel, Resume
<1>16. ASSUME NEW t \in Threads, NEW w \in Wakers, Poll(t, w) PROVE RegisteredInv'
  BY <1>16 DEF Poll, Resume
<1>17. ASSUME NEW t \in Threads, Scan(t) PROVE RegisteredInv'
  BY <1>17 DEF Scan
<1>18. CASE Subscribe
  BY <1>18 DEF Subscribe, StoreFlag
<1>19. CASE Snapshot
  BY <1>19 DEF Snapshot
<1>20. CASE SubscriberFence
  BY <1>20 DEF SubscriberFence
<1>21. CASE ScanDone
  BY <1>21 DEF ScanDone
<1>22. CASE Check
  BY <1>22 DEF Check, Changed, NotChanged
<1>23. CASE Register
  BY <1>23 DEF Register, Acquire, Unlocked, Myself
<1>24. CASE LookRegistered
  BY <1>24 DEF LookRegistered, Unlocked, Myself
<1>25. CASE UpdateRegistered
  BY <1>25 DEF UpdateRegistered, Acquire, Unlocked, Myself
<1>26. CASE Recheck
  BY <1>26 DEF Recheck, Changed, NotChanged
<1>27. CASE DropFlag
  BY <1>27 DEF DropFlag, StoreFlag
<1>28. CASE DropInfo
  BY <1>28 DEF DropInfo, Acquire, Unlocked
<1>29. CASE UNCHANGED vars
  BY <1>29 DEF vars
<1> QED
  BY <1>1, <1>2, <1>3, <1>4, <1>5, <1>6, <1>7, <1>8, <1>9, <1>10, <1>11, <1>12, <1>13,
     <1>14, <1>15,
     <1>16, <1>17, <1>18, <1>19, <1>20, <1>21, <1>22, <1>23, <1>24, <1>25, <1>26, <1>27,
     <1>28, <1>29
  DEF Next, Hook, Notification, Waiter

\* A waiter that sleeps has its waker in the registration.
LEMMA SleepStep == TypeOK /\ RegisteredInv /\ SleepInv /\ [Next]_vars => SleepInv'
<1> SUFFICES ASSUME TypeOK /\ RegisteredInv /\ SleepInv, [Next]_vars PROVE SleepInv'
  OBVIOUS
<1>0. TypeOK /\ TypeOK'
  BY TypeStep
<1> USE <1>0 DEF TypeOK, SetPc, threadVars, epochVars, wordVars, flagVars, taskVars,
      subVars,
      SleepInv, RegisteredInv, News
<1>1. ASSUME NEW t \in Threads, AfterLoad(t) PROVE SleepInv'
  BY <1>1 DEF AfterLoad, LoadEpoch
<1>2. ASSUME NEW t \in Threads, AfterStore(t) PROVE SleepInv'
  BY <1>2 DEF AfterStore, StoreWord
<1>3. ASSUME NEW t \in Threads, Park(t) PROVE SleepInv'
  BY <1>3 DEF Park, StoreWord
<1>4. ASSUME NEW t \in Threads, Unpark(t) PROVE SleepInv'
  BY <1>4 DEF Unpark, StoreWord
<1>5. ASSUME NEW t \in Threads, UnparkFence(t) PROVE SleepInv'
  BY <1>5 DEF UnparkFence, Fence
<1>6. ASSUME NEW t \in Threads, UnparkLoad(t) PROVE SleepInv'
  BY <1>6 DEF UnparkLoad, LoadEpoch
<1>7. ASSUME NEW t \in Threads, UnparkStore(t) PROVE SleepInv'
  BY <1>7 DEF UnparkStore, StoreWord
<1>8. ASSUME NEW t \in Threads, HookFence(t) PROVE SleepInv'
  BY <1>8 DEF HookFence, Fence
<1>9. ASSUME NEW t \in Threads, LoadFlag(t) PROVE SleepInv'
  BY <1>9 DEF LoadFlag, Leave
<1>10. ASSUME NEW t \in Threads, CountNotification(t) PROVE SleepInv'
  BY <1>10 DEF CountNotification
<1>11. ASSUME NEW t \in Threads, LookAtInfo(t) PROVE SleepInv'
  BY <1>11 DEF LookAtInfo, Leave, Release, NotMine, Unlocked
<1>12. ASSUME NEW t \in Threads, TakeInfo(t) PROVE SleepInv'
  BY <1>12 DEF TakeInfo, Leave, Release, NotMine, Unlocked
<1>13. ASSUME NEW t \in Threads, ClearFlag(t) PROVE SleepInv'
  BY <1>13 DEF ClearFlag, Leave, Release, StoreFlag
<1>14. ASSUME NEW t \in Threads, EpochIdSet(t) PROVE SleepInv'
  BY <1>14 DEF EpochIdSet, Aged
<1>15. ASSUME NEW t \in Threads, Cancel(t) PROVE SleepInv'
  BY <1>15 DEF Cancel, Resume
<1>16. ASSUME NEW t \in Threads, NEW w \in Wakers, Poll(t, w) PROVE SleepInv'
  BY <1>16 DEF Poll, Resume
<1>17. ASSUME NEW t \in Threads, Scan(t) PROVE SleepInv'
  BY <1>17 DEF Scan
<1>18. CASE Subscribe
  BY <1>18 DEF Subscribe, StoreFlag
<1>19. CASE Snapshot
  BY <1>19 DEF Snapshot
<1>20. CASE SubscriberFence
  BY <1>20 DEF SubscriberFence
<1>21. CASE ScanDone
  BY <1>21 DEF ScanDone
<1>22. CASE Check
  BY <1>22 DEF Check, Changed, NotChanged
<1>23. CASE Register
  BY <1>23, NotificationAssumption DEF Register, Acquire, Myself
<1>24. CASE LookRegistered
  BY <1>24, NotificationAssumption DEF LookRegistered, Myself
<1>25. CASE UpdateRegistered
  BY <1>25, NotificationAssumption DEF UpdateRegistered, Acquire, Myself
<1>26. CASE Recheck
  BY <1>26 DEF Recheck, Changed, NotChanged
<1>27. CASE DropFlag
  BY <1>27 DEF DropFlag, StoreFlag
<1>28. CASE DropInfo
  BY <1>28 DEF DropInfo, Acquire, Unlocked
<1>29. CASE UNCHANGED vars
  BY <1>29 DEF vars
<1> QED
  BY <1>1, <1>2, <1>3, <1>4, <1>5, <1>6, <1>7, <1>8, <1>9, <1>10, <1>11, <1>12, <1>13,
     <1>14, <1>15,
     <1>16, <1>17, <1>18, <1>19, <1>20, <1>21, <1>22, <1>23, <1>24, <1>25, <1>26, <1>27,
     <1>28, <1>29
  DEF Next, Hook, Notification, Waiter

\* No late store clears the flag of a later subscription.
LEMMA FlagStep == TypeOK /\ RegisteredInv /\ FlagStands /\ [Next]_vars => FlagStands'
<1> SUFFICES ASSUME TypeOK /\ RegisteredInv /\ FlagStands, [Next]_vars PROVE FlagStands'
  OBVIOUS
<1>0. TypeOK /\ TypeOK'
  BY TypeStep
<1> USE <1>0 DEF TypeOK, SetPc, threadVars, epochVars, wordVars, flagVars, taskVars,
      subVars,
      FlagStands, RegisteredInv, AwaitPcs, ActivePcs, Flags
<1>1. ASSUME NEW t \in Threads, AfterLoad(t) PROVE FlagStands'
  BY <1>1 DEF AfterLoad, LoadEpoch
<1>2. ASSUME NEW t \in Threads, AfterStore(t) PROVE FlagStands'
  BY <1>2 DEF AfterStore, StoreWord
<1>3. ASSUME NEW t \in Threads, Park(t) PROVE FlagStands'
  BY <1>3 DEF Park, StoreWord
<1>4. ASSUME NEW t \in Threads, Unpark(t) PROVE FlagStands'
  BY <1>4 DEF Unpark, StoreWord
<1>5. ASSUME NEW t \in Threads, UnparkFence(t) PROVE FlagStands'
  BY <1>5 DEF UnparkFence, Fence
<1>6. ASSUME NEW t \in Threads, UnparkLoad(t) PROVE FlagStands'
  BY <1>6 DEF UnparkLoad, LoadEpoch
<1>7. ASSUME NEW t \in Threads, UnparkStore(t) PROVE FlagStands'
  BY <1>7 DEF UnparkStore, StoreWord
<1>8. ASSUME NEW t \in Threads, HookFence(t) PROVE FlagStands'
  BY <1>8 DEF HookFence, Fence
<1>9. ASSUME NEW t \in Threads, LoadFlag(t) PROVE FlagStands'
  BY <1>9 DEF LoadFlag, Leave
<1>10. ASSUME NEW t \in Threads, CountNotification(t) PROVE FlagStands'
  BY <1>10 DEF CountNotification
<1>11. ASSUME NEW t \in Threads, LookAtInfo(t) PROVE FlagStands'
  BY <1>11 DEF LookAtInfo, Leave, Release, NotMine, Unlocked
<1>12. ASSUME NEW t \in Threads, TakeInfo(t) PROVE FlagStands'
  BY <1>12 DEF TakeInfo, Leave, Release, NotMine, Unlocked
<1>13. ASSUME NEW t \in Threads, ClearFlag(t) PROVE FlagStands'
  BY <1>13 DEF ClearFlag, Leave, Release, StoreFlag
<1>14. ASSUME NEW t \in Threads, EpochIdSet(t) PROVE FlagStands'
  BY <1>14 DEF EpochIdSet, Aged
<1>15. ASSUME NEW t \in Threads, Cancel(t) PROVE FlagStands'
  BY <1>15 DEF Cancel, Resume
<1>16. ASSUME NEW t \in Threads, NEW w \in Wakers, Poll(t, w) PROVE FlagStands'
  BY <1>16 DEF Poll, Resume
<1>17. ASSUME NEW t \in Threads, Scan(t) PROVE FlagStands'
  BY <1>17 DEF Scan
<1>18. CASE Subscribe
  BY <1>18 DEF Subscribe, StoreFlag
<1>19. CASE Snapshot
  BY <1>19 DEF Snapshot
<1>20. CASE SubscriberFence
  BY <1>20 DEF SubscriberFence
<1>21. CASE ScanDone
  BY <1>21 DEF ScanDone
<1>22. CASE Check
  BY <1>22 DEF Check, Changed, NotChanged
<1>23. CASE Register
  BY <1>23 DEF Register, Acquire, Unlocked, Myself
<1>24. CASE LookRegistered
  BY <1>24 DEF LookRegistered, Unlocked, Myself
<1>25. CASE UpdateRegistered
  BY <1>25 DEF UpdateRegistered, Acquire, Unlocked, Myself
<1>26. CASE Recheck
  BY <1>26 DEF Recheck, Changed, NotChanged
<1>27. CASE DropFlag
  BY <1>27 DEF DropFlag, StoreFlag
<1>28. CASE DropInfo
  BY <1>28 DEF DropInfo, Acquire, Unlocked
<1>29. CASE UNCHANGED vars
  BY <1>29 DEF vars
<1> QED
  BY <1>1, <1>2, <1>3, <1>4, <1>5, <1>6, <1>7, <1>8, <1>9, <1>10, <1>11, <1>12, <1>13,
     <1>14, <1>15,
     <1>16, <1>17, <1>18, <1>19, <1>20, <1>21, <1>22, <1>23, <1>24, <1>25, <1>26, <1>27,
     <1>28, <1>29
  DEF Next, Hook, Notification, Waiter

\* A waiter awaits because of a thread it can have found behind.
LEMMA AwaitStep == TypeOK /\ AwaitInv /\ [Next]_vars => AwaitInv'
<1> SUFFICES ASSUME TypeOK /\ AwaitInv, [Next]_vars PROVE AwaitInv'
  OBVIOUS
<1>0. TypeOK /\ TypeOK'
  BY TypeStep
<1> USE <1>0 DEF TypeOK, SetPc, threadVars, epochVars, wordVars, flagVars, taskVars,
      subVars,
      AwaitInv, AwaitPcs
<1>1. ASSUME NEW t \in Threads, AfterLoad(t) PROVE AwaitInv'
  BY <1>1 DEF AfterLoad, LoadEpoch
<1>2. ASSUME NEW t \in Threads, AfterStore(t) PROVE AwaitInv'
  BY <1>2 DEF AfterStore, StoreWord
<1>3. ASSUME NEW t \in Threads, Park(t) PROVE AwaitInv'
  BY <1>3 DEF Park, StoreWord
<1>4. ASSUME NEW t \in Threads, Unpark(t) PROVE AwaitInv'
  BY <1>4 DEF Unpark, StoreWord
<1>5. ASSUME NEW t \in Threads, UnparkFence(t) PROVE AwaitInv'
  BY <1>5 DEF UnparkFence, Fence
<1>6. ASSUME NEW t \in Threads, UnparkLoad(t) PROVE AwaitInv'
  BY <1>6 DEF UnparkLoad, LoadEpoch
<1>7. ASSUME NEW t \in Threads, UnparkStore(t) PROVE AwaitInv'
  BY <1>7 DEF UnparkStore, StoreWord
<1>8. ASSUME NEW t \in Threads, HookFence(t) PROVE AwaitInv'
  BY <1>8 DEF HookFence, Fence
<1>9. ASSUME NEW t \in Threads, LoadFlag(t) PROVE AwaitInv'
  BY <1>9 DEF LoadFlag, Leave
<1>10. ASSUME NEW t \in Threads, CountNotification(t) PROVE AwaitInv'
  BY <1>10 DEF CountNotification
<1>11. ASSUME NEW t \in Threads, LookAtInfo(t) PROVE AwaitInv'
  BY <1>11 DEF LookAtInfo, Leave, Release, NotMine, Unlocked
<1>12. ASSUME NEW t \in Threads, TakeInfo(t) PROVE AwaitInv'
  BY <1>12 DEF TakeInfo, Leave, Release, NotMine, Unlocked
<1>13. ASSUME NEW t \in Threads, ClearFlag(t) PROVE AwaitInv'
  BY <1>13 DEF ClearFlag, Leave, Release, StoreFlag
<1>14. ASSUME NEW t \in Threads, EpochIdSet(t) PROVE AwaitInv'
  BY <1>14 DEF EpochIdSet, Aged
<1>15. ASSUME NEW t \in Threads, Cancel(t) PROVE AwaitInv'
  BY <1>15 DEF Cancel, Resume
<1>16. ASSUME NEW t \in Threads, NEW w \in Wakers, Poll(t, w) PROVE AwaitInv'
  BY <1>16 DEF Poll, Resume
<1>17. ASSUME NEW t \in Threads, Scan(t) PROVE AwaitInv'
  BY <1>17 DEF Scan
<1>18. CASE Subscribe
  BY <1>18 DEF Subscribe, StoreFlag
<1>19. CASE Snapshot
  BY <1>19 DEF Snapshot
<1>20. CASE SubscriberFence
  BY <1>20 DEF SubscriberFence
<1>21. CASE ScanDone
  BY <1>21 DEF ScanDone
<1>22. CASE Check
  BY <1>22 DEF Check, Changed, NotChanged
<1>23. CASE Register
  BY <1>23 DEF Register, Acquire, Unlocked, Myself
<1>24. CASE LookRegistered
  BY <1>24 DEF LookRegistered, Unlocked, Myself
<1>25. CASE UpdateRegistered
  BY <1>25 DEF UpdateRegistered, Acquire, Unlocked, Myself
<1>26. CASE Recheck
  BY <1>26 DEF Recheck, Changed, NotChanged
<1>27. CASE DropFlag
  BY <1>27 DEF DropFlag, StoreFlag
<1>28. CASE DropInfo
  BY <1>28 DEF DropInfo, Acquire, Unlocked
<1>29. CASE UNCHANGED vars
  BY <1>29 DEF vars
<1> QED
  BY <1>1, <1>2, <1>3, <1>4, <1>5, <1>6, <1>7, <1>8, <1>9, <1>10, <1>11, <1>12, <1>13,
     <1>14, <1>15,
     <1>16, <1>17, <1>18, <1>19, <1>20, <1>21, <1>22, <1>23, <1>24, <1>25, <1>26, <1>27,
     <1>28, <1>29
  DEF Next, Hook, Notification, Waiter

\* What the scan may take for passed is safe.
LEMMA GraceStep ==
  TypeOK /\ WordInv /\ ViewInv /\ HostInv /\ GraceInv /\ [Next]_vars => GraceInv'
<1> SUFFICES ASSUME TypeOK /\ WordInv /\ ViewInv /\ HostInv /\ GraceInv, [Next]_vars
      PROVE GraceInv'
  OBVIOUS
<1>0. TypeOK /\ TypeOK'
  BY TypeStep
<1> USE <1>0 DEF TypeOK, SetPc, threadVars, epochVars, wordVars, flagVars, taskVars,
      subVars,
      GraceInv, Safe, WordInv, ViewInv, HostInv, Publishing, Retiring, UnparkPcs,
      NotifyPcs, ActivePcs, AwaitPcs, RunSubPcs, Words, Epochs, Hooks
<1>1. ASSUME NEW t \in Threads, AfterLoad(t) PROVE GraceInv'
  BY <1>1 DEF AfterLoad, LoadEpoch
<1>2. ASSUME NEW t \in Threads, AfterStore(t) PROVE GraceInv'
  BY <1>2 DEF AfterStore, StoreWord
<1>3. ASSUME NEW t \in Threads, Park(t) PROVE GraceInv'
  BY <1>3 DEF Park, StoreWord
<1>4. ASSUME NEW t \in Threads, Unpark(t) PROVE GraceInv'
  BY <1>4 DEF Unpark, StoreWord
<1>5. ASSUME NEW t \in Threads, UnparkFence(t) PROVE GraceInv'
  BY <1>5 DEF UnparkFence, Fence
<1>6. ASSUME NEW t \in Threads, UnparkLoad(t) PROVE GraceInv'
  BY <1>6 DEF UnparkLoad, LoadEpoch
<1>7. ASSUME NEW t \in Threads, UnparkStore(t) PROVE GraceInv'
  BY <1>7 DEF UnparkStore, StoreWord
<1>8. ASSUME NEW t \in Threads, HookFence(t) PROVE GraceInv'
  BY <1>8 DEF HookFence, Fence
<1>9. ASSUME NEW t \in Threads, LoadFlag(t) PROVE GraceInv'
  BY <1>9 DEF LoadFlag, Leave
<1>10. ASSUME NEW t \in Threads, CountNotification(t) PROVE GraceInv'
  BY <1>10 DEF CountNotification
<1>11. ASSUME NEW t \in Threads, LookAtInfo(t) PROVE GraceInv'
  BY <1>11 DEF LookAtInfo, Leave, Release, NotMine, Unlocked
<1>12. ASSUME NEW t \in Threads, TakeInfo(t) PROVE GraceInv'
  BY <1>12 DEF TakeInfo, Leave, Release, NotMine, Unlocked
<1>13. ASSUME NEW t \in Threads, ClearFlag(t) PROVE GraceInv'
  BY <1>13 DEF ClearFlag, Leave, Release, StoreFlag
<1>14. ASSUME NEW t \in Threads, EpochIdSet(t) PROVE GraceInv'
  BY <1>14 DEF EpochIdSet, Aged
<1>15. ASSUME NEW t \in Threads, Cancel(t) PROVE GraceInv'
  BY <1>15 DEF Cancel, Resume
<1>16. ASSUME NEW t \in Threads, NEW w \in Wakers, Poll(t, w) PROVE GraceInv'
  BY <1>16 DEF Poll, Resume
<1>17. ASSUME NEW t \in Threads, Scan(t) PROVE GraceInv'
  BY <1>17 DEF Scan
<1>18. CASE Subscribe
  BY <1>18 DEF Subscribe, StoreFlag
<1>19. CASE Snapshot
  BY <1>19 DEF Snapshot
<1>20. CASE SubscriberFence
  BY <1>20 DEF SubscriberFence
<1>21. CASE ScanDone
  BY <1>21 DEF ScanDone
<1>22. CASE Check
  BY <1>22 DEF Check, Changed, NotChanged
<1>23. CASE Register
  BY <1>23 DEF Register, Acquire, Unlocked, Myself
<1>24. CASE LookRegistered
  BY <1>24 DEF LookRegistered, Unlocked, Myself
<1>25. CASE UpdateRegistered
  BY <1>25 DEF UpdateRegistered, Acquire, Unlocked, Myself
<1>26. CASE Recheck
  BY <1>26 DEF Recheck, Changed, NotChanged
<1>27. CASE DropFlag
  BY <1>27 DEF DropFlag, StoreFlag
<1>28. CASE DropInfo
  BY <1>28 DEF DropInfo, Acquire, Unlocked
<1>29. CASE UNCHANGED vars
  BY <1>29 DEF vars
<1> QED
  BY <1>1, <1>2, <1>3, <1>4, <1>5, <1>6, <1>7, <1>8, <1>9, <1>10, <1>11, <1>12, <1>13,
     <1>14, <1>15,
     <1>16, <1>17, <1>18, <1>19, <1>20, <1>21, <1>22, <1>23, <1>24, <1>25, <1>26, <1>27,
     <1>28, <1>29
  DEF Next, Hook, Notification, Waiter

\* Whoever the scan can have found behind is going to tell.
LEMMA TellStep ==
  ASSUME TypeOK, WordInv, ViewInv, HostInv, RegisteredInv, SleepInv, FlagStands, TellInv,
         [Next]_vars
  PROVE  TellInv'
<1> SUFFICES ASSUME TypeOK /\ WordInv /\ ViewInv /\ HostInv /\ RegisteredInv /\
      SleepInv /\ FlagStands /\ TellInv, [Next]_vars PROVE TellInv'
  OBVIOUS
<1>0. TypeOK /\ TypeOK'
  BY TypeStep
<1> USE <1>0 DEF TypeOK, SetPc, threadVars, epochVars, wordVars, flagVars, taskVars,
      subVars,
      TellInv, Delivered, Owing, SkipsOwn, WordInv, ViewInv, HostInv, RegisteredInv,
      SleepInv, FlagStands, Publishing, Retiring, UnparkPcs, NotifyPcs, ActivePcs,
      AwaitPcs, RunSubPcs, News, Hooks
<1>1. ASSUME NEW t \in Threads, AfterLoad(t) PROVE TellInv'
  BY <1>1 DEF AfterLoad, LoadEpoch
<1>2. ASSUME NEW t \in Threads, AfterStore(t) PROVE TellInv'
  BY <1>2 DEF AfterStore, StoreWord
<1>3. ASSUME NEW t \in Threads, Park(t) PROVE TellInv'
  BY <1>3 DEF Park, StoreWord
<1>4. ASSUME NEW t \in Threads, Unpark(t) PROVE TellInv'
  BY <1>4 DEF Unpark, StoreWord
<1>5. ASSUME NEW t \in Threads, UnparkFence(t) PROVE TellInv'
  BY <1>5 DEF UnparkFence, Fence
<1>6. ASSUME NEW t \in Threads, UnparkLoad(t) PROVE TellInv'
  BY <1>6 DEF UnparkLoad, LoadEpoch
<1>7. ASSUME NEW t \in Threads, UnparkStore(t) PROVE TellInv'
  BY <1>7 DEF UnparkStore, StoreWord
<1>8. ASSUME NEW t \in Threads, HookFence(t) PROVE TellInv'
  BY <1>8 DEF HookFence, Fence
<1>9. ASSUME NEW t \in Threads, LoadFlag(t) PROVE TellInv'
  BY <1>9 DEF LoadFlag, Leave
<1>10. ASSUME NEW t \in Threads, CountNotification(t) PROVE TellInv'
  BY <1>10 DEF CountNotification
<1>11. ASSUME NEW t \in Threads, LookAtInfo(t) PROVE TellInv'
  BY <1>11 DEF LookAtInfo, Leave, Release, NotMine, Unlocked
<1>12. ASSUME NEW t \in Threads, TakeInfo(t) PROVE TellInv'
  BY <1>12 DEF TakeInfo, Leave, Release, NotMine, Unlocked
<1>13. ASSUME NEW t \in Threads, ClearFlag(t) PROVE TellInv'
  BY <1>13 DEF ClearFlag, Leave, Release, StoreFlag
<1>14. ASSUME NEW t \in Threads, EpochIdSet(t) PROVE TellInv'
  BY <1>14 DEF EpochIdSet, Aged
<1>15. ASSUME NEW t \in Threads, Cancel(t) PROVE TellInv'
  BY <1>15 DEF Cancel, Resume
<1>16. ASSUME NEW t \in Threads, NEW w \in Wakers, Poll(t, w) PROVE TellInv'
  BY <1>16 DEF Poll, Resume
<1>17. ASSUME NEW t \in Threads, Scan(t) PROVE TellInv'
  BY <1>17 DEF Scan
<1>18. CASE Subscribe
  BY <1>18 DEF Subscribe, StoreFlag
<1>19. CASE Snapshot
  BY <1>19 DEF Snapshot
<1>20. CASE SubscriberFence
  BY <1>20 DEF SubscriberFence
<1>21. CASE ScanDone
  BY <1>21 DEF ScanDone
<1>22. CASE Check
  BY <1>22 DEF Check, Changed, NotChanged
<1>23. CASE Register
  BY <1>23 DEF Register, Acquire, Unlocked, Myself
<1>24. CASE LookRegistered
  BY <1>24 DEF LookRegistered, Unlocked, Myself
<1>25. CASE UpdateRegistered
  BY <1>25 DEF UpdateRegistered, Acquire, Unlocked, Myself
<1>26. CASE Recheck
  BY <1>26 DEF Recheck, Changed, NotChanged
<1>27. CASE DropFlag
  BY <1>27 DEF DropFlag, StoreFlag
<1>28. CASE DropInfo
  BY <1>28 DEF DropInfo, Acquire, Unlocked
<1>29. CASE UNCHANGED vars
  BY <1>29 DEF vars
<1> QED
  BY <1>1, <1>2, <1>3, <1>4, <1>5, <1>6, <1>7, <1>8, <1>9, <1>10, <1>11, <1>12, <1>13,
     <1>14, <1>15,
     <1>16, <1>17, <1>18, <1>19, <1>20, <1>21, <1>22, <1>23, <1>24, <1>25, <1>26, <1>27,
     <1>28, <1>29
  DEF Next, Hook, Notification, Waiter

LEMMA NotificationInit == Init => NotificationInv
<1> SUFFICES ASSUME Init PROVE NotificationInv
  OBVIOUS
<1>1. TypeOK
  BY DEF Init, TypeOK, Pcs, SubPcs, Words, Epochs, Flags, Hooks, News
<1>2. WordInv /\ ViewInv
  BY DEF Init, WordInv, ViewInv, Publishing, Retiring, UnparkPcs, NotifyPcs
<1>3. HostInv /\ RegisteredInv /\ SleepInv
  BY DEF Init, HostInv, RegisteredInv, SleepInv, RunSubPcs, ActivePcs, AwaitPcs
<1>4. FlagStands /\ TellInv /\ AwaitInv /\ GraceInv
  BY DEF Init, FlagStands, TellInv, AwaitInv, GraceInv, ActivePcs, AwaitPcs
<1> QED BY <1>1, <1>2, <1>3, <1>4 DEF NotificationInv

\* The subscription protocol and the fences keep the invariant, with any number
\* of threads in their hooks and the task moving between threads and wakers.
THEOREM NotificationsInvariance == Spec => []NotificationInv
<1>1. NotificationInv /\ [Next]_vars => NotificationInv'
  BY TypeStep, WordStep, ViewStep, HostStep, RegisteredStep, SleepStep, FlagStep, TellStep,
     AwaitStep, GraceStep DEF NotificationInv
<1> QED BY <1>1, NotificationInit, PTL DEF Spec

\* Waiter and hooks never miss each other: with the fences of the code, relaxed
\* stores and loads elsewhere, and notifiers that come late, a waiter for which
\* everything has happened has been woken.
THEOREM NotificationsReach == Spec => []NoLostWakeup
<1>1. NotificationInv => NoLostWakeup
  <2> SUFFICES ASSUME NotificationInv, sub = "pending",
                      \A t \in Threads : pc[t] \in {"run", "parked"} /\ word[t] # "old"
               PROVE  woken
    BY DEF NoLostWakeup
  <2>1. PICK t \in Threads : "old" \in scanView[t]
    BY DEF NotificationInv, AwaitInv, AwaitPcs
  <2>2. ~Owing(t)
    BY DEF Owing
  <2>3. Delivered
    BY <2>1, <2>2 DEF NotificationInv, TellInv, ActivePcs, AwaitPcs
  <2>4. registered /\ news # "known"
    BY DEF NotificationInv, RegisteredInv, SleepInv
  <2>5. info = None
    BY <2>3, <2>4 DEF Delivered
  <2> QED BY <2>5 DEF NotificationInv, SleepInv
<1> QED BY <1>1, NotificationsInvariance, PTL

\* A grace period that was waited for to its end leaves no thread running on an
\* older epoch id, although parked threads are not waited for and wake up while
\* the waiter scans.
THEOREM GracePeriodsCover == Spec => []GraceIsOver
<1>1. NotificationInv => GraceIsOver
  BY DEF NotificationInv, TypeOK, GraceIsOver, GraceInv, Safe, WordInv, Epochs
<1> QED BY <1>1, NotificationsInvariance, PTL

\* No subscriber's flag is cleared by a notifier of an earlier subscription.
THEOREM FlagIsKept == Spec => []FlagStands
<1>1. NotificationInv => FlagStands
  BY DEF NotificationInv
<1> QED BY <1>1, NotificationsInvariance, PTL
=============================================================================
