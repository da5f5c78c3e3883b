------------------------- MODULE EpochNotifications -------------------------
(***************************************************************************)
(* The waiter and the hooks with the memory orders of the code: the wait   *)
(* loop of src/rcu_core/mod.rs, the hooks' stores and SeqCst fences, and   *)
(* the subscription and notification of epoch_id_update_notifications.rs,  *)
(* access by access.  RcuCore and its proofs take a store to be visible at *)
(* once and a subscription's poll and drop to be single steps; this module *)
(* checks what these simplifications rest on.                              *)
(*                                                                         *)
(* A relaxed load may return any value that has not been superseded for    *)
(* the thread that loads.  A view is the set of these values: a store adds *)
(* to the views of the others, and of two threads that store and then      *)
(* fence, the one that fences last has nothing but the other's store left  *)
(* in its view.  What a lock protects is always up to date, and a thread   *)
(* that locks for writing sees what earlier holders did before they        *)
(* unlocked.                                                               *)
(*                                                                         *)
(* Epoch ids are "new" (that of the latest grace period) and "old"; a      *)
(* thread's word is the id its owner published, or "idle" when the thread  *)
(* is parked or has no slot.  An unparking thread's first word (busy, id   *)
(* 0) counts as "old".  on_before_task_poll is on_thread_unpark with a     *)
(* slot to allocate.                                                       *)
(***************************************************************************)
EXTENDS Naturals

CONSTANTS
  Threads,   \* threads of the runtime
  Wakers,    \* wakers the waiter's task may be polled with
  None       \* SUBSCRIBER_INFO is None

ASSUME NotificationAssumption == None \notin [thread : Threads, waker : Wakers]

VARIABLES
  \* Threads.
  pc,         \* pc[t]: what t does
  hook,       \* hook[t]: the hook t is in, or was in last
  word,       \* word[t]: the latest value of t's slot
  loaded,     \* loaded[t]: the epoch id t has loaded last
  epochView,  \* epochView[t]: epoch ids t may load
  flagView,   \* flagView[t]: values of the flag t may load
  \* Shared memory.
  flag,       \* the latest value of the has_subscriber flag
  flagVals,   \* values of it that a thread may load after a fence
  wordVals,   \* wordVals[t]: values of t's slot that a fence leaves to load
  info,       \* SUBSCRIBER_INFO: thread and waker
  \* The waiter.
  sub,        \* where it is in its wait loop ("idle": no grace period)
  host,       \* the thread it runs on, or ran on last
  waker,      \* the waker of its latest poll
  woken,      \* it was woken since
  registered, \* had_already_registered
  consumed,   \* did_someone_consume_my_subscriber_info
  news,       \* what it can tell of NUM_NOTIFICATIONS against its snapshot
  fresh,      \* threads whose last increment came after the snapshot
  scanView,   \* scanView[t]: values of t's slot its scan may load
  todo,       \* slots its scan has not looked at
  published,  \* it has fenced since it stored the epoch id
  outcome     \* of the grace period: "running", "over" or "dropped"

threadVars == <<pc, hook, loaded>>
epochVars  == <<epochView, published>>
wordVars   == <<word, wordVals, scanView>>
flagVars   == <<flag, flagVals, flagView>>
taskVars   == <<host, waker, woken, outcome>>
subVars    == <<registered, consumed, news, fresh>>
vars == <<threadVars, epochVars, wordVars, flagVars, info, sub, taskVars, subVars, todo>>

Words  == {"idle", "old", "new"}
Epochs == {"old", "new"}
Flags  == {"set", "clear"}
Hooks  == {"after", "park", "unpark", "stop"}
News   == {"none", "some", "released", "known"}

NotifyPcs == {"fence", "load", "count", "look", "take", "off"}
UnparkPcs == {"unpark_fence", "unpark_load", "unpark_store"}
Pcs == {"run", "host", "after", "after_store", "parked"} \cup UnparkPcs \cup NotifyPcs

AwaitPcs  == {"check", "register", "update", "recheck", "pending"}
ActivePcs == {"scan"} \cup AwaitPcs
RunSubPcs == {"subscribe", "snapshot", "fence", "scan", "check", "register",
              "update", "recheck", "drop", "drop_info"}
SubPcs == {"idle", "pending"} \cup RunSubPcs

TypeOK ==
  /\ pc \in [Threads -> Pcs] /\ hook \in [Threads -> Hooks]
  /\ word \in [Threads -> Words] /\ loaded \in [Threads -> Epochs]
  /\ epochView \in [Threads -> SUBSET Epochs]
  /\ flagView \in [Threads -> SUBSET Flags]
  /\ flag \in Flags /\ flagVals \subseteq Flags
  /\ wordVals \in [Threads -> SUBSET Words]
  /\ info \in [thread : Threads, waker : Wakers] \cup {None}
  /\ sub \in SubPcs /\ host \in Threads /\ waker \in Wakers
  /\ woken \in BOOLEAN /\ registered \in BOOLEAN /\ consumed \in BOOLEAN
  /\ news \in News /\ fresh \subseteq Threads
  /\ scanView \in [Threads -> SUBSET Words] /\ todo \subseteq Threads
  /\ published \in BOOLEAN /\ outcome \in {"running", "over", "dropped"}

Init ==
  /\ pc = [t \in Threads |-> "parked"]
  /\ hook = [t \in Threads |-> "stop"]
  /\ word = [t \in Threads |-> "idle"]
  /\ loaded = [t \in Threads |-> "old"]
  /\ epochView = [t \in Threads |-> {"new"}]
  /\ flagView = [t \in Threads |-> {"clear"}]
  /\ flag = "clear" /\ flagVals = {"clear"}
  /\ wordVals = [t \in Threads |-> {"idle"}]
  /\ info = None
  /\ sub = "idle" /\ host \in Threads /\ waker \in Wakers
  /\ woken = FALSE /\ registered = FALSE /\ consumed = FALSE
  /\ news = "none" /\ fresh = {}
  /\ scanView = [t \in Threads |-> {"idle"}] /\ todo = {}
  /\ published = TRUE /\ outcome = "dropped"

-----------------------------------------------------------------------------
(***************************************************************************)
(* Memory.                                                                 *)
(***************************************************************************)
SetPc(t, to) == pc' = [pc EXCEPT ![t] = to]

\* Relaxed stores.
StoreWord(t, v) ==
  /\ word' = [word EXCEPT ![t] = v]
  /\ wordVals' = [wordVals EXCEPT ![t] = @ \cup {v}]
  /\ scanView' = [scanView EXCEPT ![t] = @ \cup {v}]

StoreFlag(v) ==
  /\ flag' = v
  /\ flagVals' = flagVals \cup {v}
  /\ flagView' = [t \in Threads |-> flagView[t] \cup {v}]

\* A SeqCst fence of thread t.
Fence(t) ==
  /\ wordVals' = [wordVals EXCEPT ![t] = {word[t]}]
  /\ flagView' = [flagView EXCEPT ![t] = flagVals]
  /\ epochView' = IF published THEN [epochView EXCEPT ![t] = {"new"}] ELSE epochView

\* A relaxed load of the epoch id; a thread never loads an older value than before.
LoadEpoch(t) == \E e \in epochView[t] :
  /\ loaded' = [loaded EXCEPT ![t] = e]
  /\ epochView' = [epochView EXCEPT ![t] = IF e = "new" THEN {"new"} ELSE @]

\* The lock of SUBSCRIBER_INFO is kept over two steps at "off" only.
Unlocked == \A t \in Threads : pc[t] # "off"

\* What a notifier did before it unlocked, and the waiter once it has locked.
Release(t) == news' = IF t \in fresh /\ news = "some" THEN "released" ELSE news
Acquire == news' = IF news = "released" THEN "known" ELSE news

-----------------------------------------------------------------------------
(***************************************************************************)
(* The hooks.                                                              *)
(***************************************************************************)

\* on_after_task_poll, after the waiter's task ("after") or any other.
AfterLoad(t) ==
  /\ pc[t] \in {"run", "after"}
  /\ LoadEpoch(t)
  /\ SetPc(t, "after_store") /\ hook' = [hook EXCEPT ![t] = "after"]
  /\ UNCHANGED <<published, wordVars, flagVars, info, sub, taskVars, subVars, todo>>

\* It notifies if the epoch id has changed.  Two "old" ones may differ.
AfterStore(t) ==
  /\ pc[t] = "after_store"
  /\ StoreWord(t, loaded[t])
  /\ \/ loaded[t] = word[t] /\ SetPc(t, "run")
     \/ (loaded[t] # word[t] \/ loaded[t] = "old") /\ SetPc(t, "fence")
  /\ UNCHANGED <<hook, loaded, epochVars, flagVars, info, sub, taskVars, subVars, todo>>

\* on_thread_park clears the busy bit, on_thread_stop the slot.
Park(t) ==
  /\ pc[t] = "run"
  /\ StoreWord(t, "idle")
  /\ SetPc(t, "fence")
  /\ \E h \in {"park", "stop"} : hook' = [hook EXCEPT ![t] = h]
  /\ UNCHANGED <<loaded, epochVars, flagVars, info, sub, taskVars, subVars, todo>>

\* on_thread_unpark and on_before_task_poll
Unpark(t) ==
  /\ pc[t] = "parked"
  /\ StoreWord(t, "old")
  /\ SetPc(t, "unpark_fence") /\ hook' = [hook EXCEPT ![t] = "unpark"]
  /\ UNCHANGED <<loaded, epochVars, flagVars, info, sub, taskVars, subVars, todo>>

\* Fault: on_thread_unpark has no fence between its store and its load.
UnparkNoFence(t) ==
  /\ pc[t] = "unpark_fence"
  /\ SetPc(t, "unpark_load")
  /\ UNCHANGED <<hook, loaded, epochVars, wordVars, flagVars, info, sub, taskVars,
                 subVars, todo>>

UnparkFence(t) ==
  /\ pc[t] = "unpark_fence"
  /\ Fence(t)
  /\ SetPc(t, "unpark_load")
  /\ UNCHANGED <<hook, loaded, published, word, scanView, flag, flagVals, info, sub, taskVars,
                 subVars, todo>>

UnparkLoad(t) ==
  /\ pc[t] = "unpark_load"
  /\ LoadEpoch(t)
  /\ SetPc(t, "unpark_store")
  /\ UNCHANGED <<hook, published, wordVars, flagVars, info, sub, taskVars, subVars, todo>>

UnparkStore(t) ==
  /\ pc[t] = "unpark_store"
  /\ StoreWord(t, loaded[t])
  /\ SetPc(t, "fence")
  /\ UNCHANGED <<hook, loaded, epochVars, flagVars, info, sub, taskVars, subVars, todo>>

-----------------------------------------------------------------------------
(***************************************************************************)
(* The notification at the end of a hook (thread_epoch_updated_notify).    *)
(***************************************************************************)
Leave(t) == SetPc(t, IF hook[t] \in {"park", "stop"} THEN "parked" ELSE "run")

\* SUBSCRIBER_INFO is nothing for t to take: there is none, or a parking thread
\* would wake itself.
NotMine(t) == info # None => hook[t] = "park" /\ info.thread = t

HookFence(t) ==
  /\ pc[t] = "fence"
  /\ Fence(t)
  /\ SetPc(t, "load")
  /\ UNCHANGED <<hook, loaded, published, word, scanView, flag, flagVals, info, sub, taskVars,
                 subVars, todo>>

LoadFlag(t) ==
  /\ pc[t] = "load"
  /\ \/ "set" \in flagView[t] /\ SetPc(t, "count")
     \/ "clear" \in flagView[t] /\ Leave(t)
  /\ UNCHANGED <<hook, loaded, epochVars, wordVars, flagVars, info, sub, taskVars,
                 subVars, todo>>

CountNotification(t) ==
  /\ pc[t] = "count"
  /\ fresh' = fresh \cup {t}
  /\ news' = IF news = "none" THEN "some" ELSE news
  /\ SetPc(t, "look")
  /\ UNCHANGED <<hook, loaded, epochVars, wordVars, flagVars, info, sub, taskVars,
                 registered, consumed, todo>>

\* The read lock.
LookAtInfo(t) ==
  /\ pc[t] = "look" /\ Unlocked
  /\ IF NotMine(t) THEN Leave(t) ELSE SetPc(t, "take")
  /\ Release(t)
  /\ UNCHANGED <<hook, loaded, epochVars, wordVars, flagVars, info, sub, taskVars,
                 registered, consumed, fresh, todo>>

\* The write lock: take the subscriber info and wake the subscriber.
TakeInfo(t) ==
  /\ pc[t] = "take" /\ Unlocked
  /\ \/ /\ NotMine(t)
        /\ Leave(t) /\ Release(t)
        /\ UNCHANGED <<info, woken>>
     \/ /\ ~NotMine(t)
        /\ info' = None
        /\ IF info.waker = waker THEN woken' = TRUE ELSE woken' = woken
        /\ SetPc(t, "off") /\ news' = news
  /\ UNCHANGED <<hook, loaded, epochVars, wordVars, flagVars, sub, host, waker, outcome,
                 registered, consumed, fresh, todo>>

\* Still under the write lock.
ClearFlag(t) ==
  /\ pc[t] = "off"
  /\ StoreFlag("clear")
  /\ Leave(t) /\ Release(t)
  /\ UNCHANGED <<hook, loaded, epochVars, wordVars, info, sub, taskVars,
                 registered, consumed, fresh, todo>>

Hook(t) == AfterLoad(t) \/ AfterStore(t) \/ Park(t) \/ Unpark(t) \/ UnparkFence(t)
             \/ UnparkLoad(t) \/ UnparkStore(t)
Notification(t) == HookFence(t) \/ LoadFlag(t) \/ CountNotification(t) \/ LookAtInfo(t)
                     \/ TakeInfo(t) \/ ClearFlag(t)

-----------------------------------------------------------------------------
(***************************************************************************)
(* The wait loop.  Epoch ids and words of before are old from now on.      *)
(***************************************************************************)
Aged(v) == IF v = "new" THEN "old" ELSE v

\* A task that holds the serialization mutex stores the next epoch id.
EpochIdSet(t) ==
  /\ sub = "idle" /\ pc[t] = "run"
  /\ SetPc(t, "host")
  /\ loaded' = [u \in Threads |-> "old"]
  /\ word' = [u \in Threads |-> Aged(word[u])]
  /\ wordVals' = [u \in Threads |-> {Aged(v) : v \in wordVals[u]}]
  /\ scanView' = [u \in Threads |-> {Aged(v) : v \in scanView[u]}]
  /\ epochView' = [u \in Threads |-> IF u = t THEN {"new"} ELSE Epochs]
  /\ published' = FALSE
  /\ sub' = "subscribe" /\ host' = t /\ outcome' = "running"
  /\ UNCHANGED <<hook, flagVars, info, waker, woken, subVars, todo>>

\* subscribe_to_epoch_id_notifications: the store, then the snapshot.
Subscribe ==
  /\ sub = "subscribe"
  /\ StoreFlag("set")
  /\ sub' = "snapshot"
  /\ registered' = FALSE /\ consumed' = FALSE
  /\ UNCHANGED <<threadVars, epochVars, wordVars, info, taskVars, news, fresh, todo>>

\* An older count would only end the wait sooner.
Snapshot ==
  /\ sub = "snapshot"
  /\ news' = "none" /\ fresh' = {}
  /\ sub' = "fence"
  /\ UNCHANGED <<threadVars, epochVars, wordVars, flagVars, info, taskVars,
                 registered, consumed, todo>>

\* Fault: the waiter does not fence between subscribing and scanning.
SubscriberNoFence ==
  /\ sub = "fence"
  /\ scanView' = wordVals
  /\ published' = TRUE
  /\ sub' = "scan" /\ todo' = Threads
  /\ UNCHANGED <<threadVars, epochView, word, wordVals, flagVars, info, taskVars, subVars>>

SubscriberFence ==
  /\ sub = "fence"
  /\ flagVals' = {flag}
  /\ scanView' = wordVals
  /\ published' = TRUE
  /\ sub' = "scan" /\ todo' = Threads
  /\ UNCHANGED <<threadVars, epochView, word, wordVals, flag, flagView, info, taskVars, subVars>>

\* The scan ends at the first thread that has not seen the epoch id.
Scan(t) ==
  /\ sub = "scan" /\ t \in todo
  /\ \/ /\ scanView[t] \cap {"idle", "new"} # {}
        /\ todo' = todo \ {t} /\ sub' = sub
     \/ /\ "old" \in scanView[t]
        /\ sub' = "check" /\ todo' = {}
  /\ UNCHANGED <<threadVars, epochVars, wordVars, flagVars, info, taskVars, subVars>>

ScanDone ==
  /\ sub = "scan" /\ todo = {}
  /\ sub' = "drop" /\ outcome' = "over"
  /\ UNCHANGED <<threadVars, epochVars, wordVars, flagVars, info, host, waker, woken,
                 subVars, todo>>

\* did_num_notifications_change_since_snapshot
Changed    == news # "none" /\ news' = "known"
NotChanged == news # "known" /\ news' = news

Check ==
  /\ sub = "check"
  /\ \/ Changed /\ sub' = "drop"
     \/ NotChanged /\ sub' = "register"
  /\ UNCHANGED <<threadVars, epochVars, wordVars, flagVars, info, taskVars,
                 registered, consumed, fresh, todo>>

Myself == [thread |-> host, waker |-> waker]

\* register_subscriber_info, the first time: the write lock.
Register ==
  /\ sub = "register" /\ ~registered /\ Unlocked
  /\ info' = Myself
  /\ registered' = TRUE
  /\ Acquire
  /\ sub' = "recheck"
  /\ UNCHANGED <<threadVars, epochVars, wordVars, flagVars, taskVars, consumed, fresh, todo>>

\* Later: the read lock.
LookRegistered ==
  /\ sub = "register" /\ registered /\ Unlocked
  /\ \/ info = None /\ sub' = "drop" /\ consumed' = TRUE
     \/ info = Myself /\ sub' = "recheck" /\ consumed' = consumed
     \/ info \notin {None, Myself} /\ sub' = "update" /\ consumed' = consumed
  /\ UNCHANGED <<threadVars, epochVars, wordVars, flagVars, info, taskVars,
                 registered, news, fresh, todo>>

\* Fault: the write lock is taken without looking again.
UpdateBlindly ==
  /\ sub = "update" /\ Unlocked
  /\ info' = Myself
  /\ sub' = "recheck"
  /\ Acquire
  /\ UNCHANGED <<threadVars, epochVars, wordVars, flagVars, taskVars,
                 registered, consumed, fresh, todo>>

\* The write lock, to bring the thread and the waker up to date.
UpdateRegistered ==
  /\ sub = "update" /\ Unlocked
  /\ \/ info = None /\ info' = info /\ consumed' = TRUE /\ sub' = "drop"
     \/ info # None /\ info' = Myself /\ consumed' = consumed /\ sub' = "recheck"
  /\ Acquire
  /\ UNCHANGED <<threadVars, epochVars, wordVars, flagVars, taskVars, registered, fresh, todo>>

\* The second look at the count.  A pending poll returns to the hook of its thread.
Recheck ==
  /\ sub = "recheck"
  /\ \/ Changed /\ sub' = "drop" /\ pc' = pc
     \/ NotChanged /\ sub' = "pending" /\ SetPc(host, "after")
  /\ UNCHANGED <<hook, loaded, epochVars, wordVars, flagVars, info, taskVars,
                 registered, consumed, fresh, todo>>

\* The task runs on t, which sees what the task did before (the runtime's
\* queues synchronize): a poll with waker w, woken or not, or the drop of the
\* future.
Resume(t, to) ==
  /\ sub = "pending" /\ pc[t] = "run"
  /\ sub' = to /\ host' = t /\ SetPc(t, "host")
  /\ epochView' = [epochView EXCEPT ![t] = {"new"}]
  /\ woken' = FALSE
  /\ UNCHANGED <<hook, loaded, published, wordVars, flagVars, info, subVars, todo>>

Poll(t, w) == Resume(t, "check") /\ waker' = w /\ outcome' = outcome
Cancel(t)  == Resume(t, "drop") /\ waker' = waker /\ outcome' = "dropped"

\* Drop of the subscription: the flag, then the registration.
DropFlag ==
  /\ sub = "drop"
  /\ \/ consumed /\ UNCHANGED flagVars
     \/ ~consumed /\ StoreFlag("clear")
  /\ sub' = "drop_info"
  /\ UNCHANGED <<threadVars, epochVars, wordVars, info, taskVars, subVars, todo>>

\* Fault: nothing left to remove is taken for a reason not to lock.
DropInfoUnlocked ==
  /\ sub = "drop_info" /\ (info # None => Unlocked)
  /\ info' = None
  /\ IF outcome = "running" THEN sub' = "subscribe" /\ pc' = pc
     ELSE sub' = "idle" /\ SetPc(host, "after")
  /\ Acquire
  /\ UNCHANGED <<hook, loaded, epochVars, wordVars, flagVars, taskVars,
                 registered, consumed, fresh, todo>>

\* The loop starts over, or the task goes on and its poll ends sometime.
DropInfo ==
  /\ sub = "drop_info"
  /\ IF registered THEN Unlocked /\ info' = None /\ Acquire ELSE UNCHANGED <<info, news>>
  /\ IF outcome = "running" THEN sub' = "subscribe" /\ pc' = pc
     ELSE sub' = "idle" /\ SetPc(host, "after")
  /\ UNCHANGED <<hook, loaded, epochVars, wordVars, flagVars, taskVars,
                 registered, consumed, fresh, todo>>

Waiter == Subscribe \/ Snapshot \/ SubscriberFence \/ (\E t \in Threads : Scan(t)) \/ ScanDone
            \/ Check \/ Register \/ LookRegistered \/ UpdateRegistered \/ Recheck
            \/ DropFlag \/ DropInfo

Next ==
  \/ \E t \in Threads : Hook(t) \/ Notification(t) \/ EpochIdSet(t) \/ Cancel(t)
  \/ \E t \in Threads, w \in Wakers : Poll(t, w)
  \/ Waiter

Spec == Init /\ [][Next]_vars

-----------------------------------------------------------------------------
(***************************************************************************)
(* Properties.                                                             *)
(***************************************************************************)

\* "either we see the state update, or they see our `notified` registration.
\* the case where we both miss each other is no longer possible"
\* (wait_for_running_threads_to_see_epoch_id): when every thread has seen the
\* epoch id or sleeps, and every hook is over, a waiter that is still pending
\* has been woken, by the waker of its latest poll.
NoLostWakeup ==
  /\ sub = "pending"
  /\ \A t \in Threads : pc[t] \in {"run", "parked"} /\ word[t] # "old"
  => woken

\* "either he sees this thread as busy, or this thread is guaranteed to see his
\* epoch id modification" (on_thread_unpark): after a grace period that was
\* waited for to its end, every thread that runs, since before or only now, has
\* loaded the new epoch id and with it sees what its writer did before.
GraceIsOver ==
  sub = "idle" /\ outcome = "over" =>
    \A t \in Threads : pc[t] \in {"run", "host", "after"} => loaded[t] = "new"

\* "if this reads as false, notifiers can assume that there is no currently
\* active subscriber" (QsReadMostlyData): from its fence on, and until somebody
\* has taken its registration, a hook that fences cannot miss the flag of the
\* subscriber, whatever late notifiers of earlier subscriptions still store.
FlagStands ==
  sub \in ActivePcs /\ ~(registered /\ info = None) => flagVals = {"set"}

-----------------------------------------------------------------------------
(***************************************************************************)
(* The inductive invariant behind these properties.                        *)
(***************************************************************************)

\* Threads inside a hook's notification, by what they stored before it.
Publishing(t) == pc[t] \in NotifyPcs /\ hook[t] \in {"after", "unpark"}
Retiring(t)   == pc[t] \in NotifyPcs /\ hook[t] \in {"park", "stop"}

\* A thread's word tells what the thread does and has loaded.
WordInv == \A t \in Threads :
  /\ pc[t] \in {"run", "host", "after"} \/ Publishing(t) => word[t] = loaded[t]
  /\ pc[t] = "parked" \/ Retiring(t) => word[t] = "idle"
  /\ pc[t] \in UnparkPcs => word[t] = "old" /\ hook[t] = "unpark"
  /\ pc[t] = "after_store" => word[t] # "idle" /\ hook[t] = "after"

\* What a view may still hold: nothing is older than what was seen or fenced.
ViewInv == \A t \in Threads :
  /\ word[t] = "new" \/ "new" \in wordVals[t] \cup scanView[t] => loaded[t] = "new"
  /\ loaded[t] = "new" => epochView[t] = {"new"}
  /\ pc[t] \notin {"fence", "unpark_fence"} => wordVals[t] = {word[t]}
  /\ "idle" \in wordVals[t] => word[t] = "idle" \/ pc[t] = "unpark_fence"
  /\ "old" \in wordVals[t] => word[t] = "old" \/ pc[t] = "fence"

\* The waiter's task and the thread it runs on.
HostInv ==
  /\ \A t \in Threads : pc[t] = "host" => t = host /\ sub \in RunSubPcs
  /\ sub \in RunSubPcs => pc[host] = "host" /\ epochView[host] = {"new"}
  /\ sub \in ActivePcs \/ outcome = "over" => published
  /\ outcome = "running" => sub # "idle"
  /\ outcome # "running" => sub \in {"idle", "drop", "drop_info"}

\* A registration is that of the current subscription, and whoever takes it is
\* done with the flag before that subscription is gone.
RegisteredInv ==
  /\ sub \in {"snapshot", "fence", "scan"} => ~registered
  /\ sub \in {"update", "recheck", "pending"} => registered
  /\ info # None => registered /\ sub \in AwaitPcs \cup {"drop", "drop_info"}
  /\ \A t \in Threads : pc[t] = "off" =>
       registered /\ info = None /\ sub \in AwaitPcs \cup {"drop", "drop_info"}
  /\ sub \in {"snapshot", "fence"} => flag = "set"
  /\ \A t \in Threads : info # None /\ info.thread = t =>
       /\ epochView[t] = {"new"}
       /\ pc[t] \in {"host", "after"} \/ loaded[t] = "new"

\* A waiter that goes to sleep has its waker in the registration, or it has been
\* taken and the waker called.
SleepInv ==
  /\ sub \in {"recheck", "pending"} => IF info = None THEN woken ELSE info.waker = waker
  /\ sub = "pending" => news # "known"
  /\ fresh # {} => news # "none"

\* The waiter is bound to notice a notification after its snapshot.
Delivered == \/ news = "known"
             \/ registered /\ info = None
             \/ ~registered /\ news = "released"

\* Thread t is still going to publish what the waiter waits for, or to tell it.
Owing(t) == \/ word[t] = "old"
            \/ pc[t] = "fence"
            \/ pc[t] = "load" /\ flagView[t] = {"set"}
            \/ pc[t] = "count"
            \/ pc[t] \in {"look", "take"} /\ t \in fresh

\* A thread parks on the waiter it has polled last.
SkipsOwn(t) == pc[t] \in NotifyPcs /\ hook[t] = "park" /\ info # None /\ info.thread = t

\* Whoever the scan can have found behind owes a notification, and not one that
\* it skips, unless the waiter is bound to notice anyway.
TellInv == sub \in ActivePcs =>
  \A t \in Threads : "old" \in scanView[t] => Delivered \/ (Owing(t) /\ ~SkipsOwn(t))

AwaitInv == sub \in AwaitPcs => \E t \in Threads : "old" \in scanView[t]

\* Thread t has the new epoch id or will have loaded it before it runs.
Safe(t) == \/ loaded[t] = "new"
           \/ word[t] = "idle"
           \/ pc[t] = "unpark_fence"
           \/ pc[t] = "unpark_load" /\ epochView[t] = {"new"}

\* What the scan may take for passed is safe.
GraceInv ==
  /\ sub \in ActivePcs => \A t \in Threads : "idle" \in scanView[t] => Safe(t)
  /\ sub = "scan" => \A t \in Threads \ todo : Safe(t)
  /\ outcome = "over" => \A t \in Threads : Safe(t)

NotificationInv ==
  /\ TypeOK /\ WordInv /\ ViewInv /\ HostInv /\ RegisteredInv /\ SleepInv
  /\ FlagStands /\ TellInv /\ AwaitInv /\ GraceInv
=============================================================================
