------------------------------ MODULE RcuCore ------------------------------
(***************************************************************************)
(* The grace period algorithm of tokio_rcu (src/rcu_core/mod.rs): the      *)
(* runtime hooks that publish a thread's quiescent states, the serialized  *)
(* part of synchronize_rcu that moves the epoch id and waits for every     *)
(* busy thread, readers, and writers that swap a protected pointer.        *)
(*                                                                         *)
(* Granularity.  Every access to a word that another thread reads or       *)
(* writes is a step of its own: a hook's store of the slot, its load of    *)
(* the epoch id, its second store and its notification; one slot per step  *)
(* of the waiter's scan.  A notification is three steps: its load of the   *)
(* has_subscriber flag, its increment of NUM_NOTIFICATIONS and its visit   *)
(* to SUBSCRIBER_INFO under that lock.  Each thing the waiter does with    *)
(* the primitive (subscribe, poll, drop) is one step.  Memory is           *)
(* sequentially consistent.  Ownership of a slot in the storage array is   *)
(* represented by giving every thread a slot of its own, vacant while the  *)
(* thread has none.  Only the task that holds GP_SERIALIZATION_MUTEX runs  *)
(* the code modelled here as the grace period, so there is at most one.    *)
(***************************************************************************)
EXTENDS ThreadState

CONSTANTS
  Threads,       \* OS threads of rcu enabled runtimes (and block_on callers)
  NoThread,      \* "no thread"
  Objs,          \* allocations a protected pointer can point to
  CancelPhases,  \* phases in which the waiting future may be dropped, or panic
  ManualPoll,    \* may a read-side callback poll the grace period future?
  UntrackedPoll, \* may a thread without a slot poll it first?
  Roots,         \* threads that run a root future which may panic
  AfterPanic     \* what such a thread may do after the panic

Phases == {"gp", "reset", "final"}

\* It ends, or stays: reads, or runs another root future, or both.
PanicUses == {"exit", "read", "enter"}

ASSUME CoreAssumption ==
  /\ NoThread \notin Threads
  /\ Objs # {}
  /\ CancelPhases \subseteq Phases
  /\ ManualPoll \in BOOLEAN
  /\ UntrackedPoll \in BOOLEAN
  /\ Roots \subseteq Threads
  /\ AfterPanic \subseteq PanicUses

VARIABLES
  epoch,     \* the global epoch id
  state,     \* state[t]: the encoded state in t's slot (0: vacant)
  pc,        \* pc[t]: where t is in the runtime's loop and in the hooks
  seen,      \* seen[t]: epoch id loaded by a hook and not yet published (or 0)
  notif,     \* notif[t]: the next step of the notification t's hook ends with
  held,      \* held[t]: objects the read-side section running on t can use
  outer,     \* outer[t]: objects of sections that surround a call of rcu_block_on
  ptr,       \* the object the protected pointer points to
  retired,   \* objects swapped out and not yet freed
  gpPc,      \* control state of the serialized grace period
  gpPhase,   \* which wait it is in
  gpOn,      \* the thread polling it right now
  gpTodo,    \* slots the current scan has still to look at
  gpCovers,  \* objects retired before it started: freed when it completes
  hasSub,    \* the has_subscriber flag
  changed,   \* NUM_NOTIFICATIONS differs from the subscriber's snapshot
  info       \* SUBSCRIBER_INFO: thread on which the waiter was last polled

threadVars == <<state, pc, seen, notif, held>>
dataVars   == <<ptr, retired, outer>>
gpVars     == <<gpPc, gpPhase, gpOn, gpTodo, gpCovers>>
subVars    == <<hasSub, changed, info>>
vars == <<epoch, threadVars, dataVars, gpVars, subVars>>

LoadPcs   == {"before_load", "unpark_load"}
StorePcs  == {"before_store", "unpark_store", "after_store"}
NotifyPcs == {"before_notify", "unpark_notify", "after_notify",
              "park_notify", "stop_notify"}
Pcs == LoadPcs \cup StorePcs \cup NotifyPcs
         \cup {"out", "poll", "idle", "parked", "panicked"}

NotifSteps == {"load", "count", "wake"}

GpPcs == {"none", "subscribe", "scan", "sleep", "await"}

\* Free objects: neither reachable through the pointer nor retired.
Pool == Objs \ ({ptr} \cup retired)

TypeOK ==
  /\ epoch \in EpochIds
  /\ state \in [Threads -> EncodedStates]
  /\ pc \in [Threads -> Pcs]
  /\ seen \in [Threads -> LastSeenIds]
  /\ notif \in [Threads -> NotifSteps]
  /\ held \in [Threads -> SUBSET Objs]
  /\ outer \in [Threads -> SUBSET Objs]
  /\ ptr \in Objs
  /\ retired \subseteq Objs
  /\ gpPc \in GpPcs
  /\ gpPhase \in Phases
  /\ gpOn \in Threads \cup {NoThread}
  /\ gpTodo \subseteq Threads
  /\ gpCovers \subseteq Objs
  /\ hasSub \in BOOLEAN
  /\ changed \in BOOLEAN
  /\ info \in Threads \cup {NoThread}

Init ==
  /\ epoch = EPOCH_ID_MIN + 2
  /\ state = [t \in Threads |-> NONE_ENCODED_VALUE]
  /\ pc = [t \in Threads |-> "out"]
  /\ seen = [t \in Threads |-> 0]
  /\ notif = [t \in Threads |-> "load"]
  /\ held = [t \in Threads |-> {}]
  /\ outer = [t \in Threads |-> {}]
  /\ ptr \in Objs
  /\ retired = {}
  /\ gpPc = "none"
  /\ gpPhase = "gp"
  /\ gpOn = NoThread
  /\ gpTodo = {}
  /\ gpCovers = {}
  /\ hasSub = FALSE
  /\ changed = FALSE
  /\ info = NoThread

-----------------------------------------------------------------------------
(***************************************************************************)
(* Notifications (epoch_id_update_notifications.rs), by their effect.      *)
(***************************************************************************)

\* The increment of NUM_NOTIFICATIONS.  It comes after the load of the flag,
\* which may have been cleared since: then there is no snapshot to differ from.
CountNotification == changed' = (changed \/ hasSub) /\ UNCHANGED <<hasSub, info>>

\* The rest of a notification, on thread t: take the registration, if there is
\* one and it is not to be skipped, and wake the task.
WakeSubscriber(t, skip) ==
  IF info # NoThread /\ ~(skip /\ info = t)
    THEN info' = NoThread /\ hasSub' = FALSE /\ changed' = changed
    ELSE UNCHANGED subVars

\* subscribe_to_epoch_id_notifications
Subscribe == hasSub' = TRUE /\ changed' = FALSE /\ info' = info

\* Drop of the subscription.
Unsubscribe == hasSub' = FALSE /\ changed' = FALSE /\ info' = NoThread

-----------------------------------------------------------------------------
(***************************************************************************)
(* The hooks.  A thread goes from "out" (no slot) through                  *)
(* on_before_task_poll to "poll"; at the end of a poll on_after_task_poll  *)
(* takes it to "idle", from where it polls again, parks or stops.          *)
(***************************************************************************)

SetPc(t, to) == pc' = [pc EXCEPT ![t] = to]
SetState(t, encoded) == state' = [state EXCEPT ![t] = encoded]

\* on_before_task_poll: a thread that has a slot starts the poll at once; one
\* that has none allocates a slot that says "busy, fetching an epoch id".
OnBeforeTaskPoll(t) ==
  /\ \/ pc[t] = "idle" /\ SetPc(t, "poll") /\ state' = state
     \/ pc[t] = "out" /\ SetPc(t, "before_load") /\ SetState(t, Encode(0, TRUE))
  /\ UNCHANGED <<epoch, seen, notif, held, dataVars, gpVars, subVars>>

\* Fault: the first store of on_thread_unpark is missing.
UnparkUnannounced(t) ==
  /\ pc[t] = "parked"
  /\ SetPc(t, "unpark_load")
  /\ UNCHANGED <<epoch, state, seen, notif, held, dataVars, gpVars, subVars>>

\* on_thread_unpark up to the first fence.
OnThreadUnpark(t) ==
  /\ pc[t] = "parked"
  /\ SetPc(t, "unpark_load")
  /\ SetState(t, Encode(0, TRUE))
  /\ UNCHANGED <<epoch, seen, notif, held, dataVars, gpVars, subVars>>

\* this_thread_see_new_epoch_id in on_before_task_poll and on_thread_unpark.
SeeNewEpochId(t) ==
  /\ pc[t] \in LoadPcs
  /\ SetPc(t, IF pc[t] = "before_load" THEN "before_store" ELSE "unpark_store")
  /\ seen' = [seen EXCEPT ![t] = epoch]
  /\ UNCHANGED <<epoch, state, notif, held, dataVars, gpVars, subVars>>

\* Fault: publishing is left to the next on_after_task_poll.
PublishDeferred(t) ==
  /\ pc[t] \in {"before_store", "unpark_store"}
  /\ SetPc(t, IF pc[t] = "before_store" THEN "before_notify" ELSE "unpark_notify")
  /\ seen' = [seen EXCEPT ![t] = 0]
  /\ UNCHANGED <<epoch, state, notif, held, dataVars, gpVars, subVars>>

\* The second store of on_before_task_poll and on_thread_unpark.
PublishSeen(t) ==
  /\ pc[t] \in {"before_store", "unpark_store"}
  /\ SetPc(t, IF pc[t] = "before_store" THEN "before_notify" ELSE "unpark_notify")
  /\ SetState(t, Encode(seen[t], TRUE))
  /\ seen' = [seen EXCEPT ![t] = 0]
  /\ UNCHANGED <<epoch, notif, held, dataVars, gpVars, subVars>>

\* The poll returns and on_after_task_poll loads the epoch id.  A read-side
\* section is a synchronous callback, so none is open when a poll returns.
EndPoll(t) ==
  /\ pc[t] = "poll"
  /\ gpOn # t
  /\ held[t] = {}
  /\ SetPc(t, "after_store")
  /\ seen' = [seen EXCEPT ![t] = epoch]
  /\ UNCHANGED <<epoch, state, notif, held, dataVars, gpVars, subVars>>

\* Fault: on_after_task_poll does not notify.
AfterPollQuiet(t) ==
  /\ pc[t] = "after_store"
  /\ SetState(t, Encode(seen[t], TRUE))
  /\ SetPc(t, "idle")
  /\ seen' = [seen EXCEPT ![t] = 0]
  /\ UNCHANGED <<epoch, notif, held, dataVars, gpVars, subVars>>

\* on_after_task_poll publishes what it loaded, and notifies only when the
\* last seen epoch id changed.
OnAfterTaskPoll(t) ==
  /\ pc[t] = "after_store"
  /\ SetState(t, Encode(seen[t], TRUE))
  /\ SetPc(t, IF LastSeen(state[t]) # seen[t] THEN "after_notify" ELSE "idle")
  /\ seen' = [seen EXCEPT ![t] = 0]
  /\ UNCHANGED <<epoch, notif, held, dataVars, gpVars, subVars>>

\* on_thread_park: clears the busy bit and keeps the last seen epoch id.
OnThreadPark(t) ==
  /\ pc[t] = "idle"
  /\ SetPc(t, "park_notify")
  /\ SetState(t, ClearBusy(state[t]))
  /\ UNCHANGED <<epoch, seen, notif, held, dataVars, gpVars, subVars>>

\* on_thread_stop: the slot becomes vacant.
OnThreadStop(t) ==
  /\ pc[t] = "idle"
  /\ SetPc(t, "stop_notify")
  /\ SetState(t, NONE_ENCODED_VALUE)
  /\ UNCHANGED <<epoch, seen, notif, held, dataVars, gpVars, subVars>>

AfterNotify(p) == CASE p = "before_notify" -> "poll"
                    [] p = "unpark_notify" -> "idle"
                    [] p = "after_notify"  -> "idle"
                    [] p = "park_notify"   -> "parked"
                    [] p = "stop_notify"   -> "out"

\* The notification that ends a hook is over at once if the flag is not set.
HookNotify(t) ==
  /\ pc[t] \in NotifyPcs /\ notif[t] = "load"
  /\ IF hasSub
       THEN notif' = [notif EXCEPT ![t] = "count"] /\ pc' = pc
       ELSE notif' = notif /\ SetPc(t, AfterNotify(pc[t]))
  /\ UNCHANGED <<epoch, state, seen, held, dataVars, gpVars, subVars>>

HookCount(t) ==
  /\ pc[t] \in NotifyPcs /\ notif[t] = "count"
  /\ CountNotification
  /\ notif' = [notif EXCEPT ![t] = "wake"]
  /\ UNCHANGED <<epoch, state, pc, seen, held, dataVars, gpVars>>

\* Fault: every hook skips a waiter that was last polled on its own thread.
WakeOthersOnly(t) ==
  /\ pc[t] \in NotifyPcs /\ notif[t] = "wake"
  /\ WakeSubscriber(t, TRUE)
  /\ notif' = [notif EXCEPT ![t] = "load"]
  /\ SetPc(t, AfterNotify(pc[t]))
  /\ UNCHANGED <<epoch, state, seen, held, dataVars, gpVars>>

\* Parking does not wake a waiter that was last polled on the parking thread.
HookWake(t) ==
  /\ pc[t] \in NotifyPcs /\ notif[t] = "wake"
  /\ WakeSubscriber(t, pc[t] = "park_notify")
  /\ notif' = [notif EXCEPT ![t] = "load"]
  /\ SetPc(t, AfterNotify(pc[t]))
  /\ UNCHANGED <<epoch, state, seen, held, dataVars, gpVars>>

-----------------------------------------------------------------------------
(***************************************************************************)
(* A root future that panics.  Tokio catches the panic of a task, but the  *)
(* one of a root future unwinds through RcuRootFuture::poll past the rest  *)
(* of the hooks: the thread keeps its slot, busy.                          *)
(***************************************************************************)

RootPanic(t) ==
  /\ t \in Roots
  /\ pc[t] = "poll"
  /\ SetPc(t, "panicked")
  /\ held' = [held EXCEPT ![t] = {}]
  /\ UNCHANGED <<epoch, state, seen, notif, dataVars, gpVars, subVars>>

\* The thread ends: the destructor of its thread local gives the slot up, and
\* nobody is told.
ThreadExit(t) ==
  /\ "exit" \in AfterPanic
  /\ pc[t] = "panicked" /\ held[t] = {} /\ outer[t] = {}
  /\ SetPc(t, "out")
  /\ SetState(t, NONE_ENCODED_VALUE)
  /\ UNCHANGED <<epoch, seen, notif, held, dataVars, gpVars, subVars>>

\* The thread calls rcu_block_on again, inside a read-side section or not:
\* on_before_task_poll finds the slot and does nothing.
ReEnter(t) ==
  /\ "enter" \in AfterPanic
  /\ pc[t] = "panicked"
  /\ SetPc(t, "poll")
  /\ outer' = [outer EXCEPT ![t] = @ \cup held[t]]
  /\ held' = [held EXCEPT ![t] = {}]
  /\ UNCHANGED <<epoch, state, seen, notif, ptr, retired, gpVars, subVars>>

\* The section around such a call ends, once the call has.
OuterUnlock(t) ==
  /\ outer[t] # {}
  /\ pc[t] \in {"out", "panicked"}
  /\ outer' = [outer EXCEPT ![t] = {}]
  /\ UNCHANGED <<epoch, threadVars, ptr, retired, gpVars, subVars>>

-----------------------------------------------------------------------------
(***************************************************************************)
(* Readers and writers, as rcu_read_lock and RcuBox let them run.          *)
(***************************************************************************)

\* Inside rcu_read_lock a thread loads the pointer: during a task poll, or
\* where the thread still has the slot of a root future that panicked, as
\* rcu_read_lock asks for no more.
Read(t) ==
  /\ pc[t] = "poll" \/ (pc[t] = "panicked" /\ "read" \in AfterPanic)
  /\ gpOn # t
  /\ held' = [held EXCEPT ![t] = @ \cup {ptr}]
  /\ UNCHANGED <<epoch, state, pc, seen, notif, dataVars, gpVars, subVars>>

\* The callback of rcu_read_lock returns.
ReadUnlock(t) ==
  /\ held[t] # {}
  /\ gpOn # t
  /\ held' = [held EXCEPT ![t] = {}]
  /\ UNCHANGED <<epoch, state, pc, seen, notif, dataVars, gpVars, subVars>>

\* RcuBox::swap: a free object replaces the current one, which is retired.
Swap(x) ==
  /\ x \in Pool
  /\ ptr' = x
  /\ retired' = retired \cup {ptr}
  /\ UNCHANGED <<epoch, threadVars, outer, gpVars, subVars>>

-----------------------------------------------------------------------------
(***************************************************************************)
(* synchronize_rcu_serialized, run by a task that thread gpOn polls.       *)
(***************************************************************************)

\* A wait that is part of a root future is dropped when the future panics: the
\* grace period modelled belongs to another task, which Roots do not poll.
MayPoll(t) ==
  /\ t \notin Roots
  /\ pc[t] = "poll"
  /\ gpOn = NoThread
  /\ ManualPoll \/ held[t] = {}

\* Fault: the overflow test is missing.
GpBeginUnchecked(t) ==
  /\ gpPc = "none"
  /\ MayPoll(t)
  /\ epoch' = epoch + 2 /\ gpPhase' = "gp"
  /\ gpPc' = "subscribe"
  /\ gpOn' = t
  /\ gpCovers' = retired
  /\ UNCHANGED <<threadVars, dataVars, gpTodo, subVars>>

\* synchronize_rcu_serialized: test for overflow, move the epoch id.
GpBegin(t) ==
  /\ gpPc = "none"
  /\ MayPoll(t)
  /\ IF epoch = EPOCH_ID_MAX
       THEN epoch' = EPOCH_ID_MIN /\ gpPhase' = "reset"
       ELSE epoch' = epoch + 2 /\ gpPhase' = "gp"
  /\ gpPc' = "subscribe"
  /\ gpOn' = t
  /\ gpCovers' = retired
  /\ UNCHANGED <<threadVars, dataVars, gpTodo, subVars>>

\* The same on a thread that has no slot: this_thread_get_storage_slot_id panics
\* after the epoch id has moved, and unwinding drops the future, in the phase it
\* is in then.  (A later poll on such a thread that comes to scan is GpCancel.)
GpBeginUntracked ==
  /\ UntrackedPoll
  /\ gpPc = "none"
  /\ IF epoch = EPOCH_ID_MAX
       THEN epoch' = EPOCH_ID_MIN /\ "reset" \in CancelPhases
       ELSE epoch' = epoch + 2 /\ "gp" \in CancelPhases
  /\ UNCHANGED <<threadVars, dataVars, gpVars, subVars>>

\* Top of the loop of wait_for_running_threads_to_see_epoch_id.
GpSubscribe ==
  /\ gpPc = "subscribe"
  /\ Subscribe
  /\ gpPc' = "scan"
  /\ gpTodo' = Threads
  /\ UNCHANGED <<epoch, threadVars, dataVars, gpPhase, gpOn, gpCovers>>

\* Fault: off by one epoch id.
SawPreviousEpoch(lastSeen) == lastSeen >= epoch - 2

\* The predicate on a busy thread's last seen epoch id.
SawEpoch(lastSeen) ==
  \/ gpPhase = "gp"    /\ lastSeen >= epoch
  \/ gpPhase = "reset" /\ lastSeen = EPOCH_ID_MIN
  \/ gpPhase = "final" /\ lastSeen = EPOCH_ID_MIN + 2

\* Fault: a thread that is still fetching the epoch id is let pass.
SlotPassesFetching(u) ==
  \/ gpPhase = "reset" /\ u = gpOn
  \/ ~IsBusy(state[u])
  \/ LastSeen(state[u]) = 0
  \/ SawEpoch(LastSeen(state[u]))

\* What the scan concludes from slot u.  The first wait of the overflow path
\* leaves out the thread it runs on.
SlotPasses(u) ==
  \/ gpPhase = "reset" /\ u = gpOn
  \/ state[u] = NONE_ENCODED_VALUE
  \/ ~IsBusy(state[u])
  \/ SawEpoch(LastSeen(state[u]))

\* One slot of the scan; the first slot that does not pass ends it.
GpScan(u) ==
  /\ gpPc = "scan"
  /\ u \in gpTodo
  /\ IF SlotPasses(u)
       THEN gpTodo' = gpTodo \ {u} /\ gpPc' = gpPc
       ELSE gpTodo' = {} /\ gpPc' = "sleep"
  /\ UNCHANGED <<epoch, threadVars, dataVars, gpPhase, gpOn, gpCovers, subVars>>

\* Fault: the overflow path does without its second wait.
GpResetIsEnough ==
  /\ gpPc = "scan" /\ gpTodo = {} /\ gpPhase = "reset"
  /\ Unsubscribe
  /\ epoch' = EPOCH_ID_MIN + 2
  /\ gpPhase' = "gp"
  /\ gpPc' = "none"
  /\ gpOn' = NoThread
  /\ retired' = retired \ gpCovers
  /\ gpCovers' = {}
  /\ UNCHANGED <<threadVars, ptr, outer, gpTodo>>

\* Every slot passed the first wait of the overflow path.
GpResetSeen ==
  /\ gpPc = "scan" /\ gpTodo = {} /\ gpPhase = "reset"
  /\ Unsubscribe
  /\ epoch' = EPOCH_ID_MIN + 2
  /\ gpPhase' = "final"
  /\ gpPc' = "subscribe"
  /\ UNCHANGED <<threadVars, dataVars, gpOn, gpTodo, gpCovers>>

\* Every slot passed the last wait: the grace period is over, and the callers
\* it was run for free what they had retired.
GpComplete ==
  /\ gpPc = "scan" /\ gpTodo = {} /\ gpPhase # "reset"
  /\ Unsubscribe
  /\ gpPc' = "none"
  /\ gpPhase' = "gp"
  /\ gpOn' = NoThread
  /\ retired' = retired \ gpCovers
  /\ gpCovers' = {}
  /\ UNCHANGED <<epoch, threadVars, ptr, outer, gpTodo>>

\* Fault: the subscription registers without looking at NUM_NOTIFICATIONS.
GpSleepBlind ==
  /\ gpPc = "sleep"
  /\ info' = gpOn /\ gpPc' = "await" /\ gpOn' = NoThread
  /\ UNCHANGED <<epoch, threadVars, dataVars, gpPhase, gpTodo, gpCovers, hasSub, changed>>

\* First poll of the subscription after an unsuccessful scan.
GpSleep ==
  /\ gpPc = "sleep"
  /\ IF changed
       THEN Unsubscribe /\ gpPc' = "subscribe" /\ gpOn' = gpOn
       ELSE /\ info' = gpOn /\ UNCHANGED <<hasSub, changed>>
            /\ gpPc' = "await" /\ gpOn' = NoThread
  /\ UNCHANGED <<epoch, threadVars, dataVars, gpPhase, gpTodo, gpCovers>>

\* A later poll, on any thread, woken or not.  A registration that is gone was
\* consumed by a notifier, possibly one that counted before this subscription.
GpRepoll(t) ==
  /\ gpPc = "await"
  /\ MayPoll(t)
  /\ IF changed \/ info = NoThread
       THEN Unsubscribe /\ gpPc' = "subscribe" /\ gpOn' = t
       ELSE info' = t /\ UNCHANGED <<hasSub, changed, gpPc, gpOn>>
  /\ UNCHANGED <<epoch, threadVars, dataVars, gpPhase, gpTodo, gpCovers>>

\* The waiting future is dropped (select!, timeout, an aborted task): its
\* locals go, the epoch id stays where it is.
GpCancel ==
  /\ gpPc = "await"
  /\ gpPhase \in CancelPhases
  /\ Unsubscribe
  /\ gpPc' = "none"
  /\ gpPhase' = "gp"
  /\ gpCovers' = {}
  /\ UNCHANGED <<epoch, threadVars, dataVars, gpOn, gpTodo>>

-----------------------------------------------------------------------------
Hook(t) == \/ SeeNewEpochId(t) \/ PublishSeen(t)
           \/ OnAfterTaskPoll(t)
           \/ HookNotify(t) \/ HookCount(t) \/ HookWake(t)

LeaveIdle(t) == OnBeforeTaskPoll(t) \/ OnThreadPark(t) \/ OnThreadStop(t)

GpStep == \/ GpSubscribe \/ (\E u \in Threads : GpScan(u))
          \/ GpResetSeen \/ GpComplete \/ GpSleep

Panic(t) == RootPanic(t) \/ ThreadExit(t) \/ ReEnter(t) \/ OuterUnlock(t)

Next ==
  \/ \E t \in Threads :
       \/ Hook(t) \/ LeaveIdle(t) \/ OnThreadUnpark(t) \/ EndPoll(t)
       \/ Panic(t) \/ Read(t) \/ ReadUnlock(t)
       \/ GpBegin(t) \/ GpRepoll(t)
  \/ \E x \in Objs : Swap(x)
  \/ GpStep
  \/ GpBeginUntracked \/ GpCancel

Spec == Init /\ [][Next]_vars

-----------------------------------------------------------------------------
(***************************************************************************)
(* Fairness.  A running thread finishes the hook or the poll it is in and  *)
(* does not stay between polls; a woken task is eventually polled, if need *)
(* be by unparking a thread.  Nothing obliges a thread to unpark when no   *)
(* task is woken, nor a task that was not woken to be polled.  Threads may *)
(* park, unpark, stop and start as often as they like.                     *)
(*                                                                         *)
(* Two conjuncts are conditions on the wait loop, which rescans as long as *)
(* it is notified and gives no guarantee of its own.  PollReturns          *)
(* says of the poll in which the loop runs that notifications do not       *)
(* forever come between a subscription and its first poll.  The last       *)
(* conjunct says that not every scan, from some point on, ends at a thread *)
(* that is just then between the two stores of on_thread_unpark or         *)
(* on_before_task_poll.                                                    *)
(***************************************************************************)
Woken == gpPc = "await" /\ info = NoThread

Fetching(t) == state[t] = Encode(0, TRUE)

ScanEnds == gpPc = "scan" /\ gpPc' # "scan"

\* The scan ends at a thread that has announced itself and not yet published.
Outrun == ScanEnds /\ \E u \in Threads : GpScan(u) /\ Fetching(u)

PollReturns(t) == []<>(pc[t] # "poll")

Fairness ==
  /\ \A t \in Threads : /\ WF_vars(Hook(t))
                        /\ WF_vars(ReadUnlock(t))
                        /\ WF_vars(pc[t] = "idle" /\ LeaveIdle(t))
                        /\ PollReturns(t)
  /\ WF_vars(GpStep)
  /\ WF_vars(Woken /\ \E t \in Threads : OnThreadUnpark(t))
  /\ SF_vars(Woken /\ \E t \in Threads : OnBeforeTaskPoll(t))
  /\ SF_vars(Woken /\ \E t \in Threads : GpRepoll(t))
  /\ []<><<Outrun>>_vars => []<><<ScanEnds /\ ~Outrun>>_vars

LiveSpec == Spec /\ Fairness

-----------------------------------------------------------------------------
(***************************************************************************)
(* Properties.                                                             *)
(***************************************************************************)

\* What synchronize_rcu promises (mod.rs, doc of synchronize_rcu): when a
\* grace period frees what was retired before it began, no read-side section,
\* on any thread, can still use it.
NoUseAfterFree == \A t \in Threads : (held[t] \cup outer[t]) \cap Pool = {}

\* Between grace periods no busy thread publishes an epoch id ahead of the
\* global one: the test `last_seen >= new` of the next grace period would take
\* such a thread for one that passed a quiescent state.
NoFutureEpoch ==
  gpPc = "none" => \A t \in Threads :
    IsBusy(state[t]) => LastSeen(state[t]) <= epoch

\* Between grace periods no busy thread publishes the reset value
\* EPOCH_ID_MIN, which the first wait of the next overflow would mistake for
\* having seen that reset (comment in synchronize_rcu_epoch_overflow).
NoStaleResetValue ==
  gpPc = "none" => \A t \in Threads :
    IsBusy(state[t]) => LastSeen(state[t]) # EPOCH_ID_MIN

\* A waiter sleeps only while a thread is still to pass or to notify: no
\* interleaving of scan, state updates and notifications loses the wakeup,
\* and the skipped self-notification of on_thread_park is never the one
\* that was needed.
SleepJustified ==
  gpPc = "await" /\ ~Woken =>
    \E t \in Threads : ~SlotPasses(t) \/ pc[t] \in NotifyPcs

\* A grace period that has begun completes, however the threads park, unpark,
\* stop and start meanwhile, on two conditions (Fairness): not every scan ends at
\* a thread between the two stores of a hook, and the polls of the waiting task
\* return.  No notification that the wait loop of mod.rs needs is missing.
GpCompletes == gpPc # "none" ~> gpPc = "none"

\* A thread that owns a slot never leaves it with the vacant encoding, which
\* would hide it from every scan: parking clears the busy bit of a word whose
\* epoch id part is already nonzero.
OwnedSlotNotVacant ==
  \A t \in Threads :
    pc[t] \notin {"out", "stop_notify"} => state[t] # NONE_ENCODED_VALUE

\* The hooks, the slots and the epoch id together make synchronize_rcu_serialized
\* the grace period that SynchronizeRcu shares between its callers: it ends
\* only when every section that used, when it began, an object unlinked by
\* then is over.  A use is a thread with an object its sections can reach.
UsesOf(objs) == {use \in Threads \X Objs : use[2] \in (held[use[1]] \cup outer[use[1]]) \cap objs}
Gp == INSTANCE GracePeriod
        WITH Uses <- Threads \X Objs, uses <- UsesOf(retired),
             running <- gpPc # "none", waits <- UsesOf(gpCovers)
ImplementsGracePeriod == Gp!Spec

-----------------------------------------------------------------------------
(***************************************************************************)
(* The inductive invariant behind the safety properties.  It holds when    *)
(* waits are not cancelled, and also when only ordinary waits ("gp") are   *)
(* and the future is not polled inside read-side callbacks; and when a     *)
(* thread whose root future panicked does not both read and run another    *)
(* root future, which it could do inside the read-side section.            *)
(***************************************************************************)
SafeUse ==
  /\ CancelPhases = {} \/ (~ManualPoll /\ CancelPhases \subseteq {"gp"})
  /\ ~({"read", "enter"} \subseteq AfterPanic)

\* Values busy threads may show between grace periods, the epoch id being e:
\* all of them are up to date, unless cancelled grace periods left some behind.
Era(e) == IF CancelPhases = {} THEN {e}
          ELSE {d \in EpochIds : EPOCH_ID_MIN + 2 <= d /\ d <= e}

\* Everything t has published, or is about to publish, lies in S.
Fresh(t, S) ==
  /\ IsBusy(state[t]) => LastSeen(state[t]) \in S \cup {0}
  /\ pc[t] \in StorePcs => seen[t] \in S

\* A thread that shows the current epoch id is not about to publish another.
Settled(t) ==
  IsBusy(state[t]) /\ LastSeen(state[t]) = epoch /\ pc[t] \in StorePcs
    => seen[t] = epoch

\* The current scan has looked at t's slot and accepted what it shows.
Passed(t) ==
  gpPc = "scan" /\ t \notin gpTodo /\ ~(gpPhase = "reset" /\ t = gpOn)

\* What t's slot says is right for the place t is at.
SlotOK(t) ==
  /\ pc[t] \in {"out", "stop_notify"} => state[t] = NONE_ENCODED_VALUE
  /\ pc[t] \in {"parked", "park_notify"} =>
       state[t] # NONE_ENCODED_VALUE /\ ~IsBusy(state[t])
  /\ pc[t] \in LoadPcs \cup {"before_store", "unpark_store"} =>
       state[t] = Encode(0, TRUE)
  /\ pc[t] \in {"poll", "idle", "after_store", "before_notify",
                "unpark_notify", "after_notify", "panicked"} =>
       IsBusy(state[t]) /\ LastSeen(state[t]) # 0

GpInv ==
  /\ gpOn = NoThread <=> gpPc \in {"none", "await"}
  /\ gpOn # NoThread => pc[gpOn] = "poll" /\ gpOn \notin Roots /\ (ManualPoll \/ held[gpOn] = {})
  /\ gpPc = "none" => gpPhase = "gp" /\ epoch >= EPOCH_ID_MIN + 2
  /\ gpPc # "none" => /\ gpPhase = "gp"    => epoch >= EPOCH_ID_MIN + 4
                      /\ gpPhase = "reset" => epoch = EPOCH_ID_MIN
                      /\ gpPhase = "final" => epoch = EPOCH_ID_MIN + 2

DataInv ==
  /\ ptr \notin retired
  /\ gpCovers \subseteq retired
  /\ \A t \in Threads : /\ held[t] # {} => \/ pc[t] = "poll"
                                           \/ pc[t] = "panicked" /\ "read" \in AfterPanic
                        /\ outer[t] = {}
                        /\ held[t] \subseteq {ptr} \cup retired

\* A reader of an object the grace period is to free has not been seen to pass.
ReaderInv == \A t \in Threads :
  gpPc # "none" /\ gpPhase # "reset" /\ held[t] \cap gpCovers # {}
    => LastSeen(state[t]) # epoch

\* The epoch ids t shows, or is about to show, are right for the phase.
EpochOK(t) ==
  IF gpPc = "none" THEN Fresh(t, Era(epoch))
  ELSE /\ Settled(t)
       /\ Passed(t) => Fresh(t, {epoch})
       /\ gpPhase = "gp" => Fresh(t, Era(epoch - 2) \cup {epoch})
       /\ gpPhase = "reset" => Fresh(t, Era(EPOCH_ID_MAX) \cup {epoch})
       /\ gpPhase = "final" =>
            /\ IsBusy(state[t]) => LastSeen(state[t]) \in
                 Era(EPOCH_ID_MAX) \cup {0, EPOCH_ID_MIN, epoch}
            /\ pc[t] \in StorePcs => seen[t] \in {EPOCH_ID_MIN, epoch}

IndInv ==
  /\ TypeOK
  /\ \A t \in Threads : SlotOK(t) /\ EpochOK(t)
  /\ GpInv
  /\ DataInv
  /\ ReaderInv

-----------------------------------------------------------------------------
(***************************************************************************)
(* The inductive invariant behind SleepJustified.  It needs no assumption  *)
(* on cancellation or on manual polling, but no thread may end with a slot *)
(* that a panic has left behind.                                           *)
(***************************************************************************)

\* t keeps the waiter waiting.
Blocks(t) == IsBusy(state[t]) /\ ~SawEpoch(LastSeen(state[t]))

\* t has yet to pass, or has passed and is about to say so.
Stirring(t) == Blocks(t) \/ pc[t] \in NotifyPcs

\* The same, and the waiter's snapshot of NUM_NOTIFICATIONS is still due to
\* change.
Unheard(t) == Blocks(t) \/ (pc[t] \in NotifyPcs /\ notif[t] # "wake")

\* The waiter's own thread, after the poll in which it went to sleep, shows
\* the current epoch id before it can park: the notification it then skips is
\* one nobody needs.
OwnThreadInv ==
  gpPc = "await" /\ info # NoThread =>
    /\ pc[info] = "after_store" => seen[info] = epoch
    /\ pc[info] = "idle" => LastSeen(state[info]) = epoch

WaiterInv ==
  /\ gpPc \in {"subscribe", "scan", "sleep"} =>
       gpOn \in Threads \ Roots /\ pc[gpOn] = "poll"
  /\ gpPc \in {"none", "await"} => gpOn = NoThread
  /\ gpPc # "await" => info = NoThread
  /\ gpPc \in {"scan", "sleep"} => hasSub
  /\ gpPc = "await" /\ info # NoThread => hasSub
  /\ \A t \in Threads : notif[t] # "load" => pc[t] \in NotifyPcs
  /\ gpPc # "none" /\ gpPhase = "reset" => epoch = EPOCH_ID_MIN
  /\ gpPc # "none" /\ gpPhase = "final" => epoch = EPOCH_ID_MIN + 2

\* Somebody will notify the waiter, and will not skip it.
WakerInv ==
  /\ gpPc = "sleep" /\ ~changed => \E t \in Threads : Unheard(t)
  /\ gpPc = "await" /\ info # NoThread =>
       \E t \in Threads : Stirring(t) /\ ~(pc[t] = "park_notify" /\ info = t)

WakeInv == TypeOK /\ WaiterInv /\ OwnThreadInv /\ WakerInv
=============================================================================
