# A TLA+ development of tokio_rcu

`tokio_rcu` is a quiescent-state based RCU for tokio: readers pay nothing, and a
writer that wants to free what it swapped out waits until every thread has
been, at least once, between two task polls (`synchronize_rcu`). This directory
models that algorithm, checks it with TLC on small instances, and proves its main
properties with TLAPS for any number of threads, tasks and objects.

Paths below are relative to the crate's `src/`; `mod.rs` means `rcu_core/mod.rs`.

## The system

| component | state | operations | hard parts |
|---|---|---|---|
| thread state (`thread_state.rs`, `epoch.rs`) | one packed word per thread: last seen epoch id, busy bit; 0 is a vacant slot | encode, decode | overflow of the epoch id; clearing a bit must not produce 0 |
| runtime hooks (`mod.rs`) | the thread's slot | start, before and after a poll, park, unpark, stop | epoch id loaded and published in two steps |
| serialized grace period (`mod.rs`) | global epoch id, progress of the scan | move the epoch id, scan the slots, sleep, rescan; two waits on overflow | races with the hooks; dropped futures; the task moves between threads |
| epoch notifications (`epoch_id_update_notifications.rs`) | flag, counter, registration | subscribe, poll, drop, notify | lost wakeups; stale notifiers; the parking thread skips its own waiter |
| `synchronize_rcu` (`mod.rs`) | two counters, mutex, read-write lock, reset notification | get an id, share another caller's grace period, reset the counters | id order across resets; leader and slaves; dropped futures |
| slot storage (`per_thread_storage/`) | growable array of slots, free list | alloc, dealloc, grow, scan | growth during a scan; limit of the slot id |
| `Notify` (`notify.rs`) | intrusive list of waiters, wakeup counter | notified, poll, drop, notify | list surgery against concurrent poll and drop |
| read lock, `RcuBox`, `RcuWaitable` (`rcu_read_lock.rs`, `primitives/`) | the protected pointer, retired objects | read, swap, wait | the promise to users |
| tokio integration (`tokio_ext.rs`) | hook registration, root future | which hook is called when | panics and stops outside the hooks |

Interaction: the runtime calls the hooks on its threads; the hooks write their slot
and notify; the one task that holds `GP_SERIALIZATION_MUTEX` scans the slots and
sleeps on the notifications; callers of `synchronize_rcu` compete for that mutex
and leave it with a published counter that may let the others return at once.

What makes the parts correct: no reader ever holds a freed object; slots hold
nothing that a later grace period would misread; a sleeping waiter is always going
to be woken; grace periods complete; a caller returns only when a whole grace
period lies inside its call; a counter reset never meets an id in use.

## Modules

`ThreadState` - the packed word and the bounds of the epoch id. `EPOCH_ID_MAX` is
a constant (254 in the crate's test mode, 2^32 - 2 otherwise), at least 6 and even.

`RcuCore` - hooks, readers, writers and the serialized grace period.
* `state[t]` is `t`'s slot, `pc[t]` where `t` is in the runtime's loop and the hooks,
  `seen[t]` the epoch id a hook loaded and has not published, `notif[t]` the next
  step of its notification. Each access to a shared word is a step, so a hook can be
  interrupted between its stores, its load and the three steps of its notification.
* `held[t]`, `ptr`, `retired` are the objects a read-side section can use, the
  protected pointer and the objects swapped out and not yet freed. Completing a
  grace period frees what was retired when it began (`gpCovers`).
* `gpPc`, `gpPhase`, `gpOn`, `gpTodo` are the grace period: the place in the wait
  loop, which wait it is ("gp", or "reset" then "final" on overflow), the thread that
  polls the task, the slots still to scan. The scan takes the slots in any order,
  because the slot numbers of the threads are arbitrary.
* `hasSub`, `changed`, `info` are the notification primitive: the flag, whether the
  counter differs from the snapshot, and the thread of the registration.
* `CancelPhases` says in which waits the future may be dropped, `ManualPoll` whether
  a read-side callback may poll it by hand, `UntrackedPoll` whether a thread without a
  slot may (`GpBeginUntracked`): then the wait panics after the epoch id has moved, in
  the phases of `CancelPhases`, as a drop would end it.
* `Roots` are threads whose root future may panic. Unwinding skips the rest of
  `RcuRootFuture::poll`, so the thread is left "panicked" with a busy slot;
  `AfterPanic` says what it may do then: end (`ThreadExit`, the destructor of the
  slot), read, or run another root future (`ReEnter`), which may be inside a read-side
  section; the objects of such a section are `outer[t]`.
* Old data that is dropped without a completed wait is leaked by the code, and stays
  in `retired` here.

`SynchronizeRcu` - the callers. `started`, `finished`, `id`, `sampled` are the two
counters and the callers' locals; the locks are tokio's fair ones, with explicit
queues (external: modelled from how the code uses them). The grace period is the one
`GracePeriod` specifies: `uses` are the uses of unlinked data that read-side sections
are making, `gpWaits` those the running grace period still waits for. `before[t]` is a
history variable, what is left of the uses that were going on when `t` made its call;
what the caller is promised is that nothing is left of them when the call returns. The
end of a reset notifies in two steps, which are written as the two effects of
`Notification`: the count completes every subscription, and the later walk of the list
may complete a slave of the next reset as well.

`GracePeriod` - what `synchronize_rcu_serialized` promises to the task that runs it:
one grace period at a time, which ends only when every use of data that was unlinked
before it began is over, or is abandoned. `RcuCore` implements it
(`ImplementsGracePeriod`: a use is a pair of a thread and a retired object it holds,
the grace period waits for the uses of `gpCovers`), and `SynchronizeRcu` stays within it
(`RunsSerialized`).

`Notification` - what `notify.rs` promises: a call of `notify` reaches, at one moment,
every subscription there is, and before it returns it may reach later ones too; nothing
else reaches anybody. `Notify` implements it (`ImplementsNotification`: a subscription
begins with the snapshot, and is reached when the counter has moved since or the slot is
unlinked). It is why `ResetNotify` and `ResetWake` of `SynchronizeRcu` are enough to stand
for a call of `notify`.

`EpochNotifications` - waiter, hooks and subscription with their memory orders.
* Every relaxed access and every SeqCst fence of the wait loop, the hooks and
  `epoch_id_update_notifications.rs` is a step. What a thread may still load is a
  *view*, a set of values: `epochView`, `flagView` and the waiter's `scanView`. A store
  adds its value to the views of the others; a fence of a thread replaces its view by
  what earlier fences left (`flagVals`, `wordVals`, `published`), so that of two
  threads that store and then fence, the later one sees the other's store, and no
  more than that.
* `word[t]` is abstracted to "idle", "old" and "new" (relative to the running grace
  period), and `news` is what the waiter can tell of `NUM_NOTIFICATIONS`: nothing
  happened, something it may or may not see, something a notifier released through
  the lock, something it has seen. `fresh` are the notifiers that counted after its
  snapshot.
* `info` is thread and waker of `SUBSCRIBER_INFO`; looking under the read lock and
  taking or updating under the write lock are separate steps, and so are taking the
  registration and clearing the flag, with the write lock held in between ("off").

`Notify` - `notified()`, `poll`, `drop` and `notify`.
* `head`, `next`, `pprev`, `inList`, `waker` are the list and the slots, `numWakeups`
  and `numActive` the counters, the first modulo `WAKEUPS`. What poll and drop do
  under the lock is a step; `notify` holds the lock over unlinking, counting and
  waking each slot, because `numActive` is read without it.
* Wakers may panic, in `clone` and in `wake`. A future may be polled again after a poll
  that panicked, or completed ("over"), as nothing in the code refuses it. `since`, `called`, `due`, `place` are
  history variables; `place` (counted from the end) is what makes the list's shape
  expressible without recursion.

`ThreadStorageSlots` - the growable array of slots.
* `buf`, `len`, `cap` are `cur_data`, `mem` and `live` the memory of the buffers and
  which of them are allocated, `free` the free list, `slot[t]` the thread's slot id.
  `pc[t]` says what `t` does and so which of the two locks it holds.
* An append in place is two steps (the new cell, then the length), a deallocation
  too (the cell, then the free list); growth is one step, taken when the waiting
  writer has `cur_data_lock` for itself. A reader's slice is `viewBuf`, `viewLen`;
  the scan goes from `pos` to the end of its slice, and `looked` is a history
  variable: the threads whose word it has seen, vacant words included.
* At the limit of the slot id an allocation panics: the vector rebuilt from the raw
  parts is dropped, `write_lock` is poisoned, later users of that lock panic too.

`SlotTable` - what the array promises: one word per thread, taken with its initial
state, changed by its owner only, given up at once. `ImplementsTable` is the
refinement, with `Word(t)` (the cell of `t`'s slot, or vacant) as the mapping.
Together with `ScanLooksAtEveryThread` it is why `RcuCore` may give every thread a
slot of its own and scan the threads in any order.

`MCRcuCore`, `MCSynchronizeRcu`, `MCThreadStorageSlots`, `MCNotify`,
`MCEpochNotifications` - symmetry for TLC.

`RcuCoreProofs`, `RcuWakeupProofs`, `SynchronizeRcuProofs`, `CallerProgressProofs`,
`ThreadStorageSlotsProofs`, `NotifyProofs`, `EpochNotificationsProofs` - theorems.

How they fit together. `RcuCore` is the algorithm. `ThreadStorageSlots` and
`SlotTable` justify its table of words; `EpochNotifications` justifies its
sequentially consistent memory and its one-step subscription; `SynchronizeRcu`
puts many callers in front of it. What `SynchronizeRcu` knows of the algorithm is
`GracePeriod`: `RcuCore` implements it and `SynchronizeRcu` uses it, and both sides are
proved. Its notification is written from `Notification`, which `Notify` is proved to
implement. That its grace periods also end (`GpEnd` needs `gpWaits` to be empty) is `GpCompletes`.

Each component module also holds a few operators marked *Fault*: plausible
mistakes in the operation that follows them, used to confirm that the properties
notice them. They are no part of the specifications.

### Abstractions

* Memory is sequentially consistent, except in `EpochNotifications`.
* In `RcuCore` a thread has a slot of its own; `ThreadStorageSlots` justifies this.
* The free list is a set (which free slot is popped does not matter), a move always
  goes to another buffer, capacities double. Panicked threads take no further step:
  what a use of freed memory does after `slots_dangling` is not modelled.
* In `RcuCore` a subscription's poll and drop are one step each. `EpochNotifications`
  takes them apart: `NoLostWakeup` is `SleepJustified` for the parts, and `FlagStands`
  is why a notifier of an earlier subscription cannot disturb a later one.
* `EpochNotifications` knows one kind of wait, for the ordinary path. The overflow
  path repeats it twice; that its first wait leaves out the polling thread is in
  `RcuCore` only. `on_before_task_poll` is `Unpark` with a slot to allocate,
  `on_thread_stop` is `Park` without the skip, a slot changes hands only while it is
  vacant. The snapshot reads the latest count, as an older one only ends the wait
  sooner. A task that moves between threads takes along what it has seen, which the
  runtime's queues guarantee.
* `NUM_NOTIFICATIONS` does not wrap around (the crate documents this limit); the
  counter of `Notify` does.
* The wakers of the epoch notifications do not panic: they are tokio's.
* Pointers swapped in come from objects that are neither reachable nor retired, as
  `RcuBox::swap` takes ownership of a fresh box.

## Runs

| run | instance | distinct states | shows |
|---|---|---|---|
| `core_safe` | 3 threads, 2 objects, epoch ids 4 and 6 before every overflow; ordinary waits dropped or lost to a panic; a panicking root future whose thread then reads or ends | 3.4 million | no use after free, slots are clean between grace periods, an owned slot never looks vacant |
| `core_wakeup` | 3 threads, 1 object, the first wait of an overflow dropped or lost to a panic, a panicking root future run again, inside a read-side section or not | 3.5 million | a sleeping waiter has a waker; `WakeInv` holds |
| `core_live` | 2 threads, 2 objects | 119 thousand | every grace period completes under the fairness below, `GracePeriod` is implemented; `IndInv` holds |
| `sync` | 3 callers, ids 1 and 2, one use of unlinked data, drops anywhere but at the leader's write lock | 258 thousand | a call returns only when the uses it waits for are over, resets meet no id and have a leader, every grace period brings news, the callers never all wait for each other, calls return; `GracePeriod` is used as specified; `SyncInv` and `ProgressInv` hold |
| `slots` | 3 threads, 2 slot ids, capacity 1, 2 or 3 at first | 46 thousand | accesses are valid, slots have one owner, scans miss nobody, stores survive growth, the table is implemented, growth is not held up forever; `SlotsInv` holds |
| `notify` | 2 futures, 2 notifiers, 2 wakers that may panic, a counter of 2 values | 1.4 million | notifications reach, a poll returns Pending only where that loses none, the count is exact, no dangling slot, `Notification` is implemented; `NotifyInv` holds |
| `epoch_notifications` | 2 threads, 2 wakers | 118 thousand | no lost wakeup, grace periods cover, the flag stands; `NotificationInv` holds |
| `cancel_reset`, `manual_poll_cancel`, `panic_exit`, `sync_leader`, `slots_dangling` | 2 or 3 threads or callers | | the disagreements below |

Bounds. `EPOCH_ID_MAX = 6` makes every second grace period an overflow; 8 leaves
room for a thread that is several epoch ids behind. Two objects let a reader keep
one that is being freed while the pointer has moved on. Two threads give a waiter and
a racing hook, three add a second racing hook or a migration of the waiter.
`GP_ID_MAX = 3` gives ids 1 and 2 and then a reset; three callers give a leader, a
slave and a worker or a newcomer, and the leader of one reset can be the slave of the
next. One use of unlinked data is enough there, as uses do not interact: a call that
returned too early would do so for a single one. `ImplementsGracePeriod` is checked where
nothing is dropped and nothing panics, as TLC evaluates it slowly, and so is `IndInv`;
the proofs cover the rest. Three threads and a capacity of 1 give a first buffer, a move and, from capacity
2, an append in place, each while another thread scans and a third stores; two
buffers are enough because a freed one may be used again; two states tell a lost
store from a kept one. The limit of two slot ids is met with room in the buffer
(capacity 3) and without (capacity 2); the run may end with every thread panicked, so
it does not check for deadlock. Two futures give a list of two, with removals at the
head and at the end; a removal in the middle takes three, which is beyond TLC
together with two notifiers (no violation in the first 8 million states) and is
covered by the proof. Two notifiers give one that is overtaken between its count and
its walk; `WAKEUPS = 2` makes the counter come back to the snapshot after two
notifications. In `epoch_notifications` a waiter moves between two threads while both
run hooks, and late notifiers of one subscription meet the next; three threads are
beyond TLC (no violation in 7 million states) and covered by the proof. No variable
is bounded artificially: counters wrap or reset as in the code. The theorems remove
the bounds for safety; those on wakeups also hold for waits dropped in any phase and
polled inside read-side callbacks.

Fairness of `core_live`. A thread finishes the hook and the poll it is in, closes its
read-side section, and does not stay between two polls (a tokio worker polls, parks
or stops). A woken task is eventually polled, if need be by unparking a thread; no
thread has to unpark, and no task has to be polled, without being woken. The polling
of the woken task needs strong fairness, since a thread can be busy with another poll
before it happens. How often threads park, unpark, stop and start is left open. Two
conjuncts are conditions on the wait loop of `mod.rs:400`, which the code does not
guarantee; without them it can rescan forever, and TLC shows how. The last conjunct
says that not every scan from some point on ends at a thread that is just then between
the two stores of `on_thread_unpark` or `on_before_task_poll` (`Outrun`): a waiter can be
outrun so by threads that park and unpark all the time, and each time it is notified in
vain. `PollReturns` says, for the poll of the waiting task itself, that notifications do
not come between each subscription and its first poll forever; the waiter's own thread
shows the new epoch id only after that poll. Any other way for a scan to fail is shown
to end by itself. Symmetry is not used in the runs on liveness.

Fairness of `sync`. Each caller that can take a step does (the locks are fair), and
each use of unlinked data ends, since read-side sections are synchronous callbacks.
A leader starts over after its reset and may be made leader again by callers that
use up all ids; the last conjunct of `LiveSpec` says that this does not go on
forever, which 2^64 ids make certain in practice.

Fairness of `slots`. A thread inside `alloc`, `dealloc`, a hook or a scan, none of
which waits for anything but the two locks, goes on. Nothing is assumed about who
gets a free `write_lock` (std's mutex is not fair), so the property is about the
thread that has it.

## What is proved

All theorems hold for every set of threads, objects and tasks and every
admissible maximum.

* `RcuCore`: `TypeCorrect`; and under `SafeUse`, `Invariance` (`IndInv`), `Safety`
  (`NoUseAfterFree`), `EpochsInOrder` (`NoFutureEpoch`), `ResetValueGone`
  (`NoStaleResetValue`), `SlotsVisible` (`OwnedSlotNotVacant`) and `CoreIsGracePeriod`
  (`ImplementsGracePeriod`). `SafeUse` says that
  no wait is dropped (or panics), or that only ordinary waits are and the future is not polled
  inside read-side sections; and that a thread whose root future panicked does not
  both read and run another root future. The violating runs show that the first part
  cannot be weakened to allow drops in either wait of the overflow path, nor manual
  polls together with dropped ordinary waits. The second part is needed too: with
  `AfterPanic = {"read", "enter"}` TLC violates `NoUseAfterFree`, because a root future
  that runs inside a read-side section passes quiescent states there.
* `RcuCore`: `WakeInvariance` (`WakeInv`) and `NoLostWakeup` (`SleepJustified`) with
  waits dropped and polled anywhere, if no thread ends with the slot a panic has left
  it (`"exit"` is not in `AfterPanic`); `panic_exit` shows that this is needed.
* `SynchronizeRcu`: `TypesHold`, `SyncInvariance` (`SyncInv`), `BatchingIsSafe`
  (`ReturnsSafely`), `ResetIsExclusive` (`ResetFindsNoId`), `PublishedAdvances`
  (`GpsAdvance`) and `GracePeriodsAreSerialized` (`RunsSerialized`), without any
  condition; and if
  `"write_lock"` is not in `CancelAt`, which `sync_leader` shows is needed, `ResetIsLed`
  (`ResetHasLeader`), `ProgressInvariance` (`ProgressInv`) and `CallersNeverDeadlock`
  (`NotAllBlocked`).
* `ThreadStorageSlots`: `SlotsInvariance`, `OwnershipHolds`, `ScanIsComplete`,
  `StoresAreKept` and `SlotsImplementTable` without any condition, and `AccessIsValid`
  (`SoundAccess`: accesses are valid until an allocation panics at the limit).
* `Notify`: `NotifyCorrect` (`NotifyInv`), `NoLostNotification` (`NotifyReaches`),
  `ActiveCountExact` (`CountExact`), `NoDangling` (`NoDanglingSlot`),
  `PendingMissesNothing` (`PendingIsSafe`) and `NotifyIsNotification`
  (`ImplementsNotification`), for finitely many futures, any notifiers and wakers, panics
  included.
* `EpochNotifications`: `NotificationsInvariance` (`NotificationInv`),
  `NotificationsReach` (`NoLostWakeup`), `GracePeriodsCover` (`GraceIsOver`),
  `FlagIsKept` (`FlagStands`), for any threads and wakers.

The arguments. *Safety* rests on `IndInv` (`Invariance`). The property by itself is
not inductive: one has to know which epoch ids a thread may show, or be about to
publish, in each phase (`EpochOK`). Between grace periods a busy thread shows an id
of the current era (`Era`); a slot the running scan has accepted shows the current
id and cannot go back to an older one, because the thread holds no older loaded value
(`Settled`, `Passed`); a reader of an object that is about to be freed has not shown
the current id (`ReaderInv`). The overflow path works because its first wait drains
every loaded value of the old era, and its second wait every reset value.

*The refinement of* `GracePeriod` needs no more than `IndInv`. Hooks, scan, sleep and
epoch ids are stutters (`UnseenHook`, `UnseenLoop`); a swap unlinks, the end of a section
ends its uses (`SwapUnlinks`, `SectionEnds`), and the step that counts is the last:
`GpEnds` finds every slot fresh, so that by `ReaderInv` nobody holds what is about to be
freed, which is `waits = {}`.

*No lost wakeup* rests on `WakeInv`: between scan and registration either the counter
has changed or somebody is still going to change it (`Unheard`); after registration
somebody who will not skip the waiter still blocks it or is on the way to notify
(`WakerInv`). The skipped notification of a parking thread is harmless because a
thread that polled the waiter shows the current epoch id before it can park
(`OwnThreadInv`).

*Batching* rests on `SyncInv`: what the counters tell, or a worker is going to tell,
a task with an id is true (`FinishedInv`, `WorkerInv`), because a new id is above
everything sampled; and resets, the only steps that break the order of the counters,
exclude every task with an id (`LockInv`). A worker's own id is above the published
counter when it begins and at most what it sampled (`WorkerInv`), so what it publishes is
news. `MutexPcs` exclude each other, so grace periods follow one another.

*No deadlock* rests on `ProgressInv`. A task that holds a write guard goes on, and so does
one that holds a read guard unless it waits for the mutex; then whoever holds the mutex
goes on or, if nobody does, the first in its queue. If no guard is held, the first in the
queue of the reset lock gets its guard, reader or writer (`FirstWaits`, `SomebodyGoesOn`).
If nobody is in that queue either, only slaves can be waiting, and one that has not been
notified has a leader that is about to notify it (`SlaveInv`). That the queues hold exactly those who wait,
each once, through grants, retries and dropped requests, takes most of
`CallerProgressProofs`.

*Slot storage* rests on `SlotsInv`: a slice in use is a prefix of the current array,
because growth waits for the slices (`ViewInv`); every cell holds what its place in
the life of a slot says (`CellInv`); and whomever the scan has not looked at still
owns a slot ahead of it (`ScanInv`), because a thread that gives its slot up counts as
looked at from then on. `WordStep` is the step of the refinement. The leaves about
stores first establish that buffer and index are in range, so that they do not
depend on what an update outside a function's domain means.

*Notify* rests on `NotifyInv`: `next`, `pprev` and `place` agree along the list
(`ListInv`), so that unlinking at the head or in the middle keeps one list; the waker in
a slot is the one of the latest poll that got there (`WakerInv`); and a call of notify
that has returned has, for every future registered before it, either counted after
that future's snapshot or found it unlinked by another notifier (`DueInv`). The second
look at the counter in `poll` closes the gap between the first look and the
registration: a poll that returns Pending has an unmoved counter, so it has heard nothing
unless it was unlinked, and then it is beckoned (`WakerInv`). In the refinement of
`Notification` the count is what reaches everybody (`CountReaches`); a call that returns
at once has nobody left to reach, because the count of active waiters is exact
(`LoadBegins`, from `CountExact`); whatever the walk unlinks is a live subscription
(`UnlinkReaches`), and the rest of the walk reaches nobody.

*Epoch notifications* rest on `NotificationInv`. Whoever the scan can have found behind
still owes a notification that it will not skip, unless the waiter is bound to notice
anyway (`TellInv`, `Owing`, `Delivered`): the pair of fences enters there, as a hook
that fences after the waiter has nothing but "set" in its view of the flag, and one that
fences before has its word seen. What the scan accepts belongs to a thread that has
loaded the new epoch id, or will before it runs (`GraceInv`, `Safe`): the fence of
`on_thread_unpark` enters there. A notifier clears the flag before it unlocks, and a
drop of the subscription that was registered waits for that lock, so the flag of the
next subscription stands (`RegisteredInv`).

Only model-checked: `GpCompletes`, `CallsReturn` and `WriterFinishes` (liveness is out of
the prover's reach).

## Disagreements between code and documentation

1. `cancel_reset`: a `synchronize_rcu` future dropped in the first wait of the overflow
   path leaves threads at the old maximum; a later call, not dropped, returns too
   early. The doc of `synchronize_rcu` (`mod.rs:127-128`) makes its promise without
   a condition on earlier calls. With `CancelPhases = {"final"}` instead, the same
   happens through the second wait and the thread that the first one left out. A wait
   that panics at `mod.rs:435`, on a thread without a slot, is lost in the same way.
2. `manual_poll_cancel`: with dropped ordinary waits, polling the future inside a
   read-side section can end in a use after free, where the comment at `mod.rs:302-309`
   promises a deadlock at worst.
3. `sync_leader`: a leader dropped while it waits for the write guard (`mod.rs:163`)
   leaves the counter at its maximum for good, against `mod.rs:186`.
4. `slots_dangling`: an allocation that finds no slot id left panics with an owning
   vector of the array in hand; unwinding frees the array under its readers, against
   `thread_storage_slots.rs:130`. It takes as many live threads as there are slot ids
   (a `NonZeroU16`).
5. `panic_exit`: a thread that ends after its root future has panicked gives its slot up
   in `OwnedThreadStorageSlot::drop`, without the fence and the notification that
   `on_thread_stop` makes after the same `dealloc`. A waiter that slept on the slot is
   not woken, against `per_thread_storage/mod.rs:50` and `mod.rs:430-431`.

## Not modelled, and what is left

* `RcuBox::drop` frees at once; the borrow checker admits it only when nobody can read.
  The tuple forms of `RcuWaitable` are one grace period for several retired objects,
  which `GpComplete` is already. A wait that is itself part of a root future that
  panics is dropped with it, which is `GpCancel` on another thread; the combination is
  not an action.
* `rcu_read_lock_unchecked` and `RcuReadLockGuard::new` on untracked threads break their
  contract and are left out. So are the installation of the hooks in the builder, and
  the poisoning of user code by panics other than those of root futures and wakers
  (tokio catches the panics of tasks).
* The loom wrappers (`loom/`), the atomics helpers (`utils/`), `lib.rs` (documentation
  and re-exports), tests, examples and benchmarks hold no state of the algorithm.
* The product of `SynchronizeRcu` and `RcuCore` is not a module: it is beyond TLC, and
  what it would add to the two refinements of `GracePeriod` is bookkeeping. It is in that
  specification that the two agree on what a use is.
* Left for later: the overflow path with relaxed accesses; larger instances of `Notify` and `EpochNotifications` by
  simulation.
