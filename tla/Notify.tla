------------------------------- MODULE Notify -------------------------------
(***************************************************************************)
(* The notification primitive of src/rcu_core/notify.rs: futures that wait *)
(* in an intrusive doubly linked list, and calls of notify that empty it.  *)
(*                                                                         *)
(* A Notified is a member of Waiters; its slot is the links next and       *)
(* pprev, inList and waker.  pprev points to the next field of the         *)
(* preceding slot and is represented by that slot (None: the head).  The   *)
(* list is only touched under the lock.  What a poll or a drop does under  *)
(* the lock is one step; notify keeps the lock over the steps of its loop, *)
(* between which the counter numActive, which is outside the lock, shows.  *)
(*                                                                         *)
(* since, called, due and place are history variables: they say what the   *)
(* properties are about and take no part in the algorithm.                 *)
(***************************************************************************)
EXTENDS Integers, FiniteSets

CONSTANTS
  Waiters,        \* Notified futures
  Notifiers,      \* calls of notify
  Wakers,         \* wakers a future may be polled with
  None,           \* no slot, no waker
  WAKEUPS,        \* number of values of num_wakeups: 2^64
  WakersMayPanic  \* may clone and wake of a waker panic?

ASSUME NotifyAssumption ==
  /\ IsFiniteSet(Waiters)
  /\ None \notin Waiters \cup Wakers
  /\ WAKEUPS \in Nat /\ WAKEUPS >= 2
  /\ WakersMayPanic \in BOOLEAN

VARIABLES
  numWakeups,  \* num_wakeups
  numActive,   \* num_active_waiters
  head,        \* waiters_list_head
  next,        \* next[w]: the slot after w's
  pprev,       \* pprev[w]: the slot whose next field points to w's slot
  inList,      \* is_in_list
  waker,       \* waker[w]: the waker in w's slot
  pc,          \* pc[w]: what happens to the future ("none": there is none)
  cx,          \* cx[w]: the waker of its latest poll, unless that is over
  snapshot,    \* num_wakeups_snapshot
  registered,  \* was_registered_into_list
  npc,         \* npc[n]: where the call of notify is
  cur,         \* cur[n]: the slot it has unlinked and not yet woken
  since,       \* since[w]: increments of num_wakeups after the snapshot
  called,      \* called[w]: that waker was called
  due,         \* due[n]: futures registered before the call of notify
  place        \* place[w]: w's place in the list, counted from the end

slotVars == <<next, pprev, inList, waker>>
futVars  == <<pc, cx, snapshot, registered>>
callVars == <<npc, cur, due>>
vars == <<numWakeups, numActive, head, slotVars, futVars, callVars,
          since, called, place>>

Pcs  == {"none", "new", "idle", "check", "lock", "recheck", "over"}
NPcs == {"idle", "count", "lock", "walk", "dec", "wake", "done"}
LockPcs == {"walk", "dec", "wake"}

\* Between polls: the latest one, if any, returned Pending ("idle"), or it
\* completed or panicked ("over").
AtRest == {"idle", "over"}

\* Futures that notified() has returned and that are not dropped.
Live == {w \in Waiters : pc[w] \notin {"none", "new"}}

TypeOK ==
  /\ numWakeups \in 0 .. WAKEUPS - 1
  /\ numActive \in Int
  /\ head \in Waiters \cup {None}
  /\ next \in [Waiters -> Waiters \cup {None}]
  /\ pprev \in [Waiters -> Waiters \cup {None}]
  /\ inList \in [Waiters -> BOOLEAN]
  /\ waker \in [Waiters -> Wakers \cup {None}]
  /\ pc \in [Waiters -> Pcs]
  /\ cx \in [Waiters -> Wakers \cup {None}]
  /\ snapshot \in [Waiters -> 0 .. WAKEUPS - 1]
  /\ registered \in [Waiters -> BOOLEAN]
  /\ npc \in [Notifiers -> NPcs]
  /\ cur \in [Notifiers -> Waiters \cup {None}]
  /\ since \in [Waiters -> 0 .. WAKEUPS]
  /\ called \in [Waiters -> BOOLEAN]
  /\ due \in [Notifiers -> SUBSET Waiters]
  /\ place \in [Waiters -> Nat]

Init ==
  /\ numWakeups = 0
  /\ numActive = 0
  /\ head = None
  /\ next = [w \in Waiters |-> None]
  /\ pprev = [w \in Waiters |-> None]
  /\ inList = [w \in Waiters |-> FALSE]
  /\ waker = [w \in Waiters |-> None]
  /\ pc = [w \in Waiters |-> "none"]
  /\ cx = [w \in Waiters |-> None]
  /\ snapshot = [w \in Waiters |-> 0]
  /\ registered = [w \in Waiters |-> FALSE]
  /\ npc = [n \in Notifiers |-> "idle"]
  /\ cur = [n \in Notifiers |-> None]
  /\ since = [w \in Waiters |-> 0]
  /\ called = [w \in Waiters |-> FALSE]
  /\ due = [n \in Notifiers |-> {}]
  /\ place = [w \in Waiters |-> 0]

SetPc(w, to) == pc' = [pc EXCEPT ![w] = to]
SetNPc(n, to) == npc' = [npc EXCEPT ![n] = to]

LockFree == \A n \in Notifiers : npc[n] \notin LockPcs

-----------------------------------------------------------------------------
(***************************************************************************)
(* The future: notified(), poll and drop.                                  *)
(***************************************************************************)

\* Notified::new counts itself first ...
New(w) ==
  /\ pc[w] = "none"
  /\ numActive' = numActive + 1
  /\ SetPc(w, "new")
  /\ UNCHANGED <<numWakeups, head, slotVars, cx, snapshot, registered, callVars,
                 since, called, place>>

\* ... and then takes the snapshot from which on it hears notifications.
TakeSnapshot(w) ==
  /\ pc[w] = "new"
  /\ snapshot' = [snapshot EXCEPT ![w] = numWakeups]
  /\ since' = [since EXCEPT ![w] = 0]
  /\ SetPc(w, "idle")
  /\ UNCHANGED <<numWakeups, numActive, head, slotVars, cx, registered, callVars,
                 called, place>>

\* A poll, woken or not, with any waker.  Nothing in the code refuses one
\* after the future has completed or an earlier poll has panicked.
BeginPoll(w, c) ==
  /\ pc[w] \in AtRest
  /\ SetPc(w, "check")
  /\ cx' = [cx EXCEPT ![w] = c]
  /\ UNCHANGED <<numWakeups, numActive, head, slotVars, snapshot, registered, callVars,
                 since, called, place>>

\* A poll that returns Ready, or panics, is done with the waker it was given.
EndPoll(w) ==
  /\ SetPc(w, "over")
  /\ cx' = [cx EXCEPT ![w] = None]
  /\ called' = [called EXCEPT ![w] = FALSE]

\* The first look at num_wakeups.
Check(w) ==
  /\ pc[w] = "check"
  /\ IF numWakeups # snapshot[w] THEN EndPoll(w)
     ELSE SetPc(w, "lock") /\ UNCHANGED <<cx, called>>
  /\ UNCHANGED <<numWakeups, numActive, head, slotVars, snapshot, registered,
                 callVars, since, place>>

\* Under the lock, already in the list: the slot gets the current waker.
UpdateWaker(w) ==
  /\ pc[w] = "lock" /\ LockFree /\ inList[w]
  /\ waker' = [waker EXCEPT ![w] = cx[w]]
  /\ called' = [called EXCEPT ![w] = FALSE]
  /\ SetPc(w, "recheck")
  /\ UNCHANGED <<numWakeups, numActive, head, next, pprev, inList, cx, snapshot,
                 registered, callVars, since, place>>

\* Registered before and no longer in the list: a notifier was here.
FindUnlinked(w) ==
  /\ pc[w] = "lock" /\ LockFree /\ ~inList[w] /\ registered[w]
  /\ EndPoll(w)
  /\ UNCHANGED <<numWakeups, numActive, head, slotVars, snapshot, registered,
                 callVars, since, place>>

Size == IF head = None THEN 0 ELSE place[head]

\* The first poll that gets here puts the slot in front of the list.
Register(w) ==
  /\ pc[w] = "lock" /\ LockFree /\ ~inList[w] /\ ~registered[w]
  /\ waker' = [waker EXCEPT ![w] = cx[w]]
  /\ inList' = [inList EXCEPT ![w] = TRUE]
  /\ next' = [next EXCEPT ![w] = head]
  /\ pprev' = [u \in Waiters |-> IF u = w THEN None
                                 ELSE IF u = head THEN w ELSE pprev[u]]
  /\ head' = w
  /\ registered' = [registered EXCEPT ![w] = TRUE]
  /\ called' = [called EXCEPT ![w] = FALSE]
  /\ place' = [place EXCEPT ![w] = Size + 1]
  /\ SetPc(w, "recheck")
  /\ UNCHANGED <<numWakeups, numActive, cx, snapshot, callVars, since>>

\* Cloning the waker panics, before anything was written: the future may be
\* polled again.
ClonePanics(w) ==
  /\ WakersMayPanic
  /\ pc[w] = "lock" /\ LockFree
  /\ \/ inList[w] /\ waker[w] # cx[w]
     \/ ~inList[w] /\ ~registered[w]
  /\ EndPoll(w)
  /\ UNCHANGED <<numWakeups, numActive, head, slotVars, snapshot, registered,
                 callVars, since, place>>

\* Fault: there is no second look at num_wakeups.
RecheckBlind(w) ==
  /\ pc[w] = "recheck"
  /\ SetPc(w, "idle")
  /\ UNCHANGED <<numWakeups, numActive, head, slotVars, cx, snapshot, registered,
                 callVars, since, called, place>>

\* The second look at num_wakeups, before the poll returns Pending.
Recheck(w) ==
  /\ pc[w] = "recheck"
  /\ IF numWakeups # snapshot[w] THEN EndPoll(w)
     ELSE SetPc(w, "idle") /\ UNCHANGED <<cx, called>>
  /\ UNCHANGED <<numWakeups, numActive, head, slotVars, snapshot, registered,
                 callVars, since, place>>

\* The future's memory is gone; the values are those Slot::new will write.
Forget(w) ==
  /\ SetPc(w, "none")
  /\ inList' = [inList EXCEPT ![w] = FALSE]
  /\ waker' = [waker EXCEPT ![w] = None]
  /\ cx' = [cx EXCEPT ![w] = None]
  /\ snapshot' = [snapshot EXCEPT ![w] = 0]
  /\ registered' = [registered EXCEPT ![w] = FALSE]
  /\ since' = [since EXCEPT ![w] = 0]
  /\ called' = [called EXCEPT ![w] = FALSE]
  /\ due' = [n \in Notifiers |-> due[n] \ {w}]

\* drop_never_registered_into_list
DropNeverRegistered(w) ==
  /\ pc[w] \in AtRest /\ ~registered[w]
  /\ numActive' = numActive - 1
  /\ Forget(w)
  /\ UNCHANGED <<numWakeups, head, next, pprev, npc, cur, place>>

\* Fault: a future that a notifier has unlinked counts itself out again.
DropUnlinkedTwice(w) ==
  /\ pc[w] \in AtRest /\ registered[w] /\ ~inList[w]
  /\ LockFree
  /\ numActive' = numActive - 1
  /\ next' = [next EXCEPT ![w] = None]
  /\ pprev' = [pprev EXCEPT ![w] = None]
  /\ Forget(w)
  /\ UNCHANGED <<numWakeups, head, npc, cur, place>>

\* drop_was_registered_into_list, when a notifier has unlinked the slot.
DropUnlinked(w) ==
  /\ pc[w] \in AtRest /\ registered[w] /\ ~inList[w]
  /\ LockFree
  /\ next' = [next EXCEPT ![w] = None]
  /\ pprev' = [pprev EXCEPT ![w] = None]
  /\ Forget(w)
  /\ UNCHANGED <<numWakeups, numActive, head, npc, cur, place>>

\* Fault: a future that has seen its notification does not leave the list.
DropLinkedLeak(w) ==
  /\ pc[w] \in AtRest /\ inList[w]
  /\ LockFree
  /\ numActive' = numActive - 1
  /\ Forget(w)
  /\ UNCHANGED <<numWakeups, head, next, pprev, npc, cur, place>>

\* Fault: the slot after the one that goes keeps its pprev.
DropLinkedOneWay(w) ==
  /\ pc[w] \in AtRest /\ inList[w]
  /\ LockFree
  /\ head' = IF pprev[w] = None THEN next[w] ELSE head
  /\ next' = [u \in Waiters |-> IF u = w THEN None
                                ELSE IF u = pprev[w] THEN next[w] ELSE next[u]]
  /\ pprev' = [pprev EXCEPT ![w] = None]
  /\ place' = [u \in Waiters |-> IF u = w THEN 0
                                 ELSE IF place[u] > place[w] THEN place[u] - 1
                                 ELSE place[u]]
  /\ numActive' = numActive - 1
  /\ Forget(w)
  /\ UNCHANGED <<numWakeups, npc, cur>>

\* The same, when the slot is in the list: it is unlinked, from the head or
\* from the middle.
DropLinked(w) ==
  /\ pc[w] \in AtRest /\ inList[w]
  /\ LockFree
  /\ head' = IF pprev[w] = None THEN next[w] ELSE head
  /\ next' = [u \in Waiters |-> IF u = w THEN None
                                ELSE IF u = pprev[w] THEN next[w] ELSE next[u]]
  /\ pprev' = [u \in Waiters |-> IF u = w THEN None
                                 ELSE IF u = next[w] THEN pprev[w] ELSE pprev[u]]
  /\ place' = [u \in Waiters |-> IF u = w THEN 0
                                 ELSE IF place[u] > place[w] THEN place[u] - 1
                                 ELSE place[u]]
  /\ numActive' = numActive - 1
  /\ Forget(w)
  /\ UNCHANGED <<numWakeups, npc, cur>>

-----------------------------------------------------------------------------
(***************************************************************************)
(* notify.                                                                 *)
(***************************************************************************)

\* Fault: the call is over at once with one waiter left.
LoadActiveOffByOne(n) ==
  /\ npc[n] = "idle"
  /\ due' = [due EXCEPT ![n] = Live]
  /\ SetNPc(n, IF numActive <= 1 THEN "done" ELSE "count")
  /\ UNCHANGED <<numWakeups, numActive, head, slotVars, futVars, cur, since, called, place>>

\* The call is over at once if nobody is active.
LoadActive(n) ==
  /\ npc[n] = "idle"
  /\ due' = [due EXCEPT ![n] = Live]
  /\ SetNPc(n, IF numActive = 0 THEN "done" ELSE "count")
  /\ UNCHANGED <<numWakeups, numActive, head, slotVars, futVars, cur, since, called, place>>

\* The increment of num_wakeups, which wraps around.
Count(n) ==
  /\ npc[n] = "count"
  /\ numWakeups' = IF numWakeups = WAKEUPS - 1 THEN 0 ELSE numWakeups + 1
  /\ since' = [w \in Waiters |-> IF w \in Live /\ since[w] < WAKEUPS
                                   THEN since[w] + 1 ELSE since[w]]
  /\ SetNPc(n, "lock")
  /\ UNCHANGED <<numActive, head, slotVars, futVars, cur, due, called, place>>

Lock(n) ==
  /\ npc[n] = "lock" /\ LockFree
  /\ SetNPc(n, "walk")
  /\ UNCHANGED <<numWakeups, numActive, head, slotVars, futVars, cur, due, since,
                 called, place>>

\* The loop: the first slot is unlinked and told so ...
Unlink(n) ==
  /\ npc[n] = "walk" /\ head # None
  /\ head' = next[head]
  /\ pprev' = [u \in Waiters |->
                 IF next[head] # None /\ u = head THEN None
                 ELSE IF u = next[head] THEN pprev[head] ELSE pprev[u]]
  /\ inList' = [inList EXCEPT ![head] = FALSE]
  /\ cur' = [cur EXCEPT ![n] = head]
  /\ place' = [place EXCEPT ![head] = 0]
  /\ SetNPc(n, "dec")
  /\ UNCHANGED <<numWakeups, numActive, next, waker, futVars, due, since, called>>

\* ... is no longer counted ...
DecActive(n) ==
  /\ npc[n] = "dec"
  /\ numActive' = numActive - 1
  /\ SetNPc(n, "wake")
  /\ UNCHANGED <<numWakeups, head, slotVars, futVars, cur, due, since, called, place>>

\* The waker taken from the slot is called.
CallWaker(w) ==
  /\ waker' = [waker EXCEPT ![w] = None]
  /\ called' = [called EXCEPT ![w] = @ \/ waker[w] = cx[w]]

\* ... and is woken, while the lock is still held.
Wake(n) ==
  /\ npc[n] = "wake"
  /\ CallWaker(cur[n])
  /\ cur' = [cur EXCEPT ![n] = None]
  /\ SetNPc(n, "walk")
  /\ UNCHANGED <<numWakeups, numActive, head, next, pprev, inList, futVars, due, since,
                 place>>

\* The waker panics: the lock is released and the call ends, with the rest of
\* the list as it was.
WakePanics(n) ==
  /\ WakersMayPanic
  /\ npc[n] = "wake"
  /\ CallWaker(cur[n])
  /\ cur' = [cur EXCEPT ![n] = None]
  /\ due' = [due EXCEPT ![n] = {}]
  /\ SetNPc(n, "idle")
  /\ UNCHANGED <<numWakeups, numActive, head, next, pprev, inList, futVars, since, place>>

\* The list is empty: the lock is released.
EndWalk(n) ==
  /\ npc[n] = "walk" /\ head = None
  /\ SetNPc(n, "done")
  /\ UNCHANGED <<numWakeups, numActive, head, slotVars, futVars, cur, due, since,
                 called, place>>

Return(n) ==
  /\ npc[n] = "done"
  /\ due' = [due EXCEPT ![n] = {}]
  /\ SetNPc(n, "idle")
  /\ UNCHANGED <<numWakeups, numActive, head, slotVars, futVars, cur, since, called, place>>

-----------------------------------------------------------------------------
Poll(w) == \/ \E c \in Wakers : BeginPoll(w, c)
           \/ Check(w) \/ UpdateWaker(w) \/ FindUnlinked(w) \/ Register(w)
           \/ ClonePanics(w) \/ Recheck(w)

Drop(w) == DropNeverRegistered(w) \/ DropUnlinked(w) \/ DropLinked(w)

Call(n) == \/ LoadActive(n) \/ Count(n) \/ Lock(n)
           \/ Unlink(n) \/ DecActive(n) \/ Wake(n) \/ WakePanics(n)
           \/ EndWalk(n) \/ Return(n)

Next == \/ \E w \in Waiters : New(w) \/ TakeSnapshot(w) \/ Poll(w) \/ Drop(w)
        \/ \E n \in Notifiers : Call(n)

Spec == Init /\ [][Next]_vars

-----------------------------------------------------------------------------
(***************************************************************************)
(* Properties.                                                             *)
(***************************************************************************)

\* The next poll of w finds the notification.
Notified(w) == numWakeups # snapshot[w] \/ (registered[w] /\ ~inList[w])

\* w has returned Pending and waits to be woken.
Asleep(w) == pc[w] = "idle" /\ registered[w]

Beckoned(w) == called[w] \/ \E n \in Notifiers : cur[n] = w

\* "any notification received after this function returns, even if it wasn't
\* polled or awaited yet, will be received by the returned future" (notified):
\* when notify has returned, every future registered before the call finds the
\* notification, and one that sleeps has had the waker of its latest poll
\* called, or a notifier is about to call it; through panics of other wakers
\* and short of the documented WAKEUPS notifications.
NotifyReaches == \A n \in Notifiers : \A w \in due[n] :
  npc[n] = "done" /\ since[w] < WAKEUPS =>
    Notified(w) /\ (Asleep(w) => Beckoned(w))

\* Who is counted in num_active_waiters.
Counted == {w \in Waiters :
  /\ pc[w] # "none"
  /\ registered[w] /\ ~inList[w] => \E n \in Notifiers : npc[n] = "dec" /\ cur[n] = w}

\* The counter that lets notify return at once is exact: no waiter is counted
\* out twice, by the notifier that unlinks it and by its own drop, and none is
\* forgotten (the debug_assert of dec_num_active_waiters).
CountExact == numActive = Cardinality(Counted)

\* No pointer into a future that is gone: not from the head, not along the
\* list in either direction, and not in the hands of a notifier.
NoDanglingSlot ==
  /\ head # None => pc[head] # "none"
  /\ \A w \in Waiters : inList[w] =>
       /\ next[w] # None => pc[next[w]] # "none"
       /\ pprev[w] # None => pc[pprev[w]] # "none"
  /\ \A n \in Notifiers : cur[n] # None => pc[cur[n]] # "none"

\* A notification has reached w.
Heard(w) == since[w] > 0 \/ (registered[w] /\ ~inList[w])

\* A poll returns Pending only where that is the truth, or the waker it was
\* given has been called since or is about to be: a notification that comes
\* between the two looks at the counter is not lost.
PendingIsSafe ==
  [][\A w \in Waiters : pc[w] = "recheck" /\ pc'[w] = "idle" =>
       ~Heard(w) \/ Beckoned(w) \/ since[w] = WAKEUPS]_vars

\* The list, the two counters and the early return of notify together do what
\* Notification says: in particular a call that returns at once has nobody to
\* reach, and no step but those of a notifier reaches anybody.
CallState(n) == IF npc[n] = "idle" THEN "none" ELSE IF npc[n] = "count" THEN "called"
                ELSE "reached"
Abstract == INSTANCE Notification WITH subs <- Live,
                                       heard <- {w \in Live : Heard(w)},
                                       call <- [n \in Notifiers |-> CallState(n)]
ImplementsNotification == Abstract!Spec

-----------------------------------------------------------------------------
(***************************************************************************)
(* The inductive invariant behind these properties.                        *)
(***************************************************************************)

\* The links describe one list: it starts at head, next leads to the place
\* below, pprev to the place above, and whoever is in the list has a place.
ListInv ==
  /\ head # None => inList[head] /\ pprev[head] = None
  /\ \A w \in Waiters :
       /\ inList[w] <=> place[w] > 0
       /\ place[w] <= Size
       /\ \A u \in Waiters : inList[w] /\ place[u] = place[w] => u = w
       /\ inList[w] =>
            /\ IF next[w] = None THEN place[w] = 1
               ELSE /\ inList[next[w]] /\ pprev[next[w]] = w
                    /\ place[next[w]] = place[w] - 1
            /\ IF pprev[w] = None THEN w = head
               ELSE /\ inList[pprev[w]] /\ next[pprev[w]] = w
                    /\ place[pprev[w]] = place[w] + 1

LockInv ==
  /\ \A m, n \in Notifiers : npc[m] \in LockPcs /\ npc[n] \in LockPcs => m = n
  /\ \A n \in Notifiers : npc[n] \in {"dec", "wake"} <=> cur[n] # None
  /\ \A n \in Notifiers : cur[n] # None => registered[cur[n]] /\ ~inList[cur[n]]

FutureInv == \A w \in Waiters :
  /\ pc[w] \in {"none", "new"} => ~registered[w]
  /\ inList[w] => registered[w]
  /\ pc[w] = "recheck" => registered[w]
  /\ \A n \in Notifiers : w \in due[n] => w \in Live
  /\ w \in Live /\ since[w] < WAKEUPS =>
       numWakeups = snapshot[w] + since[w] \/ numWakeups = snapshot[w] + since[w] - WAKEUPS

\* The waker in a slot is the one of the latest poll that got there, and is
\* called once the slot is unlinked.
WakerInv == \A w \in Waiters : registered[w] /\ pc[w] \in {"idle", "recheck"} =>
  /\ inList[w] => waker[w] = cx[w]
  /\ \A n \in Notifiers : cur[n] = w => waker[w] = cx[w]
  /\ ~inList[w] => Beckoned(w)

DueInv == \A n \in Notifiers : \A w \in due[n] :
  /\ npc[n] \in {"lock", "walk", "dec", "wake"} => since[w] >= 1
  /\ npc[n] = "done" => /\ since[w] >= 1 \/ (registered[w] /\ ~inList[w])
                        /\ since[w] < WAKEUPS => ~(pc[w] = "idle" /\ inList[w])

NotifyInv == TypeOK /\ ListInv /\ LockInv /\ FutureInv /\ WakerInv /\ DueInv /\ CountExact
=============================================================================
