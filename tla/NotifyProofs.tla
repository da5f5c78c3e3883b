----------------------------- MODULE NotifyProofs -----------------------------
(***************************************************************************)
(* NotifyInv is an inductive invariant of Notify, for every number of      *)
(* futures, notifiers and wakers, and implies what the module promises.    *)
(* One lemma per conjunct of NotifyInv; in each, the actions that can      *)
(* disturb the conjunct have a step of their own.                          *)
(***************************************************************************)
EXTENDS Notify, FiniteSetTheorems, TLAPS

\* One more notification, counted modulo N, moves the counter one further from
\* the snapshot a.
LEMMA CountArith ==
  ASSUME NEW N \in Nat, NEW a \in 0 .. N - 1, NEW c \in 0 .. N - 1, NEW s \in Nat,
         s + 1 < N, c = a + s \/ c = a + s - N
  PROVE  LET d == IF c = N - 1 THEN 0 ELSE c + 1
         IN  d = a + (s + 1) \/ d = a + (s + 1) - N
  OBVIOUS

LEMMA InitEstablishes == Init => NotifyInv
<1> SUFFICES ASSUME Init PROVE NotifyInv
  OBVIOUS
<1>1. TypeOK
  BY NotifyAssumption DEF Init, TypeOK, Pcs, NPcs
<1>2. ListInv
  BY DEF Init, ListInv, Size
<1>3. LockInv
  BY DEF Init, LockInv, LockPcs
<1>4. FutureInv
  BY NotifyAssumption DEF Init, FutureInv, Live
<1>5. WakerInv
  BY DEF Init, WakerInv
<1>6. DueInv
  BY DEF Init, DueInv
<1>7. Counted = {}
  BY DEF Init, Counted
<1>8. CountExact
  BY <1>7, FS_EmptySet DEF Init, CountExact
<1> QED
  BY <1>1, <1>2, <1>3, <1>4, <1>5, <1>6, <1>8 DEF NotifyInv

-----------------------------------------------------------------------------
\* The types.
LEMMA WaiterTypeOK ==
  ASSUME TypeOK, ListInv, NEW w \in Waiters,
         New(w) \/ TakeSnapshot(w) \/ Poll(w) \/ Drop(w)
  PROVE  TypeOK'
<1> USE NotifyAssumption DEF TypeOK, Pcs, SetPc, EndPoll, AtRest
<1>1. CASE New(w)
  BY <1>1 DEF New, slotVars, callVars
<1>2. CASE TakeSnapshot(w)
  BY <1>2 DEF TakeSnapshot, slotVars, callVars
<1>3. CASE \E c \in Wakers : BeginPoll(w, c)
  BY <1>3 DEF BeginPoll, slotVars, callVars
<1>4. CASE Check(w) \/ FindUnlinked(w) \/ ClonePanics(w) \/ Recheck(w)
  BY <1>4 DEF Check, FindUnlinked, ClonePanics, Recheck, slotVars, callVars
<1>5. CASE UpdateWaker(w)
  BY <1>5 DEF UpdateWaker, callVars
<1>6. CASE Register(w)
  <2>1. Size + 1 \in Nat
    BY DEF Size
  <2> QED
    BY <1>6, <2>1 DEF Register, callVars
<1>7. CASE DropNeverRegistered(w)
  BY <1>7 DEF DropNeverRegistered, Forget
<1>8. CASE DropUnlinked(w)
  BY <1>8 DEF DropUnlinked, Forget
<1>9. CASE DropLinked(w)
  <2>1. \A u \in Waiters : place[u] > place[w] => place[u] - 1 \in Nat
    OBVIOUS
  <2>2. place' \in [Waiters -> Nat]
    BY <1>9, <2>1 DEF DropLinked
  <2> QED
    BY <1>9, <2>2 DEF DropLinked, Forget
<1> QED
  BY <1>1, <1>2, <1>3, <1>4, <1>5, <1>6, <1>7, <1>8, <1>9 DEF Poll, Drop

LEMMA CallTypeOK ==
  ASSUME TypeOK, LockInv, NEW n \in Notifiers, Call(n)
  PROVE  TypeOK'
<1> USE NotifyAssumption DEF TypeOK, NPcs, SetNPc
<1>1. CASE LoadActive(n)
  BY <1>1 DEF LoadActive, slotVars, futVars, Live
<1>2. CASE Count(n)
  BY <1>2 DEF Count, slotVars, futVars
<1>3. CASE Lock(n) \/ EndWalk(n)
  BY <1>3 DEF Lock, EndWalk, slotVars, futVars
<1>4. CASE Unlink(n)
  BY <1>4 DEF Unlink, futVars
<1>5. CASE DecActive(n)
  BY <1>5 DEF DecActive, slotVars, futVars
<1>6. CASE Wake(n)
  <2>1. cur[n] \in Waiters
    BY <1>6 DEF Wake, LockInv
  <2> QED
    BY <1>6, <2>1 DEF Wake, CallWaker, futVars
<1>7. CASE WakePanics(n)
  <2>1. cur[n] \in Waiters
    BY <1>7 DEF WakePanics, LockInv
  <2> QED
    BY <1>7, <2>1 DEF WakePanics, CallWaker, futVars
<1>8. CASE Return(n)
  BY <1>8 DEF Return, slotVars, futVars
<1> QED
  BY <1>1, <1>2, <1>3, <1>4, <1>5, <1>6, <1>7, <1>8 DEF Call

LEMMA TypeStep == NotifyInv /\ Next => TypeOK'
BY WaiterTypeOK, CallTypeOK DEF NotifyInv, Next

-----------------------------------------------------------------------------
\* The list: only Register, Unlink and DropLinked change it.
LEMMA ListFrame ==
  ASSUME ListInv, UNCHANGED <<head, next, pprev, inList, place>>
  PROVE  ListInv'
BY DEF ListInv, Size

LEMMA ListRegister ==
  ASSUME TypeOK, ListInv, NEW w \in Waiters, Register(w)
  PROVE  ListInv'
<1> USE NotifyAssumption DEF TypeOK
<1>1. Size \in Nat /\ Size' = Size + 1 /\ ~inList[w] /\ head' = w
  BY DEF Register, Size
<1>2. \A u \in Waiters : /\ inList'[u] <=> (u = w \/ inList[u])
                         /\ place'[u] = IF u = w THEN Size + 1 ELSE place[u]
                         /\ next'[u] = IF u = w THEN head ELSE next[u]
                         /\ pprev'[u] = IF u = w THEN None
                                        ELSE IF u = head THEN w ELSE pprev[u]
  BY DEF Register
<1>5. ASSUME NEW u \in Waiters
      PROVE  /\ inList'[u] <=> place'[u] > 0
             /\ place'[u] <= Size'
             /\ \A v \in Waiters : inList'[u] /\ place'[v] = place'[u] => v = u
  BY <1>1, <1>2 DEF ListInv, Size
<1>6. ASSUME NEW u \in Waiters, inList'[u]
      PROVE  IF next'[u] = None THEN place'[u] = 1
             ELSE /\ inList'[next'[u]] /\ pprev'[next'[u]] = u
                  /\ place'[next'[u]] = place'[u] - 1
  BY <1>1, <1>2, <1>6 DEF ListInv, Size
<1>7. ASSUME NEW u \in Waiters, inList'[u]
      PROVE  IF pprev'[u] = None THEN u = head'
             ELSE /\ inList'[pprev'[u]] /\ next'[pprev'[u]] = u
                  /\ place'[pprev'[u]] = place'[u] + 1
  BY <1>1, <1>2, <1>7 DEF ListInv, Size
<1>8. head' # None => inList'[head'] /\ pprev'[head'] = None
  BY <1>1, <1>2 DEF ListInv, Size
<1> QED
  BY <1>5, <1>6, <1>7, <1>8 DEF ListInv

LEMMA ListUnlink ==
  ASSUME TypeOK, ListInv, NEW n \in Notifiers, Unlink(n)
  PROVE  ListInv'
<1> USE NotifyAssumption DEF TypeOK
<1>1. head \in Waiters /\ head' = next[head] /\ next' = next /\ inList[head]
      /\ pprev[head] = None
  BY DEF Unlink, ListInv
<1>2. \A u \in Waiters : /\ inList'[u] <=> (u # head /\ inList[u])
                         /\ place'[u] = IF u = head THEN 0 ELSE place[u]
                         /\ u # head => pprev'[u] = IF u = next[head] THEN None
                                                    ELSE pprev[u]
  BY <1>1 DEF Unlink
<1>3. Size = place[head] /\ Size' = Size - 1
  BY <1>1, <1>2 DEF ListInv, Size
<1>5. ASSUME NEW u \in Waiters
      PROVE  /\ inList'[u] <=> place'[u] > 0
             /\ place'[u] <= Size'
             /\ \A v \in Waiters : inList'[u] /\ place'[v] = place'[u] => v = u
  BY <1>1, <1>2, <1>3 DEF ListInv, Size
<1>6. ASSUME NEW u \in Waiters, inList'[u]
      PROVE  IF next'[u] = None THEN place'[u] = 1
             ELSE /\ inList'[next'[u]] /\ pprev'[next'[u]] = u
                  /\ place'[next'[u]] = place'[u] - 1
  BY <1>1, <1>2, <1>3, <1>6 DEF ListInv, Size
<1>7. ASSUME NEW u \in Waiters, inList'[u]
      PROVE  IF pprev'[u] = None THEN u = head'
             ELSE /\ inList'[pprev'[u]] /\ next'[pprev'[u]] = u
                  /\ place'[pprev'[u]] = place'[u] + 1
  BY <1>1, <1>2, <1>3, <1>7 DEF ListInv, Size
<1>8. head' # None => inList'[head'] /\ pprev'[head'] = None
  BY <1>1, <1>2, <1>3 DEF ListInv, Size
<1> QED
  BY <1>5, <1>6, <1>7, <1>8 DEF ListInv

LEMMA ListDrop ==
  ASSUME TypeOK, ListInv, NEW w \in Waiters, DropLinked(w)
  PROVE  ListInv'
<1> USE NotifyAssumption DEF TypeOK
<1>1. inList[w] /\ head # None
  BY DEF DropLinked, ListInv, Size
<1>2. \A u \in Waiters :
        /\ inList'[u] <=> (u # w /\ inList[u])
        /\ place'[u] = IF u = w THEN 0
                       ELSE IF place[u] > place[w] THEN place[u] - 1 ELSE place[u]
        /\ next'[u] = IF u = w THEN None
                      ELSE IF u = pprev[w] THEN next[w] ELSE next[u]
        /\ pprev'[u] = IF u = w THEN None
                       ELSE IF u = next[w] THEN pprev[w] ELSE pprev[u]
  BY DEF DropLinked, Forget
<1>3. head' = IF w = head THEN next[w] ELSE head
  BY <1>1 DEF DropLinked, ListInv
<1>4. Size = place[head] /\ Size' = Size - 1
  BY <1>1, <1>2, <1>3 DEF ListInv, Size
<1>5. ASSUME NEW u \in Waiters
      PROVE  /\ inList'[u] <=> place'[u] > 0
             /\ place'[u] <= Size'
             /\ \A v \in Waiters : inList'[u] /\ place'[v] = place'[u] => v = u
  BY <1>1, <1>2, <1>3, <1>4 DEF ListInv, Size
<1>6. ASSUME NEW u \in Waiters, inList'[u]
      PROVE  IF next'[u] = None THEN place'[u] = 1
             ELSE /\ inList'[next'[u]] /\ pprev'[next'[u]] = u
                  /\ place'[next'[u]] = place'[u] - 1
  BY <1>1, <1>2, <1>3, <1>4, <1>6 DEF ListInv, Size
<1>7. ASSUME NEW u \in Waiters, inList'[u]
      PROVE  IF pprev'[u] = None THEN u = head'
             ELSE /\ inList'[pprev'[u]] /\ next'[pprev'[u]] = u
                  /\ place'[pprev'[u]] = place'[u] + 1
  BY <1>1, <1>2, <1>3, <1>4, <1>7 DEF ListInv, Size
<1>8. head' # None => inList'[head'] /\ pprev'[head'] = None
  BY <1>1, <1>2, <1>3, <1>4 DEF ListInv, Size
<1> QED
  BY <1>5, <1>6, <1>7, <1>8 DEF ListInv

LEMMA ListStep == NotifyInv /\ Next => ListInv'
<1> SUFFICES ASSUME NotifyInv, Next PROVE ListInv'
  OBVIOUS
<1> USE DEF NotifyInv
<1>1. ASSUME NEW w \in Waiters, New(w) \/ TakeSnapshot(w) \/ Poll(w) \/ Drop(w)
      PROVE  ListInv'
  <2>1. CASE Register(w)
    BY <2>1, ListRegister
  <2>2. CASE DropLinked(w)
    BY <2>2, ListDrop
  <2>3. CASE DropNeverRegistered(w) \/ DropUnlinked(w)
    <3>1. ~inList[w] /\ inList' = [inList EXCEPT ![w] = FALSE]
      BY <2>3 DEF DropNeverRegistered, DropUnlinked, Forget, FutureInv
    <3>2. inList' = inList
      BY <3>1 DEF TypeOK
    <3>3. CASE DropNeverRegistered(w)
      BY <3>2, <3>3, ListFrame DEF DropNeverRegistered
    <3>4. CASE DropUnlinked(w)
      BY <3>1, <3>2, <3>4 DEF DropUnlinked, ListInv, Size, TypeOK
    <3> QED
      BY <2>3, <3>3, <3>4
  <2>4. CASE \/ New(w) \/ TakeSnapshot(w) \/ (\E c \in Wakers : BeginPoll(w, c))
             \/ Check(w) \/ FindUnlinked(w) \/ ClonePanics(w) \/ Recheck(w)
             \/ UpdateWaker(w)
    BY <2>4, ListFrame DEF New, TakeSnapshot, BeginPoll, Check, FindUnlinked,
       ClonePanics, Recheck, UpdateWaker, slotVars
  <2> QED
    BY <1>1, <2>1, <2>2, <2>3, <2>4 DEF Poll, Drop
<1>2. ASSUME NEW n \in Notifiers, Call(n)
      PROVE  ListInv'
  <2>1. CASE Unlink(n)
    BY <2>1, ListUnlink
  <2>2. CASE \/ LoadActive(n) \/ Count(n) \/ Lock(n) \/ DecActive(n)
             \/ Wake(n) \/ WakePanics(n) \/ EndWalk(n) \/ Return(n)
    BY <2>2, ListFrame DEF LoadActive, Count, Lock, DecActive, Wake, WakePanics,
       EndWalk, Return, slotVars
  <2> QED
    BY <1>2, <2>1, <2>2 DEF Call
<1> QED
  BY <1>1, <1>2 DEF Next

-----------------------------------------------------------------------------
\* The lock: at most one notifier is in its loop, and it alone holds a slot.
LEMMA LockStep == NotifyInv /\ Next => LockInv'
<1> SUFFICES ASSUME NotifyInv, Next PROVE LockInv'
  OBVIOUS
<1> USE NotifyAssumption DEF NotifyInv, TypeOK
<1>1. ASSUME NEW w \in Waiters, New(w) \/ TakeSnapshot(w) \/ Poll(w) \/ Drop(w)
      PROVE  LockInv'
  <2>1. npc' = npc /\ cur' = cur
    BY <1>1 DEF New, TakeSnapshot, Poll, BeginPoll, Check, UpdateWaker, FindUnlinked,
       Register, ClonePanics, Recheck, Drop, DropNeverRegistered, DropUnlinked,
       DropLinked, callVars
  <2>2. ASSUME NEW n \in Notifiers, cur[n] # None
        PROVE  registered'[cur[n]] /\ ~inList'[cur[n]]
    <3>1. cur[n] \in Waiters /\ registered[cur[n]] /\ ~inList[cur[n]] /\ ~LockFree
      BY <2>2 DEF LockInv, LockFree, LockPcs
    <3>2. CASE New(w) \/ TakeSnapshot(w) \/ (\E c \in Wakers : BeginPoll(w, c))
      BY <3>1, <3>2 DEF New, TakeSnapshot, BeginPoll, slotVars
    <3>3. CASE Check(w) \/ Recheck(w)
      BY <3>1, <3>3 DEF Check, Recheck, slotVars
    <3>4. CASE DropNeverRegistered(w)
      BY <3>1, <3>4 DEF DropNeverRegistered, Forget
    <3>5. CASE \/ UpdateWaker(w) \/ FindUnlinked(w) \/ Register(w) \/ ClonePanics(w)
               \/ DropUnlinked(w) \/ DropLinked(w)
      BY <3>1, <3>5 DEF UpdateWaker, FindUnlinked, Register, ClonePanics, DropUnlinked,
         DropLinked
    <3> QED
      BY <1>1, <3>2, <3>3, <3>4, <3>5 DEF Poll, Drop
  <2> QED
    BY <2>1, <2>2 DEF LockInv
<1>2. ASSUME NEW n \in Notifiers, Call(n)
      PROVE  LockInv'
  <2> USE DEF SetNPc, LockInv, LockPcs, NPcs
  <2>1. CASE Unlink(n)
    <3>1. head \in Waiters /\ inList[head] /\ registered[head]
      BY <2>1 DEF Unlink, ListInv, FutureInv
    <3>2. \A m \in Notifiers : m # n => cur[m] = None
      BY <2>1 DEF Unlink
    <3> QED
      BY <2>1, <3>1, <3>2 DEF Unlink, futVars
  <2>2. CASE Wake(n) \/ WakePanics(n)
    BY <2>2 DEF Wake, WakePanics, futVars
  <2>3. CASE LoadActive(n) \/ Count(n) \/ Return(n)
    BY <2>3 DEF LoadActive, Count, Return, slotVars, futVars
  <2>4. CASE Lock(n) \/ DecActive(n) \/ EndWalk(n)
    BY <2>4 DEF Lock, LockFree, DecActive, EndWalk, slotVars, futVars
  <2> QED
    BY <1>2, <2>1, <2>2, <2>3, <2>4 DEF Call
<1> QED
  BY <1>1, <1>2 DEF Next

-----------------------------------------------------------------------------
\* The futures: since counts what num_wakeups has moved from the snapshot.
LEMMA FutureStep == NotifyInv /\ Next => FutureInv'
<1> SUFFICES ASSUME NotifyInv, Next PROVE FutureInv'
  OBVIOUS
<1> USE NotifyAssumption DEF NotifyInv, TypeOK
<1>1. ASSUME NEW w \in Waiters, New(w) \/ TakeSnapshot(w) \/ Poll(w) \/ Drop(w)
      PROVE  FutureInv'
  <2> USE DEF SetPc, EndPoll, AtRest, Pcs, Live, FutureInv
  <2>1. CASE New(w)
    BY <2>1 DEF New, slotVars, callVars
  <2>2. CASE TakeSnapshot(w)
    BY <2>2 DEF TakeSnapshot, slotVars, callVars
  <2>3. CASE \E c \in Wakers : BeginPoll(w, c)
    BY <2>3 DEF BeginPoll, slotVars, callVars
  <2>4. CASE Check(w) \/ FindUnlinked(w) \/ ClonePanics(w) \/ Recheck(w)
    BY <2>4 DEF Check, FindUnlinked, ClonePanics, Recheck, slotVars, callVars
  <2>5. CASE UpdateWaker(w)
    BY <2>5 DEF UpdateWaker, callVars
  <2>6. CASE Register(w)
    BY <2>6 DEF Register, callVars
  <2>7. CASE DropNeverRegistered(w)
    BY <2>7 DEF DropNeverRegistered, Forget
  <2>8. CASE DropUnlinked(w)
    BY <2>8 DEF DropUnlinked, Forget
  <2>9. CASE DropLinked(w)
    BY <2>9 DEF DropLinked, Forget
  <2> QED
    BY <1>1, <2>1, <2>2, <2>3, <2>4, <2>5, <2>6, <2>7, <2>8, <2>9 DEF Poll, Drop
<1>2. ASSUME NEW n \in Notifiers, Call(n)
      PROVE  FutureInv'
  <2> USE DEF SetNPc, Live, FutureInv
  <2>1. CASE LoadActive(n)
    BY <2>1 DEF LoadActive, slotVars, futVars
  <2>2. CASE Count(n)
    <3>1. /\ numWakeups' = IF numWakeups = WAKEUPS - 1 THEN 0 ELSE numWakeups + 1
          /\ pc' = pc /\ registered' = registered /\ inList' = inList /\ due' = due
          /\ snapshot' = snapshot
      BY <2>2 DEF Count, slotVars, futVars
    <3>2. ASSUME NEW w \in Waiters, w \in Live, since'[w] < WAKEUPS
          PROVE  \/ numWakeups' = snapshot[w] + since'[w]
                 \/ numWakeups' = snapshot[w] + since'[w] - WAKEUPS
      <4>1. since[w] < WAKEUPS /\ since'[w] = since[w] + 1
        BY <2>2, <3>2 DEF Count
      <4>2. /\ snapshot[w] \in 0 .. WAKEUPS - 1 /\ since[w] \in Nat
            /\ numWakeups \in 0 .. WAKEUPS - 1 /\ WAKEUPS \in Nat
        OBVIOUS
      <4>3. \/ numWakeups = snapshot[w] + since[w]
            \/ numWakeups = snapshot[w] + since[w] - WAKEUPS
        BY <3>2, <4>1
      <4>4. since[w] + 1 < WAKEUPS
        BY <3>2, <4>1
      <4> HIDE DEF FutureInv, TypeOK, Live
      <4> QED
        BY <3>1, <4>1, <4>2, <4>3, <4>4, CountArith
    <3> QED
      BY <3>1, <3>2
  <2>3. CASE Unlink(n)
    BY <2>3 DEF Unlink, futVars, ListInv
  <2>4. CASE Lock(n) \/ DecActive(n) \/ EndWalk(n)
    BY <2>4 DEF Lock, DecActive, EndWalk, slotVars, futVars
  <2>5. CASE Wake(n) \/ WakePanics(n)
    BY <2>5 DEF Wake, WakePanics, futVars
  <2>6. CASE Return(n)
    BY <2>6 DEF Return, slotVars, futVars
  <2> QED
    BY <1>2, <2>1, <2>2, <2>3, <2>4, <2>5, <2>6 DEF Call
<1> QED
  BY <1>1, <1>2 DEF Next

-----------------------------------------------------------------------------
\* The wakers: an unlinked future that sleeps was called with its own waker.
LEMMA WakerStep == NotifyInv /\ Next => WakerInv'
<1> SUFFICES ASSUME NotifyInv, Next PROVE WakerInv'
  OBVIOUS
<1> USE NotifyAssumption DEF NotifyInv, TypeOK
<1>1. ASSUME NEW w \in Waiters, New(w) \/ TakeSnapshot(w) \/ Poll(w) \/ Drop(w)
      PROVE  WakerInv'
  <2> USE DEF SetPc, EndPoll, AtRest, Pcs, WakerInv, Beckoned
  <2>1. CASE New(w)
    BY <2>1 DEF New, slotVars, callVars
  <2>2. CASE TakeSnapshot(w)
    BY <2>2 DEF TakeSnapshot, slotVars, callVars, FutureInv
  <2>3. CASE \E c \in Wakers : BeginPoll(w, c)
    BY <2>3 DEF BeginPoll, slotVars, callVars
  <2>4. CASE Check(w) \/ FindUnlinked(w) \/ ClonePanics(w) \/ Recheck(w)
    BY <2>4 DEF Check, FindUnlinked, ClonePanics, Recheck, slotVars, callVars
  <2>5. CASE UpdateWaker(w)
    BY <2>5 DEF UpdateWaker, callVars, LockInv
  <2>6. CASE Register(w)
    BY <2>6 DEF Register, callVars, LockInv
  <2>7. CASE DropNeverRegistered(w)
    BY <2>7 DEF DropNeverRegistered, Forget
  <2>8. CASE DropUnlinked(w)
    BY <2>8 DEF DropUnlinked, Forget
  <2>9. CASE DropLinked(w)
    BY <2>9 DEF DropLinked, Forget
  <2> QED
    BY <1>1, <2>1, <2>2, <2>3, <2>4, <2>5, <2>6, <2>7, <2>8, <2>9 DEF Poll, Drop
<1>2. ASSUME NEW n \in Notifiers, Call(n)
      PROVE  WakerInv'
  <2> USE DEF SetNPc, WakerInv, Beckoned
  <2>1. CASE LoadActive(n) \/ Count(n) \/ Return(n)
    BY <2>1 DEF LoadActive, Count, Return, slotVars, futVars
  <2>2. CASE Lock(n) \/ DecActive(n) \/ EndWalk(n)
    BY <2>2 DEF Lock, DecActive, EndWalk, slotVars, futVars
  <2>3. CASE Unlink(n)
    <3>1. head \in Waiters /\ inList[head] /\ cur[n] = None
      BY <2>3 DEF Unlink, ListInv, LockInv
    <3>2. /\ waker' = waker /\ pc' = pc /\ cx' = cx /\ registered' = registered
          /\ called' = called
          /\ \A u \in Waiters : u # head => (inList'[u] <=> inList[u])
          /\ cur'[n] = head /\ \A m \in Notifiers : m # n => cur'[m] = cur[m]
      BY <2>3, <3>1 DEF Unlink, futVars
    <3> QED
      BY <3>1, <3>2
  <2>4. CASE Wake(n) \/ WakePanics(n)
    <3>1. cur[n] \in Waiters /\ ~inList[cur[n]]
          /\ \A m \in Notifiers : m # n => cur[m] = None
      BY <2>4 DEF Wake, WakePanics, LockInv, LockPcs
    <3>2. /\ inList' = inList /\ pc' = pc /\ cx' = cx /\ registered' = registered
          /\ cur' = [cur EXCEPT ![n] = None] /\ CallWaker(cur[n])
      BY <2>4 DEF Wake, WakePanics, futVars
    <3>3. \A m \in Notifiers : cur'[m] = None
      BY <3>1, <3>2
    <3>4. /\ \A u \in Waiters : u # cur[n] => waker'[u] = waker[u] /\ (called'[u] <=> called[u])
          /\ waker[cur[n]] = cx[cur[n]] => called'[cur[n]]
      BY <3>1, <3>2 DEF CallWaker
    <3> QED
      BY <3>1, <3>2, <3>3, <3>4
  <2> QED
    BY <1>2, <2>1, <2>2, <2>3, <2>4 DEF Call
<1> QED
  BY <1>1, <1>2 DEF Next

-----------------------------------------------------------------------------
\* A future that hears one notification, and fewer than WAKEUPS, sees a moved
\* counter.
LEMMA CounterMoved ==
  ASSUME NotifyInv, NEW w \in Live, since[w] >= 1, since[w] < WAKEUPS
  PROVE  numWakeups # snapshot[w]
BY NotifyAssumption DEF NotifyInv, TypeOK, FutureInv, Live

\* When nobody is counted, every future has been unlinked.
LEMMA NobodyActive ==
  ASSUME NotifyInv, numActive = 0, NEW w \in Live
  PROVE  registered[w] /\ ~inList[w]
<1>1. Counted \subseteq Waiters
  BY DEF Counted
<1>2. IsFiniteSet(Counted)
  BY <1>1, NotifyAssumption, FS_Subset
<1>3. Counted = {}
  BY <1>2, FS_EmptySet DEF NotifyInv, CountExact
<1> QED
  BY <1>3 DEF Counted, Live

LEMMA DueStep == NotifyInv /\ Next => DueInv'
<1> SUFFICES ASSUME NotifyInv, Next PROVE DueInv'
  OBVIOUS
<1> USE NotifyAssumption DEF NotifyInv, TypeOK
<1>1. ASSUME NEW w \in Waiters, New(w) \/ TakeSnapshot(w) \/ Poll(w) \/ Drop(w)
      PROVE  DueInv'
  <2> USE DEF SetPc, EndPoll, AtRest, DueInv
  <2>1. CASE New(w)
    BY <2>1 DEF New, slotVars, callVars, FutureInv, Live
  <2>2. CASE TakeSnapshot(w)
    BY <2>2 DEF TakeSnapshot, slotVars, callVars, FutureInv, Live
  <2>3. CASE \E c \in Wakers : BeginPoll(w, c)
    BY <2>3 DEF BeginPoll, slotVars, callVars
  <2>4. CASE Check(w) \/ FindUnlinked(w) \/ ClonePanics(w)
    BY <2>4 DEF Check, FindUnlinked, ClonePanics, slotVars, callVars
  <2>5. CASE UpdateWaker(w)
    BY <2>5 DEF UpdateWaker, callVars
  <2>6. CASE Register(w)
    BY <2>6 DEF Register, callVars
  <2>7. CASE Recheck(w)
    <3>1. w \in Live /\ since[w] >= 1 /\ since[w] < WAKEUPS => pc'[w] = "over"
      BY <2>7, CounterMoved DEF Recheck
    <3>2. \A u \in Waiters : u # w => pc'[u] = pc[u]
      BY <2>7 DEF Recheck
    <3> QED
      BY <2>7, <3>1, <3>2 DEF Recheck, slotVars, callVars, FutureInv, Live
  <2>8. CASE DropNeverRegistered(w)
    BY <2>8 DEF DropNeverRegistered, Forget
  <2>9. CASE DropUnlinked(w)
    BY <2>9 DEF DropUnlinked, Forget
  <2>10. CASE DropLinked(w)
    BY <2>10 DEF DropLinked, Forget
  <2> QED
    BY <1>1, <2>1, <2>2, <2>3, <2>4, <2>5, <2>6, <2>7, <2>8, <2>9, <2>10 DEF Poll, Drop
<1>2. ASSUME NEW n \in Notifiers, Call(n)
      PROVE  DueInv'
  <2> USE DEF SetNPc, DueInv
  <2>1. CASE LoadActive(n)
    <3>1. \A w \in Live : numActive = 0 => registered[w] /\ ~inList[w]
      BY NobodyActive
    <3> QED
      BY <2>1, <3>1 DEF LoadActive, slotVars, futVars, Live
  <2>2. CASE Count(n)
    <3>1. \A w \in Waiters : since'[w] >= since[w] /\ (w \in Live => since'[w] >= 1)
      BY <2>2 DEF Count
    <3>2. \A m \in Notifiers : due[m] \subseteq Live
      BY DEF FutureInv
    <3> QED
      BY <2>2, <3>1, <3>2 DEF Count, slotVars, futVars
  <2>3. CASE Unlink(n)
    BY <2>3 DEF Unlink, futVars, ListInv, FutureInv
  <2>4. CASE Lock(n) \/ DecActive(n)
    BY <2>4 DEF Lock, DecActive, slotVars, futVars
  <2>5. CASE Wake(n) \/ WakePanics(n)
    BY <2>5 DEF Wake, WakePanics, futVars
  <2>6. CASE EndWalk(n)
    <3>1. \A w \in Waiters : ~inList[w]
      BY <2>6 DEF EndWalk, ListInv, Size
    <3> QED
      BY <2>6, <3>1 DEF EndWalk, slotVars, futVars
  <2>7. CASE Return(n)
    BY <2>7 DEF Return, slotVars, futVars
  <2> QED
    BY <1>2, <2>1, <2>2, <2>3, <2>4, <2>5, <2>6, <2>7 DEF Call
<1> QED
  BY <1>1, <1>2 DEF Next

-----------------------------------------------------------------------------
\* The counter of active waiters.
LEMMA CountStep == NotifyInv /\ Next => CountExact'
<1> SUFFICES ASSUME NotifyInv, Next PROVE CountExact'
  OBVIOUS
<1> USE NotifyAssumption DEF NotifyInv, TypeOK
<1>0. Counted \subseteq Waiters /\ IsFiniteSet(Counted)
  BY FS_Subset DEF Counted
<1>a. ASSUME NEW w \in Counted, Counted' = Counted \ {w}, numActive' = numActive - 1
      PROVE  CountExact'
  BY <1>0, <1>a, FS_RemoveElement DEF CountExact
<1>b. ASSUME NEW w \in Waiters, w \notin Counted, Counted' = Counted \cup {w},
             numActive' = numActive + 1
      PROVE  CountExact'
  BY <1>0, <1>b, FS_AddElement DEF CountExact
<1>c. ASSUME Counted' = Counted, numActive' = numActive
      PROVE  CountExact'
  BY <1>c DEF CountExact
<1>1. ASSUME NEW w \in Waiters, New(w) \/ TakeSnapshot(w) \/ Poll(w) \/ Drop(w)
      PROVE  CountExact'
  <2> USE DEF SetPc, EndPoll, AtRest
  <2>1. CASE New(w)
    <3>1. w \notin Counted /\ Counted' = Counted \cup {w}
      BY <2>1 DEF New, slotVars, callVars, Counted, FutureInv
    <3> QED
      BY <2>1, <3>1, <1>b DEF New
  <2>2. CASE \/ TakeSnapshot(w) \/ (\E c \in Wakers : BeginPoll(w, c))
             \/ Check(w) \/ FindUnlinked(w) \/ ClonePanics(w) \/ Recheck(w)
    <3>1. Counted' = Counted
      BY <2>2 DEF TakeSnapshot, BeginPoll, Check, FindUnlinked, ClonePanics, Recheck,
         slotVars, callVars, Counted
    <3> QED
      BY <2>2, <3>1, <1>c DEF TakeSnapshot, BeginPoll, Check, FindUnlinked, ClonePanics,
         Recheck
  <2>3. CASE UpdateWaker(w)
    <3>1. Counted' = Counted
      BY <2>3 DEF UpdateWaker, callVars, Counted
    <3> QED
      BY <2>3, <3>1, <1>c DEF UpdateWaker
  <2>4. CASE Register(w)
    <3>1. Counted' = Counted
      BY <2>4 DEF Register, callVars, Counted
    <3> QED
      BY <2>4, <3>1, <1>c DEF Register
  <2>5. CASE DropNeverRegistered(w)
    <3>1. w \in Counted /\ Counted' = Counted \ {w}
      BY <2>5 DEF DropNeverRegistered, Forget, Counted
    <3> QED
      BY <2>5, <3>1, <1>a DEF DropNeverRegistered
  <2>6. CASE DropUnlinked(w)
    <3>1. w \notin Counted
      BY <2>6 DEF DropUnlinked, LockFree, LockPcs, Counted
    <3>2. Counted' = Counted
      BY <2>6, <3>1 DEF DropUnlinked, Forget, Counted
    <3> QED
      BY <2>6, <3>2, <1>c DEF DropUnlinked
  <2>7. CASE DropLinked(w)
    <3>1. w \in Counted /\ Counted' = Counted \ {w}
      BY <2>7 DEF DropLinked, Forget, Counted
    <3> QED
      BY <2>7, <3>1, <1>a DEF DropLinked
  <2> QED
    BY <1>1, <2>1, <2>2, <2>3, <2>4, <2>5, <2>6, <2>7 DEF Poll, Drop
<1>2. ASSUME NEW n \in Notifiers, Call(n)
      PROVE  CountExact'
  <2> USE DEF SetNPc
  <2>1. CASE LoadActive(n) \/ Count(n) \/ Lock(n) \/ EndWalk(n) \/ Return(n)
    <3>1. Counted' = Counted
      BY <2>1 DEF LoadActive, Count, Lock, EndWalk, Return, slotVars, futVars, Counted
    <3> QED
      BY <2>1, <3>1, <1>c DEF LoadActive, Count, Lock, EndWalk, Return
  <2>2. CASE Unlink(n)
    <3>1. head \in Waiters /\ inList[head] /\ registered[head] /\ cur[n] = None
      BY <2>2 DEF Unlink, ListInv, FutureInv, LockInv
    <3>2. Counted' = Counted
      BY <2>2, <3>1 DEF Unlink, futVars, Counted
    <3> QED
      BY <2>2, <3>2, <1>c DEF Unlink
  <2>3. CASE DecActive(n)
    <3>1. cur[n] \in Waiters /\ \A m \in Notifiers : m # n => cur[m] = None
      BY <2>3 DEF DecActive, LockInv, LockPcs
    <3>2. registered[cur[n]] /\ ~inList[cur[n]] /\ pc[cur[n]] # "none"
      BY <3>1 DEF LockInv, FutureInv
    <3>3. cur[n] \in Counted /\ Counted' = Counted \ {cur[n]}
      BY <2>3, <3>1, <3>2 DEF DecActive, slotVars, futVars, Counted
    <3> QED
      BY <2>3, <3>3, <1>a DEF DecActive
  <2>4. CASE Wake(n) \/ WakePanics(n)
    <3>1. \A m \in Notifiers : npc[m] # "dec" /\ npc'[m] # "dec"
      BY <2>4 DEF Wake, WakePanics, LockInv, LockPcs
    <3>2. Counted' = Counted
      BY <2>4, <3>1 DEF Wake, WakePanics, futVars, Counted
    <3> QED
      BY <2>4, <3>2, <1>c DEF Wake, WakePanics
  <2> QED
    BY <1>2, <2>1, <2>2, <2>3, <2>4 DEF Call
<1> QED
  BY <1>1, <1>2 DEF Next

-----------------------------------------------------------------------------
\* The invariant holds in every state: the links of the intrusive list, the
\* lock, the counters, the wakers and the bookkeeping agree.
THEOREM NotifyCorrect == Spec => []NotifyInv
<1>1. Init => NotifyInv
  BY InitEstablishes
<1>2. NotifyInv /\ [Next]_vars => NotifyInv'
  <2>1. NotifyInv /\ Next => NotifyInv'
    BY TypeStep, ListStep, LockStep, FutureStep, WakerStep, DueStep, CountStep
       DEF NotifyInv
  <2>2. NotifyInv /\ UNCHANGED vars => NotifyInv'
    BY DEF vars, slotVars, futVars, callVars, NotifyInv, TypeOK, ListInv, Size, LockInv,
       FutureInv, Live, WakerInv, Beckoned, DueInv, CountExact, Counted
  <2> QED
    BY <2>1, <2>2
<1> QED
  BY <1>1, <1>2, PTL DEF Spec

\* No notification is lost: a call of notify that has returned has reached every
\* future registered before it, whatever other calls, polls, drops and panicking
\* wakers were interleaved with it.
THEOREM NoLostNotification == Spec => []NotifyReaches
<1>1. NotifyInv => NotifyReaches
  <2> SUFFICES ASSUME NotifyInv, NEW n \in Notifiers, NEW w \in due[n],
                      npc[n] = "done", since[w] < WAKEUPS
               PROVE  Notified(w) /\ (Asleep(w) => Beckoned(w))
    BY DEF NotifyReaches
  <2>1. w \in Live /\ w \in Waiters
    BY DEF NotifyInv, TypeOK, FutureInv
  <2>2. since[w] >= 1 \/ (registered[w] /\ ~inList[w])
    BY DEF NotifyInv, DueInv
  <2>3. Notified(w)
    BY <2>1, <2>2, CounterMoved DEF Notified
  <2>4. Asleep(w) => ~inList[w]
    BY DEF NotifyInv, DueInv, Asleep
  <2>5. Asleep(w) => Beckoned(w)
    BY <2>1, <2>4 DEF NotifyInv, WakerInv, Asleep
  <2> QED
    BY <2>3, <2>5
<1> QED
  BY <1>1, NotifyCorrect, PTL

\* num_active_waiters is exact, so that notify's fast path skips nobody.
THEOREM ActiveCountExact == Spec => []CountExact
<1>1. NotifyInv => CountExact
  BY DEF NotifyInv
<1> QED
  BY <1>1, NotifyCorrect, PTL

\* No link and no notifier points into a dropped future.
THEOREM NoDangling == Spec => []NoDanglingSlot
<1>1. NotifyInv => NoDanglingSlot
  BY NotifyAssumption DEF NotifyInv, TypeOK, ListInv, LockInv, FutureInv, NoDanglingSlot
<1> QED
  BY <1>1, NotifyCorrect, PTL

\* A poll that returns Pending, after both looks at the counter, has missed
\* nothing that will not wake it.
THEOREM PendingMissesNothing == Spec => PendingIsSafe
<1>1. NotifyInv /\ [Next]_vars =>
        [\A w \in Waiters : pc[w] = "recheck" /\ pc'[w] = "idle" =>
           ~Heard(w) \/ Beckoned(w) \/ since[w] = WAKEUPS]_vars
  <2> SUFFICES ASSUME NotifyInv, [Next]_vars, NEW w \in Waiters,
                      pc[w] = "recheck", pc'[w] = "idle", Heard(w), since[w] # WAKEUPS
               PROVE  Beckoned(w)
    OBVIOUS
  <2> USE NotifyAssumption DEF NotifyInv, TypeOK
  <2>1. Recheck(w)
    BY DEF Next, vars, futVars, SetPc, EndPoll, AtRest, New, TakeSnapshot, Poll, BeginPoll, Check,
       UpdateWaker, FindUnlinked, Register, ClonePanics, Recheck, Drop,
       DropNeverRegistered, DropUnlinked, DropLinked, Forget, Call, LoadActive, Count,
       Lock, Unlink, DecActive, Wake, WakePanics, EndWalk, Return
  <2>2. numWakeups = snapshot[w]
    BY <2>1 DEF Recheck, SetPc, EndPoll
  <2>3. since[w] = 0
    BY <2>2, CounterMoved DEF Live
  <2> QED
    BY <2>3 DEF Heard, WakerInv
<1> QED
  BY <1>1, NotifyCorrect, PTL DEF Spec, PendingIsSafe

-----------------------------------------------------------------------------
(***************************************************************************)
(* Notify implements Notification.                                         *)
(***************************************************************************)
HeardLive == {w \in Live : Heard(w)}
Calls == [n \in Notifiers |-> CallState(n)]
absVars == <<Live, HeardLive, Calls>>

\* A poll subscribes nobody and reaches nobody.
LEMMA PollUnseen ==
  ASSUME NotifyInv, NEW w \in Waiters, New(w) \/ Poll(w)
  PROVE  UNCHANGED absVars
<1> USE DEF NotifyInv, TypeOK, SetPc, EndPoll, AtRest
<1>1. npc' = npc /\ since' = since
  BY DEF New, Poll, BeginPoll, Check, UpdateWaker, FindUnlinked, Register, ClonePanics,
     Recheck, callVars
<1>2. Live' = Live
  BY DEF Live, New, Poll, BeginPoll, Check, UpdateWaker, FindUnlinked, Register,
     ClonePanics, Recheck
<1>3. CASE Register(w)
  BY <1>1, <1>2, <1>3 DEF Register, HeardLive, Heard, absVars, Calls, CallState
<1>4. CASE ~Register(w)
  <2>1. registered' = registered /\ inList' = inList
    BY <1>4 DEF New, Poll, BeginPoll, Check, UpdateWaker, FindUnlinked, ClonePanics,
       Recheck, slotVars
  <2> QED
    BY <1>1, <1>2, <2>1 DEF HeardLive, Heard, absVars, Calls, CallState
<1> QED
  BY <1>3, <1>4

LEMMA SnapshotSubscribes ==
  ASSUME NotifyInv, NEW w \in Waiters, TakeSnapshot(w)
  PROVE  Abstract!Subscribe(w)
<1> USE DEF NotifyInv, TypeOK, SetPc, TakeSnapshot, slotVars, callVars
<1>1. w \notin Live /\ Live' = Live \cup {w}
  BY DEF Live
<1>2. ~Heard(w)' /\ \A u \in Waiters \ {w} : Heard(u)' = Heard(u)
  BY DEF Heard, FutureInv
<1>3. HeardLive' = HeardLive
  BY <1>1, <1>2 DEF HeardLive, Live
<1>4. Calls' = Calls
  BY DEF Calls, CallState
<1> QED
  BY <1>1, <1>3, <1>4 DEF Abstract!Subscribe, HeardLive, Calls

LEMMA DropUnsubscribes ==
  ASSUME NotifyInv, NEW w \in Waiters, Drop(w)
  PROVE  Abstract!Drop(w)
<1> USE DEF NotifyInv, TypeOK
<1>1. pc[w] \in AtRest /\ Forget(w) /\ npc' = npc
  BY DEF Drop, DropNeverRegistered, DropUnlinked, DropLinked
<1>2. w \in Live /\ Live' = Live \ {w}
  BY <1>1 DEF AtRest, Live, Forget, SetPc
<1>3. \A u \in Waiters \ {w} : Heard(u)' = Heard(u)
  BY <1>1 DEF Heard, Forget
<1>4. HeardLive' = HeardLive \ {w}
  BY <1>2, <1>3 DEF HeardLive, Live
<1>5. Calls' = Calls
  BY <1>1 DEF Calls, CallState
<1> QED
  BY <1>2, <1>4, <1>5 DEF Abstract!Drop, HeardLive, Calls

\* The fast path of notify has nobody left to reach.
LEMMA LoadBegins ==
  ASSUME NotifyInv, NEW n \in Notifiers, LoadActive(n)
  PROVE  Abstract!Begin(n) \/ Abstract!ReachAll(n)
<1> USE DEF NotifyInv, TypeOK, LoadActive, SetNPc, slotVars, futVars
<1>1. Live' = Live
  BY DEF Live
<1>2. HeardLive' = HeardLive
  BY <1>1 DEF HeardLive, Heard
<1>3. CASE numActive = 0
  <2>1. HeardLive = Live
    BY <1>3, NobodyActive DEF HeardLive, Heard
  <2>2. Calls[n] = "none" /\ Calls' = [Calls EXCEPT ![n] = "reached"]
    BY <1>3 DEF Calls, CallState
  <2> QED
    BY <1>1, <1>2, <2>1, <2>2 DEF Abstract!ReachAll, HeardLive, Calls
<1>4. CASE numActive # 0
  <2>1. Calls[n] = "none" /\ Calls' = [Calls EXCEPT ![n] = "called"]
    BY <1>4 DEF Calls, CallState
  <2> QED
    BY <1>1, <1>2, <2>1 DEF Abstract!Begin, HeardLive, Calls
<1> QED
  BY <1>3, <1>4

\* The increment of num_wakeups reaches all subscriptions at once.
LEMMA CountReaches ==
  ASSUME NotifyInv, NEW n \in Notifiers, Count(n)
  PROVE  Abstract!ReachAll(n)
<1> USE DEF NotifyInv, TypeOK, Count, SetNPc, slotVars, futVars
<1>1. Live' = Live
  BY DEF Live
<1>2. \A w \in Live : since'[w] > 0
  BY NotifyAssumption DEF Live
<1>3. HeardLive' = Live
  BY <1>1, <1>2 DEF HeardLive, Heard
<1>4. Calls[n] # "reached" /\ Calls' = [Calls EXCEPT ![n] = "reached"]
  BY DEF Calls, CallState
<1> QED
  BY <1>1, <1>3, <1>4 DEF Abstract!ReachAll, HeardLive, Calls

\* What is unlinked is a subscription, made before the increment or after it.
LEMMA UnlinkReaches ==
  ASSUME NotifyInv, NEW n \in Notifiers, Unlink(n)
  PROVE  Abstract!ReachMore(n)
<1> USE DEF NotifyInv, TypeOK, Unlink, SetNPc, futVars
<1>1. Live' = Live
  BY DEF Live
<1>2. HeardLive \subseteq HeardLive' /\ HeardLive' \subseteq Live
  BY <1>1 DEF HeardLive, Heard, Live
<1>3. Calls[n] = "reached" /\ Calls' = Calls
  BY DEF Calls, CallState
<1> QED
  BY <1>1, <1>2, <1>3 DEF Abstract!ReachMore, HeardLive, Calls

\* The rest of the loop reaches nobody; the call returns at its end or when a
\* waker panics.
LEMMA LoopUnseen ==
  ASSUME NotifyInv, NEW n \in Notifiers,
         Lock(n) \/ DecActive(n) \/ Wake(n) \/ WakePanics(n) \/ EndWalk(n) \/ Return(n)
  PROVE  Abstract!ReachMore(n)
<1> USE DEF NotifyInv, TypeOK, SetNPc, slotVars, futVars
<1>1. pc' = pc /\ since' = since /\ registered' = registered /\ inList' = inList
  BY DEF Lock, DecActive, Wake, WakePanics, EndWalk, Return
<1>2. Live' = Live /\ HeardLive' = HeardLive
  BY <1>1 DEF Live, HeardLive, Heard
<1>3. Calls[n] = "reached" /\ (Calls' = Calls \/ Calls' = [Calls EXCEPT ![n] = "none"])
  BY DEF Lock, DecActive, Wake, WakePanics, EndWalk, Return, Calls, CallState
<1>4. HeardLive \subseteq Live
  BY DEF HeardLive
<1> QED
  BY <1>2, <1>3, <1>4 DEF Abstract!ReachMore, HeardLive, Calls

\* The intrusive list and the two counters implement the notification that
\* synchronize_rcu_outer relies on, for any number of futures and notifiers and
\* with wakers that panic.
THEOREM NotifyIsNotification == Spec => ImplementsNotification
<1>1. Init => Abstract!Init
  BY DEF Init, Abstract!Init, Live, CallState
<1>2. NotifyInv /\ [Next]_vars => [Abstract!Next]_absVars
  <2> SUFFICES ASSUME NotifyInv, [Next]_vars
               PROVE  Abstract!Next \/ UNCHANGED absVars
    OBVIOUS
  <2>1. CASE UNCHANGED vars
    BY <2>1 DEF vars, slotVars, futVars, callVars, absVars, Live, HeardLive, Heard, Calls,
       CallState
  <2>2. ASSUME NEW w \in Waiters, New(w) \/ TakeSnapshot(w) \/ Poll(w) \/ Drop(w)
        PROVE  Abstract!Next \/ UNCHANGED absVars
    BY <2>2, PollUnseen, SnapshotSubscribes, DropUnsubscribes DEF Abstract!Next
  <2>3. ASSUME NEW n \in Notifiers, Call(n)
        PROVE  Abstract!Next
    BY <2>3, LoadBegins, CountReaches, UnlinkReaches, LoopUnseen DEF Call, Abstract!Next
  <2> QED
    BY <2>1, <2>2, <2>3 DEF Next
<1> QED
  BY <1>1, <1>2, NotifyCorrect, PTL
  DEF Spec, ImplementsNotification, Abstract!Spec, absVars, HeardLive, Calls
=============================================================================
