---------------------------- MODULE Notification ----------------------------
(***************************************************************************)
(* What the notification primitive (src/rcu_core/notify.rs) promises to    *)
(* those who use it.  A call of notify has two effects: it reaches every   *)
(* subscription there is, at one moment, and before it returns it may also *)
(* reach subscriptions that were made later.  Nothing else does.           *)
(*                                                                         *)
(* Notify implements this specification.  The steps ResetNotify and        *)
(* ResetWake of SynchronizeRcu are its two effects.                        *)
(***************************************************************************)
CONSTANTS
  Waiters,    \* who subscribes
  Notifiers   \* who calls notify

VARIABLES
  subs,   \* who has a subscription
  heard,  \* those of them a notification has reached: they need not wait
  call    \* call[n]: "none", "called", or "reached" (all who had subscribed)

Init ==
  /\ subs = {} /\ heard = {}
  /\ call = [n \in Notifiers |-> "none"]

Subscribe(w) == w \notin subs /\ subs' = subs \cup {w} /\ UNCHANGED <<heard, call>>

\* The subscription is dropped, completed or not.
Drop(w) ==
  w \in subs /\ subs' = subs \ {w} /\ heard' = heard \ {w} /\ call' = call

Begin(n) ==
  /\ call[n] = "none"
  /\ call' = [call EXCEPT ![n] = "called"]
  /\ UNCHANGED <<subs, heard>>

\* The first effect.
ReachAll(n) ==
  /\ call[n] # "reached"
  /\ call' = [call EXCEPT ![n] = "reached"]
  /\ heard' = subs /\ subs' = subs

\* The second effect, on some more, and possibly the return.
ReachMore(n) ==
  /\ call[n] = "reached"
  /\ call' = call \/ call' = [call EXCEPT ![n] = "none"]
  /\ heard \subseteq heard' /\ heard' \subseteq subs /\ subs' = subs

Next == \/ \E w \in Waiters : Subscribe(w) \/ Drop(w)
        \/ \E n \in Notifiers : Begin(n) \/ ReachAll(n) \/ ReachMore(n)

Spec == Init /\ [][Next]_<<subs, heard, call>>
=============================================================================
