---------------------------- MODULE ThreadState ----------------------------
(***************************************************************************)
(* The packed per-thread state of the rcu book-keeping                     *)
(* (src/rcu_core/thread_state.rs) and the constants of the epoch id        *)
(* (src/rcu_core/epoch.rs).                                                *)
(*                                                                         *)
(* A thread's state is one integer: the last epoch id the thread saw, with *)
(* the busy flag in the least significant bit.  Epoch ids are even and     *)
(* nonzero, so that 0 can stand for a vacant slot.                         *)
(***************************************************************************)
EXTENDS Integers

CONSTANT EPOCH_ID_MAX   \* EpochId::MAX - 1: 254 in test mode, 2^32 - 2 otherwise

EPOCH_ID_MIN == 2

ASSUME EpochMaxAssumption ==
  /\ EPOCH_ID_MAX \in Nat
  /\ EPOCH_ID_MAX % 2 = 0
  /\ EPOCH_ID_MAX >= EPOCH_ID_MIN + 4

\* Valid epoch ids, and the values an epoch id register can hold (0 is the
\* placeholder a thread publishes while it is fetching the epoch id).
EpochIds == {e \in EPOCH_ID_MIN .. EPOCH_ID_MAX : e % 2 = 0}
LastSeenIds == EpochIds \cup {0}

NONE_ENCODED_VALUE == 0

Encode(lastSeen, busy) == lastSeen + (IF busy THEN 1 ELSE 0)

\* The two fields of decode(), for a value other than NONE_ENCODED_VALUE.
LastSeen(encoded) == encoded - (encoded % 2)
IsBusy(encoded)   == encoded % 2 # 0

\* fetch_and(!1) on the packed word.
ClearBusy(encoded) == encoded - (encoded % 2)

EncodedStates == 0 .. (EPOCH_ID_MAX + 1)
=============================================================================
