----------------------------- MODULE SlotTable -----------------------------
(***************************************************************************)
(* What the slot storage promises to the rest of the crate: one word per   *)
(* thread, vacant until the thread takes a slot, written by nobody but the *)
(* thread.  RcuCore is written in terms of this table.                     *)
(***************************************************************************)
CONSTANTS Threads, States, InitialState, NONE

VARIABLE table

Init == table = [t \in Threads |-> NONE]

Set(t, v) == table' = [table EXCEPT ![t] = v]

\* A slot is taken with its initial state in it: no other state is ever seen
\* in between.
Take(t) == table[t] = NONE /\ Set(t, InitialState)

Put(t, v) == table[t] # NONE /\ Set(t, v)

Give(t) == table[t] # NONE /\ Set(t, NONE)

Next == \E t \in Threads : Take(t) \/ Give(t) \/ \E v \in States : Put(t, v)

Spec == Init /\ [][Next]_table
=============================================================================
