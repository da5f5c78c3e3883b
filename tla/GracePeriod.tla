---------------------------- MODULE GracePeriod ----------------------------
(***************************************************************************)
(* What synchronize_rcu_serialized promises to the task that runs it: a    *)
(* grace period ends only when every use of data that was unlinked before  *)
(* it began is over.  A use is what a read-side section does with a piece  *)
(* of data after that data has been unlinked (swapped out); no such use    *)
(* can begin later, as the data can no longer be found.                    *)
(*                                                                         *)
(* RcuCore implements this specification, and SynchronizeRcu shares the    *)
(* grace periods it specifies between callers.                             *)
(***************************************************************************)
CONSTANT Uses

VARIABLES
  uses,     \* uses of unlinked data that are going on
  running,  \* is there a grace period?
  waits     \* those it still waits for

Init == uses = {} /\ running = FALSE /\ waits = {}

\* Data that sections use is unlinked.
Unlink == uses' \in SUBSET Uses /\ uses \subseteq uses' /\ UNCHANGED <<running, waits>>

\* Sections end.
EndUses == uses' \in SUBSET uses /\ waits' = waits \cap uses' /\ running' = running

Begin == ~running /\ running' = TRUE /\ waits' = uses /\ uses' = uses

End == running /\ waits = {} /\ running' = FALSE /\ UNCHANGED <<uses, waits>>

\* The future is dropped.
Abandon == running /\ running' = FALSE /\ waits' = {} /\ uses' = uses

Next == Unlink \/ EndUses \/ Begin \/ End \/ Abandon

Spec == Init /\ [][Next]_<<uses, running, waits>>
=============================================================================
