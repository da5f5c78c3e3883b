-------------------------- MODULE MCSynchronizeRcu --------------------------
(***************************************************************************)
(* Instances of SynchronizeRcu for TLC.                                    *)
(***************************************************************************)
EXTENDS SynchronizeRcu, TLC

\* Tasks are interchangeable where no liveness is checked.
Symmetry == Permutations(Tasks)
=============================================================================
