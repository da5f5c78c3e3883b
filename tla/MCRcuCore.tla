----------------------------- MODULE MCRcuCore -----------------------------
(***************************************************************************)
(* Instances of RcuCore for TLC.                                           *)
(***************************************************************************)
EXTENDS RcuCore, TLC

\* Threads of a kind and objects are interchangeable in the safety runs.
Symmetry == Permutations(Roots) \cup Permutations(Threads \ Roots)
              \cup Permutations(Objs)
=============================================================================
