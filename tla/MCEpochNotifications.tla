------------------------ MODULE MCEpochNotifications ------------------------
(***************************************************************************)
(* Instances of EpochNotifications for TLC.                                *)
(***************************************************************************)
EXTENDS EpochNotifications, TLC

\* Threads and wakers are interchangeable.
Symmetry == Permutations(Threads) \cup Permutations(Wakers)
=============================================================================
