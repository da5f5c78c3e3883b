------------------------ MODULE MCThreadStorageSlots -----------------------
(* ThreadStorageSlots for TLC: threads and buffers are interchangeable.     *)
EXTENDS ThreadStorageSlots, TLC

Symmetry == Permutations(Threads) \cup Permutations(Bufs)
=============================================================================
