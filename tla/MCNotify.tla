------------------------------- MODULE MCNotify ------------------------------
(* Notify for TLC: futures, notifiers and wakers are interchangeable.        *)
EXTENDS Notify, TLC

Symmetry == Permutations(Waiters) \cup Permutations(Notifiers)
              \cup Permutations(Wakers)
=============================================================================
