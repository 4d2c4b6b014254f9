-------------------------- MODULE MC_CoursePurchase --------------------------
(* Small instances of CoursePurchase for TLC. *)
EXTENDS CoursePurchase, TLC

\* Requests, orders and methods are interchangeable; no liveness is checked here.
Symmetry == Permutations(Workers) \cup Permutations(Orders) \cup Permutations(Methods)
=============================================================================
