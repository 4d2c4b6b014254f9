------------------------ MODULE MC_SessionRotation ------------------------
(***************************************************************************)
(* SessionRotation for TLC: two requests of one browser in flight at once. *)
(***************************************************************************)
EXTENDS SessionRotation, TLC

\* Requests are interchangeable.
Symmetry == Permutations(Requests)

============================================================================
