----------------------------- MODULE MC_Digest -----------------------------
(* Small instances of Digest. *)
EXTENDS Digest

=============================================================================
