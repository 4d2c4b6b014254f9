--------------------------- MODULE MC_Provisioning ---------------------------
(* Provisioning for model checking. *)
EXTENDS Provisioning
=============================================================================
