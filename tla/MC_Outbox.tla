----------------------------- MODULE MC_Outbox -----------------------------
(* Small instances of Outbox. *)
EXTENDS Outbox

CONSTANTS brevo, resend

OneProvider == <<resend>>
Production == <<brevo, resend>>
=============================================================================
