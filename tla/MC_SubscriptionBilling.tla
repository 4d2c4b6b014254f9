------------------------ MODULE MC_SubscriptionBilling ------------------------
(* Small instances of SubscriptionBilling. *)
EXTENDS SubscriptionBilling
=============================================================================
