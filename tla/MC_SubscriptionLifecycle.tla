----------------------- MODULE MC_SubscriptionLifecycle -----------------------
(* A two-plan catalogue for SubscriptionLifecycle. *)
EXTENDS SubscriptionLifecycle

TwoPlans == {"small", "big"}
BigToSmall == {<<"big", "small">>}
=============================================================================
