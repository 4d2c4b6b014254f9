----------------------------- MODULE PaidPeriods -----------------------------
(***************************************************************************)
(* What subscription billing promises about money and paid time, without   *)
(* checkouts, proofs, reviewers or gateway events: a payment that has been *)
(* asked for is BOOKED when it is recorded as paid, and booking it grants  *)
(* one paid period in the same step.  A booked payment grants nothing more *)
(* while it stays booked.                                                  *)
(*                                                                         *)
(* A booking can be LOST: the code has two unconditional writes (a         *)
(* customer's cancellation and a reviewer's rejection) that may land on a  *)
(* payment already booked, and a lost booking is what lets the same        *)
(* payment be booked again.  The specification counts losses, so that it   *)
(* says exactly how many periods a payment can have granted.               *)
(***************************************************************************)
EXTENDS Naturals

CONSTANT Payments

VARIABLES
  asked,      \* payments that exist
  booked,     \* payments recorded as paid
  granted,    \* granted[p]: paid periods granted on account of p
  lost        \* lost[p]: times p's booking was overwritten

vars == <<asked, booked, granted, lost>>

Init ==
  /\ asked = {}
  /\ booked = {}
  /\ granted = [p \in Payments |-> 0]
  /\ lost = [p \in Payments |-> 0]

Ask(p) ==
  /\ p \notin asked
  /\ asked' = asked \cup {p}
  /\ UNCHANGED <<booked, granted, lost>>

Book(p) ==
  /\ p \in asked \ booked
  /\ booked' = booked \cup {p}
  /\ granted' = [granted EXCEPT ![p] = @ + 1]
  /\ UNCHANGED <<asked, lost>>

Lose(p) ==
  /\ p \in booked
  /\ booked' = booked \ {p}
  /\ lost' = [lost EXCEPT ![p] = @ + 1]
  /\ UNCHANGED <<asked, granted>>

Next == \E p \in Payments : Ask(p) \/ Book(p) \/ Lose(p)

Spec == Init /\ [][Next]_vars

(***************************************************************************)
(* One period per booking: the periods a payment granted are its lost      *)
(* bookings plus the one that stands.  A payment never lost grants once.   *)
(***************************************************************************)
OnePeriodPerBooking ==
  \A p \in Payments :
    granted[p] = lost[p] + (IF p \in booked THEN 1 ELSE 0)
=============================================================================
