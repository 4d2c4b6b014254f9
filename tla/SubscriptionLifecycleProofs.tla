--------------------- MODULE SubscriptionLifecycleProofs ---------------------
(***************************************************************************)
(* Proofs about SubscriptionLifecycle, for every catalogue, every length   *)
(* of trial, period and grace, and any number of overlapping sweeps.       *)
(*                                                                         *)
(* The inductive invariant relates the row to what was sold.  The part     *)
(* that holds whatever the sweep does (RowAgainstBooks) never lets the row *)
(* run past the time sold; the part that needs the sweep to have written   *)
(* only rows it had read (Standing) makes the two equal.  Both need to     *)
(* know of the row in a sweep's hands that it was due, and was no newer *)
(* than what is owed (JobsAreDue).                                         *)
(***************************************************************************)
EXTENDS SubscriptionLifecycle, TLAPS

Paying == {"active", "grace_period"}

(* Facts of any stored row, the one a sweep holds included. *)
SoundRow(r) ==
  /\ r.status \in Paying => r.periodEnd # None
  /\ r.status = "active" => r.graceEnds = None
  /\ r.status = "trialing" => r.trialEnds # None
  /\ r.schedAt # None => r.schedPlan \in Plans
  /\ r.periodEnd <= owed
  /\ r.graceEnds <= owed + Grace

(* A cancelled period is flagged until it lapses, and never has grace. *)
RowAgainstBooks ==
  /\ SoundRow(row)
  /\ row.status = "active" /\ quit => row.cancel
  /\ row.status = "grace_period" => ~quit
  /\ held.until <= owed

(* The row in a sweep's hands was due at an instant that has passed. *)
JobsAreDue ==
  \A s \in Sweepers :
    /\ sweep[s].at <= now
    /\ sweep[s].seen # NoRow =>
         /\ SoundRow(sweep[s].seen)
         /\ Due(sweep[s].seen, sweep[s].phase, sweep[s].at)

(* Until the sweep has overtaken a change, the row's period ends when the  *)
(* time sold ends, and a row that has lapsed had nothing left.             *)
Standing ==
  ~overtaken =>
    /\ row.status \in Paying => row.periodEnd = owed
    /\ row.status \notin Paying => owed <= now
    /\ row.status = "grace_period" => row.periodEnd <= now

(* A plan is replaced by one that grants less only by the platform, or for *)
(* a customer without a paid period, or within the margin of its end, or   *)
(* as the change that the row still schedules and that is due.  A change   *)
(* is scheduled for the end of a period that is running.                   *)
DowngradeIsDue ==
  /\ <<row.plan, row'.plan>> \in Downgrade =>
       \/ spent'["adjust"] # spent["adjust"]
       \/ row.status \notin Paying
       \/ row.periodEnd <= now + Margin
       \/ row.schedPlan = row'.plan /\ IsPast(row.schedAt, now)
  /\ row'.schedAt \notin {row.schedAt, None} =>
       row'.schedAt = row.periodEnd /\ row.periodEnd > now

LifecycleInv ==
  /\ TypeOK
  /\ TrialComesFirst
  /\ RowAgainstBooks
  /\ JobsAreDue
  /\ Standing
----------------------------------------------------------------------------
(* The constants, as facts for the provers. *)
LEMMA ConstantsAreNat ==
  /\ Period \in Nat /\ Period > 0 /\ Trial \in Nat /\ Trial > 0
  /\ Grace \in Nat /\ Grace > 0 /\ Days \in Nat /\ Days > 0
  /\ Margin \in Nat /\ Gift \in Nat
BY LengthsAreNat, MarginsAreNat

(* The dates the operators compute are dates. *)
LEMMA DatesAreNat ==
  ASSUME NEW r \in Row, now \in Nat
  PROVE  /\ GraceEnd(r) \in Nat
         /\ GiftDays(r) \in Nat
         /\ PurchaseEnd(r) \in Nat
         /\ PurchaseEnd(r) > now
BY ConstantsAreNat DEF Row, GraceEnd, GiftDays, PurchaseEnd, Extends

LEMMA LaterIsLater ==
  ASSUME NEW a \in Nat, NEW b \in Nat
  PROVE  Later(a, b) \in Nat /\ Later(a, b) >= a /\ Later(a, b) >= b
         /\ (a >= b => Later(a, b) = a) /\ (b >= a => Later(a, b) = b)
BY DEF Later

(* A row is not the mark for "no row". *)
LEMMA RowIsARow == ASSUME NEW r \in Row PROVE r # NoRow
BY DEF Row, NoRow, Statuses

(* What transition() can do: nothing, or one of its three writes, each     *)
(* under the condition of its UPDATE.                                      *)
LEMMA TransitionWrites ==
  ASSUME NEW r \in Row, NEW seen \in Row, NEW t \in Nat
  PROVE  \/ Transition(r, seen, t) = r
         \/ /\ Effective(seen, t) = "grace_period"
            /\ r.status = "active" /\ ~r.cancel
            /\ Transition(r, seen, t) =
                 [r EXCEPT !.status = "grace_period", !.graceEnds = GraceEnd(seen)]
         \/ /\ Effective(seen, t) = "cancelled"
            /\ r.status = "active" /\ r.cancel
            /\ Transition(r, seen, t) = [r EXCEPT !.status = "cancelled"]
         \/ /\ Effective(seen, t) = "expired"
            /\ r.status \in Paying
            /\ r.status = "active" => ~r.cancel
            /\ Transition(r, seen, t) =
                 [r EXCEPT !.status = "expired", !.graceEnds = GraceEnd(seen)]
<1>1. CASE Effective(seen, t) = "grace_period"
  BY <1>1 DEF Transition, MarkGraceStarted
<1>2. CASE Effective(seen, t) = "cancelled"
  BY <1>2 DEF Transition, MarkCancelledAtPeriodEnd
<1>3. CASE Effective(seen, t) = "expired"
  BY <1>3 DEF Transition, MarkExpired, Paying
<1>4. CASE Effective(seen, t) \notin {"grace_period", "cancelled", "expired"}
  BY <1>4 DEF Transition
<1> QED BY <1>1, <1>2, <1>3, <1>4

(* What the clock makes of a row whose period scan was due. *)
LEMMA EffectiveOfDue ==
  ASSUME NEW r \in Row, NEW t \in Nat, SoundRow(r), owed \in Nat
  PROVE  /\ Due(r, "periods", t) =>
              /\ r.status = "active" /\ r.graceEnds = None
              /\ r.periodEnd # None /\ r.periodEnd <= t
              /\ GraceEnd(r) = r.periodEnd + Grace
              /\ r.cancel => Effective(r, t) = "cancelled"
              /\ ~r.cancel => Effective(r, t) =
                   IF r.periodEnd + Grace <= t THEN "expired" ELSE "grace_period"
         /\ Due(r, "grace", t) =>
              /\ r.status = "grace_period" /\ r.graceEnds # None
              /\ r.graceEnds <= t /\ GraceEnd(r) = r.graceEnds
              /\ Effective(r, t) = "expired"
BY ConstantsAreNat DEF Due, IsPast, Row, SoundRow, GraceEnd, Effective, Paying, None
----------------------------------------------------------------------------
LEMMA InitEstablishes == Init => LifecycleInv
<1> SUFFICES ASSUME Init PROVE LifecycleInv
  OBVIOUS
<1>1. PICK p \in Plans : row = Bootstrapped(p) /\ held = [plan |-> p, until |-> None]
  BY DEF Init
<1>2. row \in Row /\ row.status = "no_plan" /\ row.periodEnd = None
      /\ row.graceEnds = None /\ row.trialEnds = None /\ row.schedAt = None
  BY <1>1 DEF Bootstrapped, Row, Statuses, None
<1>3. TypeOK
  BY <1>1, <1>2 DEF Init, TypeOK, Job, Idle, Phases, None
<1>4. TrialComesFirst
  BY <1>2 DEF Init, TrialComesFirst
<1>5. RowAgainstBooks
  BY <1>1, <1>2, ConstantsAreNat DEF Init, RowAgainstBooks, SoundRow, Paying, None
<1>6. JobsAreDue
  BY DEF Init, JobsAreDue, Idle, None
<1>7. Standing
  BY <1>1, <1>2 DEF Init, Standing, Paying, None
<1> QED BY <1>3, <1>4, <1>5, <1>6, <1>7 DEF LifecycleInv

(* The rows in the sweeps' hands stay sound when more time is sold and     *)
(* the clock advances.                                                     *)
LEMMA JobsStayDue ==
  ASSUME LifecycleInv, sweep' = sweep, now' \in Nat, now <= now',
         owed' \in Nat, owed <= owed'
  PROVE  JobsAreDue'
<1> SUFFICES ASSUME NEW s \in Sweepers
             PROVE  /\ sweep[s].at <= now'
                    /\ sweep[s].seen # NoRow =>
                         /\ SoundRow(sweep[s].seen)'
                         /\ Due(sweep[s].seen, sweep[s].phase, sweep[s].at)
  BY DEF JobsAreDue, Due, IsPast
<1>1. sweep[s] \in Job /\ now \in Nat /\ owed \in Nat
  BY DEF LifecycleInv, TypeOK
<1>2. sweep[s].at <= now'
  BY <1>1 DEF LifecycleInv, JobsAreDue, Job
<1>3. ASSUME sweep[s].seen # NoRow PROVE SoundRow(sweep[s].seen)'
  <2>1. sweep[s].seen \in Row /\ SoundRow(sweep[s].seen)
    BY <1>1, <1>3 DEF Job, LifecycleInv, JobsAreDue
  <2> QED BY <1>1, <2>1, ConstantsAreNat DEF SoundRow, Row
<1> QED BY <1>2, <1>3 DEF LifecycleInv, JobsAreDue
----------------------------------------------------------------------------
LEMMA TickKeeps == LifecycleInv /\ Tick => LifecycleInv'
<1> SUFFICES ASSUME LifecycleInv, Tick PROVE LifecycleInv'
  OBVIOUS
<1>1. /\ now' = now + 1 /\ now \in Nat /\ owed \in Nat /\ row \in Row
      /\ held \in [plan : Plans, until : Nat]
      /\ UNCHANGED <<row, redeemed, trialQuit, paidQuits, quitting, sweep,
                     spent, owed, held, quit, overtaken>>
  BY DEF LifecycleInv, TypeOK, Tick, claims, books
<1>2. TypeOK'
  BY <1>1 DEF LifecycleInv, TypeOK
<1>3. TrialComesFirst' /\ RowAgainstBooks'
  BY <1>1 DEF LifecycleInv, TrialComesFirst, RowAgainstBooks, SoundRow
<1>4. JobsAreDue'
  BY <1>1, JobsStayDue
<1>5. Standing'
  BY <1>1 DEF LifecycleInv, Standing, Row
<1> QED BY <1>2, <1>3, <1>4, <1>5 DEF LifecycleInv

LEMMA StartTrialKeeps ==
  ASSUME LifecycleInv, NEW p \in Plans, StartTrial(p)
  PROVE  LifecycleInv'
<1>1. /\ now \in Nat /\ owed \in Nat /\ row \in Row
      /\ held \in [plan : Plans, until : Nat]
      /\ UNCHANGED <<now, trialQuit, paidQuits, quitting, sweep, spent, owed,
                     held, quit, overtaken>>
      /\ redeemed' = TRUE
  BY DEF LifecycleInv, TypeOK, StartTrial, books
<1>2. /\ row.status = "no_plan" /\ row' \in Row
      /\ row'.status = "trialing" /\ row'.trialEnds = now + Trial
      /\ row'.periodEnd = row.periodEnd /\ row'.graceEnds = row.graceEnds
      /\ row'.schedAt = row.schedAt /\ row'.schedPlan = row.schedPlan
  <2>1. /\ now + Trial \in Nat /\ row.status = "no_plan"
        /\ row' = [row EXCEPT !.status = "trialing", !.plan = p,
                              !.trialEnds = now + Trial]
    BY <1>1, ConstantsAreNat DEF StartTrial, TrialAllowed
  <2> QED BY <1>1, <2>1 DEF Row, Statuses
<1>3. owed = None /\ held.until = None
  BY <1>1, <1>2 DEF LifecycleInv, TrialComesFirst, RowAgainstBooks, None
<1>4. TypeOK'
  BY <1>1, <1>2 DEF LifecycleInv, TypeOK
<1>5. TrialComesFirst'
  BY <1>1, <1>2, <1>3 DEF TrialComesFirst
<1>6. RowAgainstBooks'
  BY <1>1, <1>2, ConstantsAreNat
     DEF LifecycleInv, RowAgainstBooks, SoundRow, Paying, None
<1>7. JobsAreDue'
  BY <1>1, JobsStayDue
<1>8. Standing'
  BY <1>1, <1>2, <1>3 DEF Standing, Paying, None
<1> QED BY <1>4, <1>5, <1>6, <1>7, <1>8 DEF LifecycleInv

LEMMA CancelTrialKeeps ==
  ASSUME LifecycleInv, CancelTrial
  PROVE  LifecycleInv'
<1>1. /\ now \in Nat /\ owed \in Nat /\ row \in Row
      /\ held \in [plan : Plans, until : Nat]
      /\ UNCHANGED <<now, redeemed, paidQuits, quitting, sweep, spent, owed,
                     held, quit, overtaken>>
      /\ trialQuit' = TRUE
  BY DEF LifecycleInv, TypeOK, CancelTrial, books
<1>2. CASE row.status # "trialing"
  <2>1. row' = row
    BY <1>2 DEF CancelTrial
  <2> QED
    BY <1>1, <2>1, JobsStayDue
       DEF LifecycleInv, TypeOK, TrialComesFirst, RowAgainstBooks, SoundRow,
           Standing
<1>3. CASE row.status = "trialing"
  <2>1. /\ row' \in Row
        /\ row'.status = "cancelled" /\ row'.trialEnds = row.trialEnds
        /\ row'.periodEnd = row.periodEnd /\ row'.graceEnds = row.graceEnds
        /\ row'.schedAt = row.schedAt /\ row'.schedPlan = row.schedPlan
    BY <1>1, <1>3 DEF CancelTrial, Row, Statuses
  <2>2. owed = None /\ held.until = None
    BY <1>1, <1>3 DEF LifecycleInv, TrialComesFirst, RowAgainstBooks, None
  <2>3. TypeOK' /\ TrialComesFirst'
    BY <1>1, <2>1 DEF LifecycleInv, TypeOK, TrialComesFirst
  <2>4. RowAgainstBooks'
    BY <1>1, <2>1 DEF LifecycleInv, RowAgainstBooks, SoundRow, Paying
  <2>5. JobsAreDue'
    BY <1>1, JobsStayDue
  <2>6. Standing'
    BY <1>1, <2>1, <2>2 DEF Standing, Paying, None
  <2> QED BY <2>3, <2>4, <2>5, <2>6 DEF LifecycleInv
<1> QED BY <1>2, <1>3

LEMMA CancelRequestKeeps ==
  ASSUME LifecycleInv, CancelRequest
  PROVE  LifecycleInv'
<1>1. /\ now \in Nat /\ owed \in Nat /\ row \in Row /\ quitting \subseteq Nat
      /\ UNCHANGED <<now, row, redeemed, trialQuit, paidQuits, sweep, owed,
                     held, quit, overtaken>>
      /\ spent' \in [{"buy", "quit", "adjust", "fail"} -> Nat]
      /\ quitting' = quitting \cup {IF row.periodEnd # None THEN row.periodEnd ELSE now}
  BY DEF LifecycleInv, TypeOK, CancelRequest, Spend, books
<1>2. quitting' \subseteq Nat
  BY <1>1 DEF Row
<1>3. TypeOK'
  BY <1>1, <1>2 DEF LifecycleInv, TypeOK
<1>4. TrialComesFirst' /\ RowAgainstBooks' /\ Standing'
  BY <1>1 DEF LifecycleInv, TrialComesFirst, RowAgainstBooks, SoundRow, Standing
<1>5. JobsAreDue'
  BY <1>1, JobsStayDue
<1> QED BY <1>3, <1>4, <1>5 DEF LifecycleInv

LEMMA CancelSubscriptionKeeps ==
  ASSUME LifecycleInv, NEW at \in quitting, CancelSubscription(at)
  PROVE  LifecycleInv'
<1>1. /\ now \in Nat /\ owed \in Nat /\ row \in Row
      /\ held \in [plan : Plans, until : Nat] /\ quit \in BOOLEAN
      /\ paidQuits \subseteq Nat /\ quitting \subseteq Nat
      /\ UNCHANGED <<now, redeemed, trialQuit, sweep, spent, owed, held,
                     overtaken>>
      /\ paidQuits' = paidQuits \cup {at} /\ quitting' = quitting \ {at}
      /\ quit' = (quit \/ row.status = "active")
      /\ row' = MarkPaidCancel(row)
  BY DEF LifecycleInv, TypeOK, CancelSubscription
<1>2. /\ row' \in Row
      /\ row'.status = row.status /\ row'.trialEnds = row.trialEnds
      /\ row'.periodEnd = row.periodEnd /\ row'.graceEnds = row.graceEnds
      /\ row'.plan = row.plan
      /\ row.status \in Paying => row'.cancel = TRUE /\ row'.schedAt = None
      /\ row.status \notin Paying => row' = row
  BY <1>1 DEF MarkPaidCancel, NoSchedule, Row, Paying, None
<1>3. TypeOK'
  <2>1. paidQuits' \subseteq Nat /\ quitting' \subseteq Nat
    BY <1>1
  <2> QED BY <1>1, <1>2, <2>1 DEF LifecycleInv, TypeOK
<1>4. TrialComesFirst'
  BY <1>1, <1>2 DEF LifecycleInv, TrialComesFirst
<1>5. RowAgainstBooks'
  BY <1>1, <1>2 DEF LifecycleInv, RowAgainstBooks, SoundRow, Paying
<1>6. JobsAreDue'
  BY <1>1, JobsStayDue
<1>7. Standing'
  BY <1>1, <1>2 DEF LifecycleInv, Standing
<1> QED BY <1>3, <1>4, <1>5, <1>6, <1>7 DEF LifecycleInv

(* The purchase: a period that is running is extended from its end, which  *)
(* is where the time sold ended; any other purchase starts at once, when   *)
(* nothing sold was left.                                                  *)
LEMMA PurchaseKeeps ==
  ASSUME LifecycleInv, NEW p \in Plans, Purchase(p)
  PROVE  LifecycleInv'
<1> DEFINE end == Later(owed, now) + GiftDays(row) + Period
<1>1. /\ now \in Nat /\ owed \in Nat /\ row \in Row
      /\ held \in [plan : Plans, until : Nat] /\ overtaken \in BOOLEAN
      /\ UNCHANGED <<now, redeemed, trialQuit, paidQuits, quitting, sweep,
                     overtaken>>
      /\ spent' \in [{"buy", "quit", "adjust", "fail"} -> Nat]
      /\ owed' = end /\ quit' = FALSE
      /\ row' = Purchased(row, p)
      /\ held' = IF held.until > now + Margin /\ <<held.plan, p>> \in Downgrade
                 THEN held ELSE [plan |-> p, until |-> end]
  BY DEF LifecycleInv, TypeOK, Purchase, Spend, claims
<1>2. /\ end \in Nat /\ end > now /\ end > owed
      /\ GiftDays(row) \in Nat /\ PurchaseEnd(row) \in Nat /\ PurchaseEnd(row) > now
  <2>1. GiftDays(row) \in Nat /\ PurchaseEnd(row) \in Nat /\ PurchaseEnd(row) > now
    BY <1>1, DatesAreNat
  <2>2. Later(owed, now) \in Nat /\ Later(owed, now) >= owed /\ Later(owed, now) >= now
    BY <1>1, LaterIsLater
  <2> QED BY <1>1, <2>1, <2>2, ConstantsAreNat
<1>3. /\ row' \in Row
      /\ row'.status = "active" /\ row'.trialEnds = None
      /\ row'.graceEnds = None /\ row'.cancel = FALSE
      /\ row'.periodEnd = PurchaseEnd(row)
  <2>1. (row.gifted \/ GiftDays(row) > 0) \in BOOLEAN
    BY <1>1, <1>2 DEF Row
  <2> QED BY <1>1, <1>2 DEF Purchased, Row, Statuses, None
<1>4. /\ Defers(row, p) => /\ row'.plan = row.plan /\ row'.schedPlan = p
                           /\ row'.schedAt = row.periodEnd
      /\ ~Defers(row, p) => /\ row'.plan = p /\ row'.schedPlan = NoPlan
                            /\ row'.schedAt = None
  BY <1>1 DEF Purchased, Row
<1>5. PurchaseEnd(row) <= end
  <2>1. row.periodEnd \in Nat /\ row.periodEnd <= owed
    BY <1>1 DEF LifecycleInv, RowAgainstBooks, SoundRow, Row
  <2> QED BY <1>1, <1>2, <2>1, ConstantsAreNat DEF PurchaseEnd, Later
<1>6. ~overtaken => PurchaseEnd(row) = end
  <2>1. row.periodEnd \in Nat
    BY <1>1 DEF Row
  <2>2. ASSUME ~overtaken
        PROVE  /\ Extends(row) => row.periodEnd = owed /\ owed > now
               /\ ~Extends(row) => owed <= now
    BY <1>1, <2>1, <2>2 DEF LifecycleInv, Standing, Extends, Paying
  <2> QED BY <1>1, <1>2, <2>1, <2>2, ConstantsAreNat DEF PurchaseEnd, Later
<1>7. held' \in [plan : Plans, until : Nat] /\ held'.until <= end
  BY <1>1, <1>2 DEF LifecycleInv, RowAgainstBooks
<1>8. TypeOK'
  BY <1>1, <1>2, <1>3, <1>7 DEF LifecycleInv, TypeOK
<1>9. TrialComesFirst'
  BY <1>3 DEF TrialComesFirst
<1>10. RowAgainstBooks'
  BY <1>1, <1>2, <1>3, <1>4, <1>5, <1>7, ConstantsAreNat
     DEF RowAgainstBooks, SoundRow, Paying, None
<1>11. JobsAreDue'
  BY <1>1, <1>2, JobsStayDue
<1>12. Standing'
  BY <1>1, <1>3, <1>6 DEF Standing, Paying
<1> QED BY <1>8, <1>9, <1>10, <1>11, <1>12 DEF LifecycleInv

LEMMA AdjustDaysKeeps ==
  ASSUME LifecycleInv, AdjustDays
  PROVE  LifecycleInv'
<1>1. /\ now \in Nat /\ owed \in Nat /\ row \in Row
      /\ held \in [plan : Plans, until : Nat] /\ overtaken \in BOOLEAN
      /\ UNCHANGED <<now, redeemed, trialQuit, paidQuits, quitting, sweep, held,
                     quit, overtaken>>
      /\ spent' \in [{"buy", "quit", "adjust", "fail"} -> Nat]
  BY DEF LifecycleInv, TypeOK, AdjustDays, Spend, claims
<1>2. CASE /\ row.status = "trialing"
           /\ row' = [row EXCEPT !.trialEnds = Later(row.trialEnds, now) + Days]
           /\ owed' = owed
  <2>1. Later(row.trialEnds, now) + Days \in Nat \ {0}
    <3>1. row.trialEnds \in Nat
      BY <1>1 DEF Row
    <3> QED BY <1>1, <3>1, ConstantsAreNat DEF Later
  <2>2. /\ row' \in Row
        /\ row'.status = "trialing" /\ row'.trialEnds # None
        /\ row'.periodEnd = row.periodEnd /\ row'.graceEnds = row.graceEnds
        /\ row'.schedAt = row.schedAt /\ row'.schedPlan = row.schedPlan
        /\ row'.plan = row.plan
    BY <1>1, <1>2, <2>1 DEF Row, None
  <2>3. TypeOK' /\ TrialComesFirst'
    BY <1>1, <1>2, <2>2 DEF LifecycleInv, TypeOK, TrialComesFirst
  <2>4. RowAgainstBooks'
    BY <1>1, <1>2, <2>2 DEF LifecycleInv, RowAgainstBooks, SoundRow, Paying
  <2>5. JobsAreDue'
    BY <1>1, <1>2, JobsStayDue
  <2>6. Standing'
    BY <1>1, <1>2, <2>2 DEF LifecycleInv, Standing, Paying
  <2> QED BY <2>3, <2>4, <2>5, <2>6 DEF LifecycleInv
<1>3. CASE /\ row.status \in Paying
           /\ row' = [row EXCEPT !.periodEnd = Later(row.periodEnd, now) + Days,
                                 !.status = "active", !.graceEnds = None]
           /\ owed' = Later(owed, now) + Days
  <2>1. /\ Later(row.periodEnd, now) + Days \in Nat \ {0}
        /\ owed' \in Nat /\ owed < owed'
        /\ Later(row.periodEnd, now) + Days <= owed'
        /\ row.periodEnd = owed => Later(row.periodEnd, now) + Days = owed'
    BY <1>1, <1>3, LaterIsLater, ConstantsAreNat
       DEF Row, LifecycleInv, RowAgainstBooks, SoundRow, Later
  <2>2. /\ row' \in Row
        /\ row'.status = "active" /\ row'.graceEnds = None
        /\ row'.periodEnd = Later(row.periodEnd, now) + Days
        /\ row'.schedAt = row.schedAt /\ row'.schedPlan = row.schedPlan
        /\ row'.plan = row.plan /\ row'.cancel = row.cancel
    BY <1>1, <1>3, <2>1 DEF Row, Statuses, None
  <2>3. TypeOK' /\ TrialComesFirst'
    BY <1>1, <1>3, <2>1, <2>2 DEF LifecycleInv, TypeOK, TrialComesFirst
  <2>4. RowAgainstBooks'
    BY <1>1, <1>3, <2>1, <2>2, ConstantsAreNat
       DEF LifecycleInv, RowAgainstBooks, SoundRow, Paying, None
  <2>5. JobsAreDue'
    BY <1>1, <2>1, JobsStayDue
  <2>6. Standing'
    BY <1>1, <1>3, <2>1, <2>2 DEF LifecycleInv, Standing, Paying
  <2> QED BY <2>3, <2>4, <2>5, <2>6 DEF LifecycleInv
<1> QED BY <1>2, <1>3 DEF AdjustDays, Paying

LEMMA ChangePlanNowKeeps ==
  ASSUME LifecycleInv, NEW p \in Plans, ChangePlanNow(p)
  PROVE  LifecycleInv'
<1>1. /\ now \in Nat /\ owed \in Nat /\ row \in Row
      /\ held \in [plan : Plans, until : Nat]
      /\ UNCHANGED <<now, redeemed, trialQuit, paidQuits, quitting, sweep, owed,
                     quit, overtaken>>
      /\ spent' \in [{"buy", "quit", "adjust", "fail"} -> Nat]
      /\ row' = [NoSchedule(row) EXCEPT !.plan = p]
      /\ held' = [held EXCEPT !.plan = p]
  BY DEF LifecycleInv, TypeOK, ChangePlanNow, Spend, claims
<1>2. /\ row' \in Row
      /\ row'.status = row.status /\ row'.trialEnds = row.trialEnds
      /\ row'.periodEnd = row.periodEnd /\ row'.graceEnds = row.graceEnds
      /\ row'.plan = p /\ row'.cancel = row.cancel /\ row'.schedAt = None
      /\ held' \in [plan : Plans, until : Nat]
      /\ held'.plan = p /\ held'.until = held.until
  BY <1>1 DEF NoSchedule, Row, None
<1>3. TypeOK' /\ TrialComesFirst'
  BY <1>1, <1>2 DEF LifecycleInv, TypeOK, TrialComesFirst
<1>4. RowAgainstBooks'
  BY <1>1, <1>2 DEF LifecycleInv, RowAgainstBooks, SoundRow
<1>5. JobsAreDue'
  BY <1>1, JobsStayDue
<1>6. Standing'
  BY <1>1, <1>2 DEF LifecycleInv, Standing
<1> QED BY <1>3, <1>4, <1>5, <1>6 DEF LifecycleInv

LEMMA ChangePlanLaterKeeps ==
  ASSUME LifecycleInv, NEW p \in Plans, ChangePlanLater(p)
  PROVE  LifecycleInv'
<1>1. /\ now \in Nat /\ owed \in Nat /\ row \in Row
      /\ held \in [plan : Plans, until : Nat]
      /\ UNCHANGED <<now, redeemed, trialQuit, paidQuits, quitting, sweep, owed,
                     held, quit, overtaken>>
      /\ spent' \in [{"buy", "quit", "adjust", "fail"} -> Nat]
      /\ row.status = "active"
      /\ row' = [row EXCEPT !.schedPlan = p, !.schedAt = row.periodEnd]
  BY DEF LifecycleInv, TypeOK, ChangePlanLater, Spend, claims, books
<1>2. /\ row' \in Row
      /\ row'.status = row.status /\ row'.trialEnds = row.trialEnds
      /\ row'.periodEnd = row.periodEnd /\ row'.graceEnds = row.graceEnds
      /\ row'.plan = row.plan /\ row'.cancel = row.cancel
      /\ row'.schedPlan = p /\ row'.schedAt = row.periodEnd
  BY <1>1 DEF Row
<1>3. TypeOK' /\ TrialComesFirst'
  BY <1>1, <1>2 DEF LifecycleInv, TypeOK, TrialComesFirst
<1>4. RowAgainstBooks'
  BY <1>1, <1>2 DEF LifecycleInv, RowAgainstBooks, SoundRow
<1>5. JobsAreDue'
  BY <1>1, JobsStayDue
<1>6. Standing'
  BY <1>1, <1>2 DEF LifecycleInv, RowAgainstBooks, Standing, Paying
<1> QED BY <1>3, <1>4, <1>5, <1>6 DEF LifecycleInv
----------------------------------------------------------------------------
(* A sweep whose entry is replaced by a sound one leaves the others alone. *)
LEMMA JobReplaced ==
  ASSUME LifecycleInv, NEW s \in Sweepers, NEW job \in Job,
         sweep' = [sweep EXCEPT ![s] = job], now' = now, owed' = owed,
         job.at <= now,
         job.seen # NoRow => SoundRow(job.seen) /\ Due(job.seen, job.phase, job.at)
  PROVE  sweep' \in [Sweepers -> Job] /\ JobsAreDue'
<1>1. sweep \in [Sweepers -> Job]
  BY DEF LifecycleInv, TypeOK
<1>2. sweep' \in [Sweepers -> Job]
  BY <1>1
<1>3. ASSUME NEW u \in Sweepers
      PROVE  /\ sweep'[u].at <= now
             /\ sweep'[u].seen # NoRow =>
                  /\ SoundRow(sweep'[u].seen)
                  /\ Due(sweep'[u].seen, sweep'[u].phase, sweep'[u].at)
  <2>1. CASE u = s
    BY <1>1, <2>1
  <2>2. CASE u # s
    <3>1. sweep'[u] = sweep[u]
      BY <1>1, <2>2
    <3> QED BY <3>1 DEF LifecycleInv, JobsAreDue
  <2> QED BY <2>1, <2>2
<1>4. JobsAreDue'
  BY <1>3 DEF JobsAreDue, SoundRow, Due, IsPast
<1> QED BY <1>2, <1>4

LEMMA ScanKeeps ==
  ASSUME LifecycleInv, NEW s \in Sweepers, Scan(s)
  PROVE  LifecycleInv'
<1> DEFINE t == IF sweep[s].phase = "grace" THEN sweep[s].at ELSE now
<1>1. /\ now \in Nat /\ row \in Row /\ sweep[s] \in Job /\ sweep[s].at <= now
      /\ SoundRow(row)
      /\ UNCHANGED <<now, row, redeemed, trialQuit, paidQuits, quitting, spent,
                     owed, held, quit, overtaken>>
  BY DEF LifecycleInv, TypeOK, JobsAreDue, RowAgainstBooks, Scan, claims, books
<1>2. t \in Nat /\ t <= now
  BY <1>1 DEF Job
<1>3. sweep' \in [Sweepers -> Job] /\ JobsAreDue'
  <2>1. CASE Due(row, sweep[s].phase, t)
    <3> DEFINE job == [sweep[s] EXCEPT !.at = t, !.seen = row]
    <3>1. sweep' = [sweep EXCEPT ![s] = job]
      BY <2>1 DEF Scan
    <3>2. job \in Job /\ job.at = t /\ job.seen = row /\ job.phase = sweep[s].phase
      BY <1>1, <1>2 DEF Job
    <3> HIDE DEF job, t
    <3> QED BY <1>1, <1>2, <2>1, <3>1, <3>2, JobReplaced
  <2>2. CASE ~Due(row, sweep[s].phase, t)
    <3> DEFINE job == [phase |-> After[sweep[s].phase], seen |-> NoRow,
                       at |-> IF sweep[s].phase = "periods" THEN t ELSE None]
    <3>1. sweep' = [sweep EXCEPT ![s] = job]
      BY <2>2 DEF Scan
    <3>2. job \in Job /\ job.at <= now /\ job.seen = NoRow
      BY <1>1, <1>2 DEF Job, After, Phases, None
    <3> HIDE DEF job
    <3> QED BY <1>1, <3>1, <3>2, JobReplaced
  <2> QED BY <2>1, <2>2
<1>4. TypeOK'
  BY <1>1, <1>3 DEF LifecycleInv, TypeOK
<1>5. TrialComesFirst' /\ RowAgainstBooks' /\ Standing'
  BY <1>1 DEF LifecycleInv, TrialComesFirst, RowAgainstBooks, SoundRow, Standing
<1> QED BY <1>3, <1>4, <1>5 DEF LifecycleInv

LEMMA SweepDiesKeeps ==
  ASSUME LifecycleInv, NEW s \in Sweepers, SweepDies(s)
  PROVE  LifecycleInv'
<1>1. /\ now \in Nat
      /\ UNCHANGED <<now, row, redeemed, trialQuit, paidQuits, quitting, owed,
                     held, quit, overtaken>>
      /\ spent' \in [{"buy", "quit", "adjust", "fail"} -> Nat]
      /\ sweep' = [sweep EXCEPT ![s] = Idle]
  BY DEF LifecycleInv, TypeOK, SweepDies, Spend, claims, books
<1>2. Idle \in Job /\ Idle.at <= now /\ Idle.seen = NoRow
  BY <1>1 DEF Idle, Job, Phases, None
<1>3. sweep' \in [Sweepers -> Job] /\ JobsAreDue'
  BY <1>1, <1>2, JobReplaced
<1>4. TypeOK'
  BY <1>1, <1>3 DEF LifecycleInv, TypeOK
<1>5. TrialComesFirst' /\ RowAgainstBooks' /\ Standing'
  BY <1>1 DEF LifecycleInv, TrialComesFirst, RowAgainstBooks, SoundRow, Standing
<1> QED BY <1>3, <1>4, <1>5 DEF LifecycleInv

(* The sweep's write: it keeps the row's dates, and closes a period only   *)
(* when the row it read had run out, which under ~overtaken is this row.   *)
LEMMA WriteKeeps ==
  ASSUME LifecycleInv, NEW s \in Sweepers, Write(s)
  PROVE  LifecycleInv'
<1> DEFINE next == [phase |-> After[sweep[s].phase], seen |-> NoRow,
                    at |-> IF sweep[s].phase = "periods" THEN sweep[s].at ELSE None]
<1>1. /\ now \in Nat /\ owed \in Nat /\ row \in Row /\ sweep[s] \in Job
      /\ held \in [plan : Plans, until : Nat] /\ overtaken \in BOOLEAN
      /\ quit \in BOOLEAN
      /\ UNCHANGED <<now, redeemed, trialQuit, paidQuits, quitting, spent, owed,
                     held, quit>>
      /\ sweep' = [sweep EXCEPT ![s] = next]
      /\ overtaken' = (overtaken
           \/ (sweep[s].phase # "plans" /\ row # sweep[s].seen /\ row' # row))
  BY DEF LifecycleInv, TypeOK, Write, claims, books
<1>2. PICK job \in Job : job = sweep[s]
  BY <1>1
<1>3. /\ job.seen \in Row /\ job.at \in Nat /\ job.at <= now
      /\ job.phase \in Phases
      /\ SoundRow(job.seen) /\ Due(job.seen, job.phase, job.at)
  BY <1>2 DEF Write, Job, LifecycleInv, JobsAreDue
<1>4. next \in Job /\ next.at <= now /\ next.seen = NoRow
  BY <1>1, <1>2, <1>3 DEF Job, After, Phases, None
<1>5. sweep' \in [Sweepers -> Job] /\ JobsAreDue'
  <2> HIDE DEF next
  <2> QED BY <1>1, <1>4, JobReplaced
<1>6. ASSUME row' = row
      PROVE  LifecycleInv'
  <2>1. overtaken' = overtaken
    BY <1>1, <1>6
  <2>2. TypeOK'
    BY <1>1, <1>5, <1>6, <2>1 DEF LifecycleInv, TypeOK
  <2>3. TrialComesFirst' /\ RowAgainstBooks' /\ Standing'
    BY <1>1, <1>6, <2>1
       DEF LifecycleInv, TrialComesFirst, RowAgainstBooks, SoundRow, Standing
  <2> QED BY <1>5, <2>2, <2>3 DEF LifecycleInv
<1>7. ASSUME job.phase = "trials"
      PROVE  LifecycleInv'
  <2>1. row' = MarkTrialExpired(row)
    BY <1>2, <1>7 DEF Write
  <2>2. /\ row' \in Row /\ row'.status = "trial_expired"
        /\ row'.periodEnd = row.periodEnd /\ row'.graceEnds = row.graceEnds
        /\ row'.schedAt = row.schedAt /\ row'.schedPlan = row.schedPlan
        /\ row'.plan = row.plan
    BY <1>1, <2>1 DEF MarkTrialExpired, Row, Statuses
  <2>3. TypeOK' /\ TrialComesFirst'
    BY <1>1, <1>5, <2>2 DEF LifecycleInv, TypeOK, TrialComesFirst
  <2>4. RowAgainstBooks'
    BY <1>1, <2>2 DEF LifecycleInv, RowAgainstBooks, SoundRow, Paying
  <2>5. ASSUME ~overtaken', row' # row PROVE row.status = "trialing" /\ ~overtaken
    <3>1. ~overtaken /\ row = job.seen
      BY <1>1, <1>2, <1>7, <2>5
    <3>2. Due(job.seen, "trials", job.at)
      BY <1>3, <1>7
    <3> QED BY <3>1, <3>2 DEF Due
  <2>6. ASSUME row' # row PROVE Standing'
    BY <1>1, <2>2, <2>5, <2>6 DEF LifecycleInv, Standing, TrialComesFirst, Paying, None
  <2> QED BY <1>5, <1>6, <2>3, <2>4, <2>6 DEF LifecycleInv
<1>8. ASSUME job.phase = "plans", row' # row
      PROVE  LifecycleInv'
  <2>1. /\ row.schedPlan = job.seen.schedPlan /\ row.schedAt = job.seen.schedAt
        /\ row' = [NoSchedule(row) EXCEPT !.plan = row.schedPlan]
    BY <1>2, <1>8 DEF Write, ApplyScheduledChange
  <2>2. row.schedAt # None /\ row.schedAt <= now /\ row.schedPlan \in Plans
    BY <1>1, <1>3, <1>8, <2>1
       DEF Due, IsPast, Row, LifecycleInv, RowAgainstBooks, SoundRow
  <2>3. /\ row' \in Row
        /\ row'.status = row.status /\ row'.trialEnds = row.trialEnds
        /\ row'.periodEnd = row.periodEnd /\ row'.graceEnds = row.graceEnds
        /\ row'.plan = row.schedPlan /\ row'.cancel = row.cancel
        /\ row'.schedAt = None
    BY <1>1, <2>1, <2>2 DEF NoSchedule, Row, None
  <2>4. overtaken' = overtaken
    BY <1>1, <1>2, <1>8
  <2>5. TypeOK' /\ TrialComesFirst'
    BY <1>1, <1>5, <2>3, <2>4 DEF LifecycleInv, TypeOK, TrialComesFirst
  <2>6. RowAgainstBooks'
    BY <1>1, <2>3 DEF LifecycleInv, RowAgainstBooks, SoundRow
  <2>7. Standing'
    BY <1>1, <2>3, <2>4 DEF LifecycleInv, Standing
  <2> QED BY <1>5, <2>5, <2>6, <2>7 DEF LifecycleInv
<1>9. ASSUME job.phase \in {"periods", "grace"}, row' # row
      PROVE  LifecycleInv'
  <2>1. row' = Transition(row, job.seen, job.at)
    BY <1>2, <1>9 DEF Write
  <2>2. /\ row.status \in Paying
        /\ \/ /\ row' = [row EXCEPT !.status = "grace_period",
                                    !.graceEnds = GraceEnd(job.seen)]
              /\ Effective(job.seen, job.at) = "grace_period"
              /\ row.status = "active" /\ ~row.cancel
           \/ row' = [row EXCEPT !.status = "cancelled"]
           \/ row' = [row EXCEPT !.status = "expired",
                                 !.graceEnds = GraceEnd(job.seen)]
    <3>1. PICK seen \in Row, at \in Nat : seen = job.seen /\ at = job.at
      BY <1>3
    <3>2. row' = Transition(row, seen, at)
      BY <2>1, <3>1
    <3>3. \/ row' = row
          \/ /\ Effective(seen, at) = "grace_period"
             /\ row.status = "active" /\ ~row.cancel
             /\ row' = [row EXCEPT !.status = "grace_period",
                                   !.graceEnds = GraceEnd(seen)]
          \/ /\ row.status = "active"
             /\ row' = [row EXCEPT !.status = "cancelled"]
          \/ /\ row.status \in Paying
             /\ row' = [row EXCEPT !.status = "expired", !.graceEnds = GraceEnd(seen)]
      BY Zenon, <1>1, <3>2, TransitionWrites
    <3> QED BY <1>9, <3>1, <3>3 DEF Paying
  <2>3. GraceEnd(job.seen) \in Nat /\ GraceEnd(job.seen) <= owed + Grace
    BY <1>1, <1>3, ConstantsAreNat DEF GraceEnd, SoundRow, Row, None
  <2>4. /\ row' \in Row
        /\ row'.trialEnds = row.trialEnds /\ row'.plan = row.plan
        /\ row'.periodEnd = row.periodEnd /\ row'.cancel = row.cancel
        /\ row'.schedAt = row.schedAt /\ row'.schedPlan = row.schedPlan
        /\ row'.graceEnds <= owed + Grace
        /\ row'.status \in {"grace_period", "cancelled", "expired"}
        /\ row'.status = "grace_period" => row.status = "active" /\ ~row.cancel
    <3>1. row.graceEnds <= owed + Grace
      BY DEF LifecycleInv, RowAgainstBooks, SoundRow
    <3>2. PICK end \in Nat : end = GraceEnd(job.seen)
      BY <2>3
    <3>3. CASE row' = [row EXCEPT !.status = "cancelled"]
      BY <1>1, <3>1, <3>3 DEF Row, Statuses
    <3>4. CASE /\ row' = [row EXCEPT !.status = "expired", !.graceEnds = end]
      BY <1>1, <2>3, <3>2, <3>4 DEF Row, Statuses
    <3>5. CASE /\ row' = [row EXCEPT !.status = "grace_period", !.graceEnds = end]
               /\ row.status = "active" /\ ~row.cancel
      BY <1>1, <2>3, <3>2, <3>5 DEF Row, Statuses
    <3> QED BY <2>2, <3>2, <3>3, <3>4, <3>5
  <2>5. TypeOK' /\ TrialComesFirst'
    BY <1>1, <1>5, <2>4 DEF LifecycleInv, TypeOK, TrialComesFirst
  <2>6. RowAgainstBooks'
    BY <1>1, <2>2, <2>4 DEF LifecycleInv, RowAgainstBooks, SoundRow, Paying
  <2>7. ASSUME ~overtaken' PROVE ~overtaken /\ row.periodEnd = owed /\ owed <= now
    <3>1. ~overtaken /\ row = job.seen
      BY <1>1, <1>2, <1>9, <2>7
    <3>2. row.periodEnd = owed
      BY <2>2, <3>1 DEF LifecycleInv, Standing
    <3>3. row.periodEnd <= now
      <4>1. CASE job.phase = "periods"
        <5>1. row.periodEnd <= job.at
          BY <1>1, <1>3, <3>1, <4>1, EffectiveOfDue
        <5> QED BY <1>1, <1>3, <5>1 DEF Row
      <4>2. CASE job.phase = "grace"
        <5>1. row.status = "grace_period"
          BY <1>1, <1>3, <3>1, <4>2, EffectiveOfDue
        <5> QED BY <3>1, <5>1 DEF LifecycleInv, Standing
      <4> QED BY <1>9, <4>1, <4>2
    <3> QED BY <3>1, <3>2, <3>3
  <2>8. Standing'
    BY <1>1, <2>4, <2>7 DEF Standing, Paying
  <2> QED BY <1>5, <2>5, <2>6, <2>8 DEF LifecycleInv
<1> QED BY <1>3, <1>6, <1>7, <1>8, <1>9 DEF Phases
----------------------------------------------------------------------------
LEMMA StutterKeeps == LifecycleInv /\ UNCHANGED vars => LifecycleInv'
<1> SUFFICES ASSUME LifecycleInv, UNCHANGED vars PROVE LifecycleInv'
  OBVIOUS
<1>1. TypeOK' /\ TrialComesFirst' /\ Standing'
  BY DEF vars, LifecycleInv, TypeOK, TrialComesFirst, Standing
<1>2. RowAgainstBooks'
  BY DEF vars, LifecycleInv, RowAgainstBooks, SoundRow
<1>3. JobsAreDue'
  <2>1. now \in Nat /\ owed \in Nat
    BY DEF LifecycleInv, TypeOK
  <2> QED BY <2>1, JobsStayDue DEF vars
<1> QED BY <1>1, <1>2, <1>3 DEF LifecycleInv

(* The disjuncts of Next. *)
LEMMA NextCases ==
  ASSUME Next
  PROVE  \/ Tick \/ CancelTrial \/ CancelRequest \/ AdjustDays
         \/ \E at \in quitting : CancelSubscription(at)
         \/ \E p \in Plans : StartTrial(p)
         \/ \E p \in Plans : Purchase(p)
         \/ \E p \in Plans : ChangePlanNow(p)
         \/ \E p \in Plans : ChangePlanLater(p)
         \/ \E s \in Sweepers : Scan(s)
         \/ \E s \in Sweepers : Write(s)
         \/ \E s \in Sweepers : SweepDies(s)
BY Zenon DEF Next

LEMMA StepKeeps == LifecycleInv /\ [Next]_vars => LifecycleInv'
<1> SUFFICES ASSUME LifecycleInv, [Next]_vars
             PROVE  LifecycleInv'
  OBVIOUS
<1>1. CASE Tick                  BY <1>1, TickKeeps
<1>2. CASE CancelTrial           BY <1>2, CancelTrialKeeps
<1>3. CASE CancelRequest         BY <1>3, CancelRequestKeeps
<1>4. CASE AdjustDays            BY <1>4, AdjustDaysKeeps
<1>5. CASE \E p \in Plans : StartTrial(p)       BY <1>5, StartTrialKeeps
<1>6. CASE \E p \in Plans : Purchase(p)         BY <1>6, PurchaseKeeps
<1>7. CASE \E p \in Plans : ChangePlanNow(p)    BY <1>7, ChangePlanNowKeeps
<1>8. CASE \E p \in Plans : ChangePlanLater(p)  BY <1>8, ChangePlanLaterKeeps
<1>9. CASE \E s \in Sweepers : Scan(s)          BY <1>9, ScanKeeps
<1>10. CASE \E s \in Sweepers : Write(s)        BY <1>10, WriteKeeps
<1>11. CASE \E s \in Sweepers : SweepDies(s)    BY <1>11, SweepDiesKeeps
<1>12. CASE \E at \in quitting : CancelSubscription(at)
  BY <1>12, CancelSubscriptionKeeps
<1>13. CASE UNCHANGED vars       BY <1>13, StutterKeeps
<1> QED
  BY <1>1, <1>2, <1>3, <1>4, <1>5, <1>6, <1>7, <1>8, <1>9, <1>10, <1>11, <1>12,
     <1>13, NextCases

(* The inductive invariant holds in every reachable state, for any number  *)
(* of overlapping sweeps (SubscriptionExpiryService) and any catalogue.    *)
THEOREM LifecycleInvariance == Spec => []LifecycleInv
<1>1. Init => LifecycleInv
  BY InitEstablishes
<1>2. LifecycleInv /\ [Next]_vars => LifecycleInv'
  BY StepKeeps
<1> QED BY <1>1, <1>2, PTL DEF Spec

(* Every row, job and ghost stays in its type; in particular a scheduled   *)
(* change that the sweep applies always names a plan.                      *)
THEOREM TypeCorrect == Spec => []TypeOK
<1>1. LifecycleInv => TypeOK
  BY DEF LifecycleInv
<1> QED BY <1>1, LifecycleInvariance, PTL

(* The free trial comes before any purchase, and comes once.               *)
THEOREM TrialIsFirst == Spec => []TrialComesFirst
<1>1. LifecycleInv => TrialComesFirst
  BY DEF LifecycleInv
<1> QED BY <1>1, LifecycleInvariance, PTL

(* Whoever has paid time left has access, through early renewals, manual   *)
(* adjustments, cancellations and sweeps of any lateness, as long as no    *)
(* sweep has written over a row it had not read.                           *)
THEOREM PaidTimeServed == Spec => []PaidTimeIsServed
<1>1. LifecycleInv => PaidTimeIsServed
  <2> SUFFICES ASSUME LifecycleInv, ~overtaken, now < owed
               PROVE  HasAccess(row, now)
    BY DEF PaidTimeIsServed
  <2>1. row \in Row /\ now \in Nat /\ owed \in Nat
    BY DEF LifecycleInv, TypeOK
  <2>2. row.status = "active" /\ row.periodEnd > now
    BY <2>1 DEF LifecycleInv, Standing, Paying, Row
  <2>3. Effective(row, now) = "active"
    BY <2>1, <2>2 DEF Effective, IsPast, Row
  <2> QED BY <2>3 DEF HasAccess
<1> QED BY <1>1, LifecycleInvariance, PTL

(* Access needs a running trial, time sold that is left, or a grace period *)
(* that was not cancelled and is counted from the end of the time sold,    *)
(* also after a sweep has overtaken a renewal.                             *)
THEOREM NoFreeService == Spec => []NoServiceUnpaid
<1>1. LifecycleInv => NoServiceUnpaid
  <2> SUFFICES ASSUME LifecycleInv, HasAccess(row, now)
               PROVE  \/ row.status = "trialing" /\ owed = None /\ now < row.trialEnds
                      \/ now < owed
                      \/ ~quit /\ owed # None /\ now < owed + Grace
    BY DEF NoServiceUnpaid
  <2>1. /\ row \in Row /\ now \in Nat /\ owed \in Nat /\ quit \in BOOLEAN
        /\ SoundRow(row)
    BY DEF LifecycleInv, TypeOK, RowAgainstBooks
  <2>2. row.status \in {"trialing", "active", "grace_period"}
    BY <2>1 DEF HasAccess, Effective, Row, Statuses
  <2>3. CASE row.status = "trialing"
    BY <2>1, <2>3
       DEF HasAccess, Effective, IsPast, SoundRow, Row, LifecycleInv, TrialComesFirst
  <2>4. CASE row.status = "active"
    <3>1. /\ row.periodEnd \in Nat \ {0} /\ row.periodEnd <= owed
          /\ GraceEnd(row) = row.periodEnd + Grace
      BY <2>1, <2>4 DEF SoundRow, Row, GraceEnd, Paying, None
    <3>2. CASE now < row.periodEnd
      BY <2>1, <3>1, <3>2
    <3>3. CASE row.periodEnd <= now
      <4>1. ~row.cancel /\ ~IsPast(GraceEnd(row), now)
        BY <2>1, <2>4, <3>1, <3>3 DEF HasAccess, Effective, IsPast, Row, None
      <4>2. now < row.periodEnd + Grace /\ ~quit
        BY <2>1, <2>4, <3>1, <4>1, ConstantsAreNat
           DEF IsPast, None, LifecycleInv, RowAgainstBooks
      <4> QED BY <2>1, <3>1, <4>2, ConstantsAreNat DEF None
    <3> QED BY <2>1, <3>1, <3>2, <3>3
  <2>5. CASE row.status = "grace_period"
    <3>1. row.periodEnd \in Nat \ {0} /\ row.periodEnd <= owed /\ row.graceEnds \in Nat
      BY <2>1, <2>5 DEF SoundRow, Row, Paying, None
    <3>2. /\ GraceEnd(row) \in Nat \ {0} /\ GraceEnd(row) <= owed + Grace
      BY <2>1, <3>1, ConstantsAreNat DEF GraceEnd, SoundRow, None
    <3>3. ~IsPast(GraceEnd(row), now) /\ ~quit
      BY <2>1, <2>5
         DEF HasAccess, Effective, Row, LifecycleInv, RowAgainstBooks
    <3> QED BY <2>1, <3>1, <3>2, <3>3, ConstantsAreNat DEF IsPast, None
  <2> QED BY <2>2, <2>3, <2>4, <2>5
<1> QED BY <1>1, LifecycleInvariance, PTL

(* No purchase, cancellation or late sweep takes capacity away early, in   *)
(* any catalogue: a plan that grants less than the one in force waits for  *)
(* the end of the paid period, however the two plans compare with others   *)
(* (shouldScheduleDowngrade), and what a sweep puts in force is the change *)
(* the row still schedules, never one that a purchase has replaced since   *)
(* the sweep read it.                                                      *)
THEOREM DowngradesWait == Spec => [][DowngradeIsDue]_vars
<1>1. LifecycleInv /\ [Next]_vars => [DowngradeIsDue]_vars
  <2> SUFFICES ASSUME LifecycleInv, Next PROVE DowngradeIsDue
    BY Zenon
  <2>1. /\ row \in Row /\ now \in Nat /\ row.plan \in Plans /\ row.periodEnd \in Nat
        /\ <<row.plan, row.plan>> \notin Downgrade
    BY DowngradesAreStrict DEF LifecycleInv, TypeOK, Row
  <2>2. ASSUME row'.plan = row.plan, row'.schedAt \in {row.schedAt, None}
        PROVE  DowngradeIsDue
    BY <2>1, <2>2 DEF DowngradeIsDue
  <2>3. CASE Tick \/ CancelRequest
    BY <2>2, <2>3 DEF Tick, CancelRequest
  <2>4. CASE CancelTrial \/ AdjustDays
    BY <2>1, <2>2, <2>4 DEF CancelTrial, AdjustDays, Row
  <2>5. CASE \E at \in quitting : CancelSubscription(at)
    BY <2>1, <2>2, <2>5 DEF CancelSubscription, MarkPaidCancel, NoSchedule, Row
  <2>6. CASE \E s \in Sweepers : Scan(s) \/ SweepDies(s)
    BY <2>2, <2>6 DEF Scan, SweepDies
  <2>7. ASSUME NEW p \in Plans, StartTrial(p) PROVE DowngradeIsDue
    <3>1. row.status \notin Paying /\ row'.schedAt = row.schedAt
      BY <2>1, <2>7 DEF StartTrial, TrialAllowed, Paying, Row
    <3> QED BY <3>1 DEF DowngradeIsDue
  <2>8. ASSUME NEW p \in Plans, Purchase(p) PROVE DowngradeIsDue
    <3>1. /\ Defers(row, p) => row'.plan = row.plan /\ row'.schedAt = row.periodEnd
          /\ ~Defers(row, p) => row'.plan = p /\ row'.schedAt = None
      BY <2>1, <2>8 DEF Purchase, Purchased, Row
    <3>2. CASE Defers(row, p)
      BY <2>1, <3>1, <3>2 DEF DowngradeIsDue, Defers, Extends
    <3>3. CASE ~Defers(row, p)
      <4>1. \/ <<row.plan, p>> \notin Downgrade
            \/ row.status \notin Paying
            \/ row.periodEnd <= now + Margin
        BY <2>1, <3>3, ConstantsAreNat DEF Defers, Extends, Paying
      <4> QED BY <3>1, <3>3, <4>1 DEF DowngradeIsDue
    <3> QED BY <3>2, <3>3
  <2>9. ASSUME NEW p \in Plans, ChangePlanNow(p) PROVE DowngradeIsDue
    <3>1. spent["adjust"] \in Nat /\ spent'["adjust"] = spent["adjust"] + 1
      BY <2>9 DEF ChangePlanNow, Spend, LifecycleInv, TypeOK
    <3>2. row'.schedAt = None
      BY <2>1, <2>9 DEF ChangePlanNow, NoSchedule, Row
    <3> QED BY <3>1, <3>2 DEF DowngradeIsDue
  <2>10. ASSUME NEW p \in Plans, ChangePlanLater(p) PROVE DowngradeIsDue
    <3>1. /\ row'.plan = row.plan /\ row'.schedAt = row.periodEnd
          /\ row.periodEnd > now
      BY <2>1, <2>10 DEF ChangePlanLater, Row
    <3> QED BY <2>1, <3>1 DEF DowngradeIsDue
  <2>11. ASSUME NEW s \in Sweepers, Write(s) PROVE DowngradeIsDue
    <3>1. PICK job \in Job : job = sweep[s]
      BY DEF LifecycleInv, TypeOK
    <3>2. /\ job.seen \in Row /\ job.at \in Nat /\ job.at <= now
          /\ job.phase \in Phases
          /\ Due(job.seen, job.phase, job.at)
      BY <2>11, <3>1 DEF Write, Job, LifecycleInv, JobsAreDue
    <3>3. CASE job.phase = "plans" /\ row' # row
      <4>1. /\ row.schedPlan = job.seen.schedPlan /\ row.schedAt = job.seen.schedAt
            /\ row' = [NoSchedule(row) EXCEPT !.plan = row.schedPlan]
        BY <2>11, <3>1, <3>3 DEF Write, ApplyScheduledChange
      <4>2. row'.plan = row.schedPlan /\ row'.schedAt = None
        BY <2>1, <4>1 DEF NoSchedule, Row
      <4>3. Due(job.seen, "plans", job.at)
        BY <3>2, <3>3
      <4>4. IsPast(row.schedAt, now)
        BY <2>1, <3>2, <4>1, <4>3 DEF Due, IsPast, Row
      <4> QED BY <4>2, <4>4 DEF DowngradeIsDue
    <3>4. CASE job.phase = "trials"
      <4>1. row' = MarkTrialExpired(row)
        BY <2>11, <3>1, <3>4 DEF Write
      <4> QED BY <2>1, <2>2, <4>1 DEF MarkTrialExpired, Row
    <3>5. CASE job.phase \in {"periods", "grace"}
      <4>1. PICK seen \in Row, at \in Nat : seen = job.seen /\ at = job.at
        BY <3>2
      <4>2. row' = Transition(row, seen, at)
        BY <2>11, <3>1, <3>5, <4>1 DEF Write
      <4>3. row'.plan = row.plan /\ row'.schedAt = row.schedAt
        BY <2>1, <4>2
           DEF Transition, MarkGraceStarted, MarkCancelledAtPeriodEnd, MarkExpired, Row
      <4> QED BY <2>2, <4>3
    <3> QED BY <2>2, <3>2, <3>3, <3>4, <3>5 DEF Phases
  <2> QED
    BY <2>3, <2>4, <2>5, <2>6, <2>7, <2>8, <2>9, <2>10, <2>11, NextCases
<1> QED BY <1>1, LifecycleInvariance, PTL DEF Spec

(* The sweep only records: a job that writes the row it read leaves the    *)
(* status that the clock gives the row as it was.                          *)
THEOREM SweepOnlyRecords == Spec => SweepRecordsOnly
<1>1. LifecycleInv /\ [Next]_vars =>
        [\A s \in Sweepers :
           sweep[s].seen = row /\ sweep'[s] # sweep[s]
             => Effective(row', now) = Effective(row, now)]_vars
  <2> SUFFICES ASSUME LifecycleInv, Next, NEW s \in Sweepers,
                      sweep[s].seen = row, sweep'[s] # sweep[s]
               PROVE  Effective(row', now) = Effective(row, now)
    BY Zenon
  <2>1. row \in Row /\ now \in Nat /\ sweep \in [Sweepers -> Job]
    BY DEF LifecycleInv, TypeOK
  <2>2. CASE row' = row
    BY <2>2
  <2>3. CASE row' # row
    <3>1. Write(s)
      <4>1. sweep' # sweep
        OBVIOUS
      <4>2. PICK u \in Sweepers : Write(u)
        BY <2>3, <4>1, NextCases
           DEF Tick, CancelTrial, CancelRequest, CancelSubscription, AdjustDays,
               StartTrial, Purchase, ChangePlanNow, ChangePlanLater, Scan, SweepDies
      <4> QED BY <2>1, <4>2 DEF Write
    <3>2. PICK job \in Job : job = sweep[s]
      BY <2>1
    <3>3. /\ job.seen = row /\ job.at \in Nat /\ job.at <= now /\ job.phase \in Phases
          /\ SoundRow(row) /\ Due(row, job.phase, job.at) /\ owed \in Nat
      BY <2>1, <3>2, RowIsARow DEF Job, LifecycleInv, TypeOK, JobsAreDue
    <3>4. CASE job.phase = "trials"
      <4>1. Due(row, "trials", job.at)
        BY <3>3, <3>4
      <4>2. row' = [row EXCEPT !.status = "trial_expired"]
        BY <3>1, <3>2, <3>4 DEF Write, MarkTrialExpired
      <4>3. Effective(row', now) = "trial_expired"
        BY <2>1, <4>2 DEF Effective, Row
      <4>4. row.status = "trialing" /\ IsPast(row.trialEnds, now)
        BY <2>1, <3>3, <4>1 DEF Due, IsPast, Row
      <4> QED BY <4>3, <4>4 DEF Effective
    <3>5. CASE job.phase = "plans"
      <4>1. row' = [NoSchedule(row) EXCEPT !.plan = row.schedPlan]
        BY <3>1, <3>2, <3>3, <3>5, <2>3 DEF Write, ApplyScheduledChange
      <4>2. /\ row'.status = row.status /\ row'.trialEnds = row.trialEnds
            /\ row'.periodEnd = row.periodEnd /\ row'.graceEnds = row.graceEnds
            /\ row'.cancel = row.cancel
        BY <2>1, <4>1 DEF NoSchedule, Row
      <4> QED BY <4>2 DEF Effective, GraceEnd
    <3>6. CASE job.phase \in {"periods", "grace"}
      <4>1. row' = Transition(row, row, job.at)
        BY <3>1, <3>2, <3>3, <3>6 DEF Write
      <4>2. CASE job.phase = "periods"
        <5>1. Due(row, "periods", job.at)
          BY <3>3, <4>2
        <5>2. /\ row.status = "active" /\ row.graceEnds = None
              /\ row.periodEnd # None /\ row.periodEnd <= job.at
              /\ GraceEnd(row) = row.periodEnd + Grace
              /\ row.cancel => Effective(row, job.at) = "cancelled"
              /\ ~row.cancel => Effective(row, job.at) =
                   IF row.periodEnd + Grace <= job.at THEN "expired" ELSE "grace_period"
          BY <2>1, <3>3, <5>1, EffectiveOfDue
        <5>3. Due(row, "periods", now)
          BY <2>1, <3>3, <5>1 DEF Due, IsPast, Row
        <5>4. /\ row.cancel => Effective(row, now) = "cancelled"
              /\ ~row.cancel => Effective(row, now) =
                   IF row.periodEnd + Grace <= now THEN "expired" ELSE "grace_period"
          BY <2>1, <3>3, <5>3, EffectiveOfDue
        <5>5. CASE row.cancel
          <6>1. row' = [row EXCEPT !.status = "cancelled"]
            BY <4>1, <5>2, <5>5 DEF Transition, MarkCancelledAtPeriodEnd
          <6>2. Effective(row', now) = "cancelled"
            BY <2>1, <6>1 DEF Effective, Row
          <6> QED BY <5>4, <5>5, <6>2
        <5>6. CASE ~row.cancel /\ row.periodEnd + Grace <= job.at
          <6>1. row' = [row EXCEPT !.status = "expired", !.graceEnds = GraceEnd(row)]
            BY <4>1, <5>2, <5>6 DEF Transition, MarkExpired
          <6>2. Effective(row', now) = "expired"
            BY <2>1, <6>1 DEF Effective, Row
          <6>3. row.periodEnd + Grace <= now
            BY <2>1, <3>3, <5>6, ConstantsAreNat DEF Row
          <6> QED BY <5>4, <5>6, <6>2, <6>3
        <5>7. CASE ~row.cancel /\ ~(row.periodEnd + Grace <= job.at)
          <6>1. row' = [row EXCEPT !.status = "grace_period",
                                   !.graceEnds = row.periodEnd + Grace]
            BY <4>1, <5>2, <5>7 DEF Transition, MarkGraceStarted
          <6>2. row'.status = "grace_period" /\ row'.graceEnds = row.periodEnd + Grace
            BY <2>1, <6>1 DEF Row
          <6>3. row.periodEnd + Grace \in Nat \ {0}
            BY <2>1, ConstantsAreNat DEF Row
          <6>4. GraceEnd(row') = row.periodEnd + Grace
            BY <6>2, <6>3 DEF GraceEnd, None
          <6>5. Effective(row', now) =
                  IF row.periodEnd + Grace <= now THEN "expired" ELSE "grace_period"
            BY <6>2, <6>3, <6>4 DEF Effective, IsPast, None
          <6> QED BY <5>4, <5>7, <6>5
        <5> QED BY <5>5, <5>6, <5>7
      <4>3. CASE job.phase = "grace"
        <5>1. Due(row, "grace", job.at)
          BY <3>3, <4>3
        <5>2. row.status = "grace_period" /\ Effective(row, job.at) = "expired"
          BY <2>1, <3>3, <5>1, EffectiveOfDue
        <5>3. Due(row, "grace", now)
          BY <2>1, <3>3, <5>1 DEF Due, IsPast, Row
        <5>4. Effective(row, now) = "expired"
          BY <2>1, <3>3, <5>3, EffectiveOfDue
        <5>5. row' = [row EXCEPT !.status = "expired", !.graceEnds = GraceEnd(row)]
          BY <4>1, <5>2 DEF Transition, MarkExpired
        <5>6. Effective(row', now) = "expired"
          BY <2>1, <5>5 DEF Effective, Row
        <5> QED BY <5>4, <5>6
      <4> QED BY <3>6, <4>2, <4>3
    <3> QED BY <3>3, <3>4, <3>5, <3>6 DEF Phases
  <2> QED BY <2>2, <2>3
<1> QED BY <1>1, LifecycleInvariance, PTL DEF Spec, SweepRecordsOnly
=============================================================================
