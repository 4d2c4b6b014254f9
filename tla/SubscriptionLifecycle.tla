------------------------ MODULE SubscriptionLifecycle ------------------------
(***************************************************************************)
(* The tenant_subscriptions row of one organization: the free trial, paid  *)
(* periods, early renewals, scheduled downgrades, cancellation, the        *)
(* platform's manual adjustments, and the periodic sweep that writes down  *)
(* what the clock has already decided (SubscriptionExpiryService).         *)
(*                                                                         *)
(* A request is one transaction that locks the row or updates it under a   *)
(* condition: one action.  Two do not lock what they read.  The sweep      *)
(* reads a due row in one transaction and writes it in another, and the    *)
(* cancellation of a paid period reads the row before it marks it: each is *)
(* two actions, and anybody may change the row in between.                 *)
(*                                                                         *)
(* Time is a counter that starts at 1; the date 0 is SQL NULL.             *)
(***************************************************************************)
EXTENDS Naturals

CONSTANTS
  Plans,         \* plan ids
  Downgrade,     \* pairs <<from, to>> where "to" grants less
  Period,        \* length of a paid period
  Trial,         \* length of a free trial
  Grace,         \* GRACE_PERIOD_MS
  Margin,        \* SCHEDULED_CHANGE_MIN_DAYS_LEFT
  Gift,          \* gifted setup days of a first purchase
  Days,          \* days one manual adjustment adds
  Sweepers,      \* subscription-sweep jobs that may overlap
  MaxNow,        \* bound on the clock
  MaxPurchases,  \* bound on payments applied
  MaxQuits,      \* bound on requests to cancel a paid period
  MaxAdjust,     \* bound on the platform's adjustments
  MaxFails       \* bound on sweep jobs that die half way

ASSUME LengthsAreNat == {Period, Trial, Grace, Days} \subseteq Nat \ {0}
ASSUME MarginsAreNat == {Margin, Gift} \subseteq Nat
ASSUME BoundsAreNat  ==
  {MaxNow, MaxPurchases, MaxQuits, MaxAdjust, MaxFails} \subseteq Nat
ASSUME DowngradesAreStrict ==
  Downgrade \subseteq Plans \X Plans /\ \A p \in Plans : <<p, p>> \notin Downgrade
ASSUME SomePlan == Plans # {}

VARIABLES
  now,           \* the clock
  row,           \* the tenant_subscriptions row
  redeemed,      \* the owner has a trial_redemptions row
  trialQuit,     \* a subscription_cancellations row of kind trial exists
  paidQuits,     \* effective_at of the rows of kind paid
  quitting,      \* effective_at of the cancellations being written
  sweep,         \* sweep[s]: the phase of the job, the row it read
  spent,         \* spent[k]: how often each bounded kind of step was taken
  owed,          \* the end of the time the customer was sold or granted
  held,          \* the plan bought last, and until when
  quit,          \* the customer cancelled the running period
  overtaken      \* the sweep has written over a row it had not read

vars == <<now, row, redeemed, trialQuit, paidQuits, quitting, sweep, spent,
          owed, held, quit, overtaken>>
claims == <<redeemed, trialQuit, paidQuits, quitting>>
books  == <<owed, held, quit>>
----------------------------------------------------------------------------
None == 0
NoRow == [status |-> "none"]
Statuses == {"no_plan", "trialing", "trial_expired", "active", "grace_period",
             "expired", "cancelled"}
Phases == {"trials", "plans", "periods", "grace"}
NoPlan == "no plan"

Row == [status : Statuses, plan : Plans, trialEnds : Nat, periodEnd : Nat,
        graceEnds : Nat, cancel : BOOLEAN, schedPlan : Plans \cup {NoPlan},
        schedAt : Nat, gifted : BOOLEAN]
Job == [phase : Phases, at : Nat, seen : Row \cup {NoRow}]

TypeOK ==
  /\ now \in Nat
  /\ row \in Row
  /\ redeemed \in BOOLEAN /\ trialQuit \in BOOLEAN
  /\ paidQuits \subseteq Nat /\ quitting \subseteq Nat
  /\ sweep \in [Sweepers -> Job]
  /\ spent \in [{"buy", "quit", "adjust", "fail"} -> Nat]
  /\ owed \in Nat
  /\ held \in [plan : Plans, until : Nat]
  /\ quit \in BOOLEAN /\ overtaken \in BOOLEAN

Idle == [phase |-> "trials", at |-> None, seen |-> NoRow]

(* OrganizationSubscriptionBootstrapService: a row that grants nothing.    *)
Bootstrapped(p) ==
  [status |-> "no_plan", plan |-> p, trialEnds |-> None, periodEnd |-> None,
   graceEnds |-> None, cancel |-> FALSE, schedPlan |-> NoPlan,
   schedAt |-> None, gifted |-> FALSE]

Init ==
  /\ now = 1
  /\ \E p \in Plans : row = Bootstrapped(p) /\ held = [plan |-> p, until |-> None]
  /\ redeemed = FALSE /\ trialQuit = FALSE /\ paidQuits = {} /\ quitting = {}
  /\ sweep = [s \in Sweepers |-> Idle]
  /\ spent = [k \in {"buy", "quit", "adjust", "fail"} |-> 0]
  /\ owed = None
  /\ quit = FALSE /\ overtaken = FALSE
----------------------------------------------------------------------------
(* isPast: a NULL date never is. *)
IsPast(at, t) == at # None /\ at <= t

(* resolveGraceEndsAt: the stored end, else one derived from the period.   *)
GraceEnd(r) ==
  IF r.graceEnds # None THEN r.graceEnds
  ELSE IF r.periodEnd # None THEN r.periodEnd + Grace ELSE None

(* resolveEffectiveSubscriptionStatus. *)
Effective(r, t) ==
  CASE r.status = "trialing" /\ IsPast(r.trialEnds, t) -> "trial_expired"
    [] r.status = "active" /\ IsPast(r.periodEnd, t) /\ r.cancel -> "cancelled"
    [] r.status = "active" /\ IsPast(r.periodEnd, t) /\ ~r.cancel ->
         IF IsPast(GraceEnd(r), t) THEN "expired" ELSE "grace_period"
    [] r.status = "grace_period" /\ IsPast(GraceEnd(r), t) -> "expired"
    [] OTHER -> r.status

(* SubscriptionAccessService.getAccessState. *)
HasAccess(r, t) == Effective(r, t) \in {"trialing", "active", "grace_period"}

Later(a, b) == IF a > b THEN a ELSE b
Spend(k, max) == spent[k] < max /\ spent' = [spent EXCEPT ![k] = @ + 1]
NoSchedule(r) == [r EXCEPT !.schedPlan = NoPlan, !.schedAt = None]

Tick ==
  /\ now < MaxNow
  /\ now' = now + 1
  /\ UNCHANGED <<row, claims, sweep, spent, books, overtaken>>
----------------------------------------------------------------------------
(* Mutant: any row without a trial date may start one. *)
NoTrialDate(r) == r.trialEnds = None

(* The predicate of TenantSubscriptionsRepository.startTrial. *)
TrialAllowed(r) == r.status = "no_plan" /\ r.trialEnds = None

(* startTrial, and the signup that grants a trial: the row's condition and *)
(* the subject's one claim, in one transaction.                            *)
StartTrial(p) ==
  /\ TrialAllowed(row) /\ ~redeemed
  /\ row' = [row EXCEPT !.status = "trialing", !.plan = p,
                        !.trialEnds = now + Trial]
  /\ redeemed' = TRUE
  /\ UNCHANGED <<now, trialQuit, paidQuits, quitting, sweep, spent, books, overtaken>>

(* cancelTrial: the request is recorded whatever the row's status is, and  *)
(* a request that was recorded before changes nothing.                     *)
CancelTrial ==
  /\ ~trialQuit
  /\ trialQuit' = TRUE
  /\ row' = IF row.status = "trialing" THEN [row EXCEPT !.status = "cancelled"]
            ELSE row
  /\ UNCHANGED <<now, redeemed, paidQuits, quitting, sweep, spent, books, overtaken>>

(* markPaidCancelAtPeriodEnd. *)
MarkPaidCancel(r) ==
  IF r.status \in {"active", "grace_period"}
  THEN [NoSchedule(r) EXCEPT !.cancel = TRUE] ELSE r

(* cancelSubscription reads the row without a lock: the request is filed   *)
(* under the end of the period, or under the present instant when there is *)
(* none.  A repeat in one period changes nothing, unless the flag was      *)
(* cleared without moving the period.                                      *)
CancelRequest ==
  LET effectiveAt == IF row.periodEnd # None THEN row.periodEnd ELSE now IN
  /\ Spend("quit", MaxQuits)
  /\ effectiveAt \notin paidQuits \/ ~row.cancel
  /\ quitting' = quitting \cup {effectiveAt}
  /\ UNCHANGED <<now, row, redeemed, trialQuit, paidQuits, sweep, books, overtaken>>

(* What it then marks is the row that is there, by organization: a period  *)
(* bought in between is cancelled, and filed under the date of the one     *)
(* before.                                                                 *)
CancelSubscription(effectiveAt) ==
  /\ quitting' = quitting \ {effectiveAt}
  /\ paidQuits' = paidQuits \cup {effectiveAt}
  /\ row' = MarkPaidCancel(row)
  /\ quit' = (quit \/ row.status = "active")
  /\ UNCHANGED <<now, redeemed, trialQuit, sweep, spent, owed, held, overtaken>>
----------------------------------------------------------------------------
(* applyCommercialEffect: a running paid period is extended.               *)
Extends(r) == r.status \in {"active", "grace_period"} /\ r.periodEnd > now

(* claimFirstPaidGift: the first purchase of an organization only.         *)
GiftDays(r) ==
  IF ~Extends(r) /\ r.periodEnd = None /\ ~r.gifted /\ spent["buy"] = 0
  THEN Gift ELSE 0

(* Mutant: every purchase starts its period at once. *)
PurchaseFromNow(r) == now + GiftDays(r) + Period

(* computePurchaseDates: gifted days come before the period. *)
PurchaseEnd(r) ==
  (IF Extends(r) THEN r.periodEnd ELSE now) + GiftDays(r) + Period

(* shouldScheduleDowngrade. *)
Defers(r, p) ==
  /\ Extends(r)
  /\ r.periodEnd > now + Margin
  /\ <<r.plan, p>> \in Downgrade

(* upsertForPlanPurchase. *)
Purchased(r, p) ==
  [r EXCEPT !.status = "active", !.trialEnds = None, !.graceEnds = None,
            !.cancel = FALSE,
            !.periodEnd = PurchaseEnd(r),
            !.gifted    = r.gifted \/ GiftDays(r) > 0,
            !.plan      = IF Defers(r, p) THEN r.plan ELSE p,
            !.schedPlan = IF Defers(r, p) THEN p ELSE NoPlan,
            !.schedAt   = IF Defers(r, p) THEN r.periodEnd ELSE None]

(* What the customer is owed is computed from what was sold, not from the  *)
(* row: each purchase adds a period to the time that is left, and a larger *)
(* plan stays theirs until the end it was bought for.                      *)
Purchase(p) ==
  /\ Spend("buy", MaxPurchases)
  /\ row' = Purchased(row, p)
  /\ LET end == Later(owed, now) + GiftDays(row) + Period IN
       /\ owed' = end
       /\ held' = IF held.until > now + Margin /\ <<held.plan, p>> \in Downgrade
                  THEN held ELSE [plan |-> p, until |-> end]
  /\ quit' = FALSE
  /\ UNCHANGED <<now, claims, sweep, overtaken>>

(* PlatformSubscriptionAdjustmentsService.adjustDays. *)
AdjustDays ==
  /\ Spend("adjust", MaxAdjust)
  /\ \/ /\ row.status = "trialing"
        /\ row' = [row EXCEPT !.trialEnds = Later(row.trialEnds, now) + Days]
        /\ UNCHANGED owed
     \/ /\ row.status \in {"active", "grace_period"}
        /\ row' = [row EXCEPT !.periodEnd = Later(row.periodEnd, now) + Days,
                              !.status = "active", !.graceEnds = None]
        /\ owed' = Later(owed, now) + Days
  /\ UNCHANGED <<now, claims, sweep, held, quit, overtaken>>

(* changePlan with applyAt "now": in any status, and the platform's        *)
(* decision replaces what the customer had bought.                         *)
ChangePlanNow(p) ==
  /\ Spend("adjust", MaxAdjust)
  /\ row' = [NoSchedule(row) EXCEPT !.plan = p]
  /\ held' = [held EXCEPT !.plan = p]
  /\ UNCHANGED <<now, claims, sweep, owed, quit, overtaken>>

(* changePlan with applyAt "period_end". *)
ChangePlanLater(p) ==
  /\ row.status = "active" /\ row.periodEnd > now
  /\ Spend("adjust", MaxAdjust)
  /\ row' = [row EXCEPT !.schedPlan = p, !.schedAt = row.periodEnd]
  /\ UNCHANGED <<now, claims, sweep, books, overtaken>>
----------------------------------------------------------------------------
(* The sweep: expireDueTrials, applyDueScheduledPlanChanges and the two    *)
(* scans of expireDuePaidPeriods, in this order.  The grace scan reuses    *)
(* the clock reading of the period scan; the others take their own.        *)
After == [trials |-> "plans", plans |-> "periods", periods |-> "grace",
          grace |-> "trials"]

(* findManyDueForTrialExpiry, findManyDueScheduledChanges,                 *)
(* findManyDueForPeriodEnd, findManyDueForGraceExpiry.                     *)
Due(r, phase, t) ==
  CASE phase = "trials"  -> r.status = "trialing" /\ IsPast(r.trialEnds, t)
    [] phase = "plans"   -> IsPast(r.schedAt, t)
    [] phase = "periods" -> r.status = "active" /\ IsPast(r.periodEnd, t)
    [] phase = "grace"   -> r.status = "grace_period" /\ IsPast(r.graceEnds, t)

MarkTrialExpired(r) == [r EXCEPT !.status = "trial_expired"]

(* Mutant: the update names the organization only. *)
ApplyChangeUnguarded(r, seen) == [NoSchedule(r) EXCEPT !.plan = seen.schedPlan]

(* Mutant: it applies the schedule that is there now, which may be none. *)
ApplyChangeFromRow(r, seen) == [NoSchedule(r) EXCEPT !.plan = r.schedPlan]

ApplyScheduledChange(r, seen) ==
  IF r.schedPlan = seen.schedPlan /\ r.schedAt = seen.schedAt
  THEN [NoSchedule(r) EXCEPT !.plan = seen.schedPlan] ELSE r

(* Mutant: a customer who cancelled gets a grace period too. *)
GraceForAnyone(r, end) ==
  IF r.status = "active"
  THEN [r EXCEPT !.status = "grace_period", !.graceEnds = end] ELSE r

MarkGraceStarted(r, end) ==
  IF r.status = "active" /\ ~r.cancel
  THEN [r EXCEPT !.status = "grace_period", !.graceEnds = end] ELSE r

MarkCancelledAtPeriodEnd(r) ==
  IF r.status = "active" /\ r.cancel THEN [r EXCEPT !.status = "cancelled"] ELSE r

(* Mutant: a row the sweep never moved to grace_period is not matched. *)
ExpireFromGraceOnly(r, end) ==
  IF r.status = "grace_period"
  THEN [r EXCEPT !.status = "expired", !.graceEnds = end] ELSE r

MarkExpired(r, end) ==
  IF r.status = "grace_period" \/ (r.status = "active" /\ ~r.cancel)
  THEN [r EXCEPT !.status = "expired", !.graceEnds = end] ELSE r

(* Mutant: a period that is over is closed without grace. *)
TransitionWithoutGrace(r, seen, t) ==
  CASE Effective(seen, t) = "cancelled" -> MarkCancelledAtPeriodEnd(r)
    [] Effective(seen, t) \in {"grace_period", "expired"} ->
         MarkExpired(r, GraceEnd(seen))
    [] OTHER -> r

(* transition(): the destination comes from the row that was read, the     *)
(* condition is evaluated on the row that is there.                        *)
Transition(r, seen, t) ==
  CASE Effective(seen, t) = "grace_period" -> MarkGraceStarted(r, GraceEnd(seen))
    [] Effective(seen, t) = "cancelled" -> MarkCancelledAtPeriodEnd(r)
    [] Effective(seen, t) = "expired" -> MarkExpired(r, GraceEnd(seen))
    [] OTHER -> r

Scan(s) ==
  LET job == sweep[s]
      t == IF job.phase = "grace" THEN job.at ELSE now
  IN
  /\ job.seen = NoRow
  /\ sweep' = [sweep EXCEPT ![s] =
       IF Due(row, job.phase, t) THEN [job EXCEPT !.at = t, !.seen = row]
       ELSE [phase |-> After[job.phase], seen |-> NoRow,
             at |-> IF job.phase = "periods" THEN t ELSE None]]
  /\ UNCHANGED <<now, row, claims, spent, books, overtaken>>

Write(s) ==
  LET job == sweep[s] IN
  /\ job.seen # NoRow
  /\ row' = CASE job.phase = "trials" -> MarkTrialExpired(row)
              [] job.phase = "plans"  -> ApplyScheduledChange(row, job.seen)
              [] OTHER -> Transition(row, job.seen, job.at)
  /\ overtaken' = (overtaken \/ (job.phase # "plans" /\ row # job.seen /\ row' # row))
  /\ sweep' = [sweep EXCEPT ![s] =
       [phase |-> After[job.phase], seen |-> NoRow,
        at |-> IF job.phase = "periods" THEN job.at ELSE None]]
  /\ UNCHANGED <<now, claims, spent, books>>

(* The job dies; the next tick of the scheduler starts from the top. *)
SweepDies(s) ==
  /\ sweep[s] # Idle
  /\ Spend("fail", MaxFails)
  /\ sweep' = [sweep EXCEPT ![s] = Idle]
  /\ UNCHANGED <<now, row, claims, books, overtaken>>

Sweep(s) == Scan(s) \/ Write(s)

Next ==
  \/ Tick \/ CancelTrial \/ CancelRequest \/ AdjustDays
  \/ \E at \in quitting : CancelSubscription(at)
  \/ \E p \in Plans :
       StartTrial(p) \/ Purchase(p) \/ ChangePlanNow(p) \/ ChangePlanLater(p)
  \/ \E s \in Sweepers : Scan(s) \/ Write(s) \/ SweepDies(s)

(* The scheduler runs the sweep on every tick and BullMQ restarts a dead   *)
(* job; nothing obliges a customer or the platform to act.                 *)
Fairness == \A s \in Sweepers : WF_vars(Sweep(s))
Spec == Init /\ [][Next]_vars /\ Fairness
----------------------------------------------------------------------------
(* Time that was sold or granted is served: as long as the sweep has not   *)
(* written over a newer row, a customer with paid time left has access,    *)
(* whatever renewals, cancellations, adjustments and late sweeps happened. *)
PaidTimeIsServed == ~overtaken /\ now < owed => HasAccess(row, now)

(* What the comment on expireDuePaidPeriods promises of a sweep that races *)
(* a renewal: it never moves a row whose period was renewed.               *)
NeverOverNewerState == now < owed => row.status \notin {"grace_period", "expired"}

(* Nobody is served for nothing: access needs a trial that is running, or  *)
(* paid time that ended less than one grace period ago; and a customer who *)
(* cancelled the period gets no grace.                                     *)
NoServiceUnpaid ==
  HasAccess(row, now) =>
    \/ row.status = "trialing" /\ owed = None /\ now < row.trialEnds
    \/ now < owed
    \/ ~quit /\ owed # None /\ now < owed + Grace

(* A larger plan stays the customer's until the end it was bought for: no  *)
(* renewal, early downgrade, cancellation or scheduled change that was     *)
(* read before a newer purchase takes capacity away sooner.                *)
CapacityIsKept ==
  ~overtaken /\ now < held.until => <<held.plan, row.plan>> \notin Downgrade

(* The sweep only records: when it writes the row it read, the status that *)
(* the clock gives the row is the same before and after.  Access therefore *)
(* never depends on how late a sweep runs.                                 *)
SweepRecordsOnly ==
  [][\A s \in Sweepers :
       sweep[s].seen = row /\ sweep'[s] # sweep[s]
         => Effective(row', now) = Effective(row, now)]_vars

(* A lapse is written down: again and again the stored status is the one   *)
(* the clock gives, and no scheduled change stays overdue, also when a     *)
(* sweep dies or skips the intermediate state.                             *)
LapseIsRecorded ==
  []<>(row.status = Effective(row, now) /\ ~IsPast(row.schedAt, now))

(* The free trial is for a customer who never had a plan: nobody who has   *)
(* paid is on trial, and nobody who was ever on trial is "no_plan" again.  *)
TrialComesFirst ==
  /\ row.status = "trialing" => owed = None
  /\ row.status = "no_plan" => owed = None /\ ~redeemed
=============================================================================
