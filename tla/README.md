# Atlas backend: TLA+ models, checks and proofs

Atlas is a multi-tenant learning platform: a NestJS service over PostgreSQL
(Prisma, row level security), Redis and BullMQ queues. Requests run in several
API processes, background work in worker processes. There is no in-memory state
worth modelling: what can go wrong goes wrong between transactions, between a
transaction and a queue, and between a queue and an external service. The
modules here model those gaps.

All paths below are relative to the repository.

## Inventory

| Part | State it keeps | Operations | What is hard | What makes it correct |
|---|---|---|---|---|
| Course commerce (`src/course-commerce`, payment rows of `src/billing`) | `course_orders`, `payments`, `enrollments`, `course_order_refunds`, `revenue_ledger_entries`, `academy_payment_methods` | create order, create payment (Atlas or academy collects), submit proof, approve, reject, refund, expire | READ COMMITTED transactions that read, decide and write; one row lock in one method; expiry finished in a second transaction; two reviewers; two refund paths | one open payment per order, a settled order is never taken back, access is paid for, the ledger is backed |
| Outbox and dispatch (`src/communications`) | `communication_outbox`, `communication_deliveries`, BullMQ jobs, provider quotas in Redis | emit, hint, sweep, claim, decide, send over the provider chain, record, defer, forget | crashes between send and record, lost hints, job ids that survive in the failed set, leases, outcomes written by id | one live sender per row, every row settles, a verdict is final |
| Digests (`src/communications`) | `communication_digests`, `digest_id` of outbox rows | attach to a window, hourly send, claim, release, close | a window closing while a row is being attached; a sender dying with the claim | no row left in a closed window, none in two digests |
| Academy payouts (`src/course-commerce`) | `academy_payouts`, `academy_payout_items` | create payout, mark paid | two payouts created at once over the same entries | an entry is in at most one payout |
| Subscription billing (`src/billing`) | `checkouts`, `payments`, `payment_webhook_events`, webhook jobs | checkout, payment, proof, review, webhook event, cancel | webhook racing a manual review and a cancel; events late, repeated and out of order | one open payment, one sale per checkout, a period granted exactly when a payment is booked |
| Subscription lifecycle (`src/plans`) | `tenant_subscriptions`, `trial_redemptions`, `subscription_cancellations` | trial, purchase, renewal, downgrade, cancel, adjustment, periodic sweep | the sweep decides on a row it read in another transaction | paid time is served, unpaid time is not, capacity is kept, a lapse is written down |
| Identity (`src/identity`) | sessions, refresh tokens, OTP codes, lockouts | sign in, refresh with rotation, revoke, OTP issue and verify | a refresh response lost and retried; two tabs refreshing together | one live token family, reuse detected, no lockout by a benign retry |
| Learning (`src/learning`, `src/learner-sync`) | progress, quiz attempts, device slots, operation ledger | save answers, submit, grade, claim a slot, replay offline operations | time limit racing a submit, replayed and reordered operations | one graded attempt, an operation applied once |
| Provisioning (`src/provisioning`) | `provisioning_requests`, `provisioning_steps`, the academy, BullMQ jobs | create, enqueue, run seven steps, cancel, retry, retry branding, support case | a step failing or a worker dying half way, two workers on one job, a cancel during a step | ready means built, a cancel is final, one support case, a retry settles |
| Domains (`src/domain`) | domain states | verification, TLS | retried external calls | |
| Live sessions, certificates, media, retention | rows with a lifecycle | CRUD, scheduled jobs | mostly single writer | |
| Website, CMS, blog, community, authoring, dashboards, analytics, search, audit | content | CRUD and reads | little control | |

Parts interact through the database, never by messages: a service method calls
`CommunicationService.emit` inside its own transaction (so an outbox row exists
exactly when the business change does) and hints the queue after the commit.
Course commerce writes `payments` through the repository `src/billing` owns.

The full list, with the reason for what is left out, is in `PROJECT.json`
(`components`), and the hazards each property is aimed at under `hazards`.

## Modules

### CoursePurchase

One learner and one course. `order`, `payments`, `enrollment`, `refund` and
`ledger` are the tables; `tx[w]` is what the transaction of request `w` has read.
Every service method is two actions. `Begin...` makes its reads and checks and
keeps what was read; `Commit...` makes all its writes, so any other request may
commit in between. That is READ COMMITTED as the code uses it: a conditional
`updateMany` (`claimPendingReview`, `finishExpiry`) evaluates its condition in
the commit; a plain update by id does not; `SELECT ... FOR UPDATE` in
`createAcademyManualPayment` is `LockFree`, which makes every other writer of the
order wait. `Abort` is a dying process, the 5 s transaction timeout, a refused
unique index or a lost claim: nothing remains.

| Action | Code |
|---|---|
| `BeginCreateOrder`, `CommitCreateOrder` | `CourseOrdersService.createOrder` |
| `BeginAtlasPayment`, `CommitAtlasPayment` | `createPaymentInTransaction` |
| `BeginAcademyPayment`, `CommitAcademyPayment` | `createAcademyManualPayment` |
| `BeginExpiry`, `FinishExpiry` | `createPayment` catching `CourseOrderExpired`, `finishExpiry` |
| `BeginSubmitProof`, `CommitSubmitProof` | `submitProof` |
| `BeginAcademyReview`, `CommitAcademyApprove`, `CommitAcademyReject` | `AcademyCoursePaymentsService.approve`, `reject` |
| `BeginPlatformReview`, `CommitPlatformApprove`, `CommitPlatformReject` | `PlatformCourseOrderPaymentsService.approvePayment`, `rejectPayment` |
| `BeginStudentRefund`, `BeginAcademyRefund`, `CommitRefund` | `requestRefund`, `recordRefund` |
| `SetPaymentMethods` | `AcademyPaymentMethodsService.save` |
| `Lapse` | `expiresAt` passing |

Abstracted: prices are one constant, commissions a small set, the refund window,
seat limits and rejected registrations are requests not made; the emails and
audit rows the methods write are in `Outbox` or left out. The five open payment
statuses are one (`pending`), the only one these methods write.

### Outbox

`row` is `communication_outbox`; `due` stands for `available_at <= now`. A step is
one transaction, one queue operation or one provider call, and `Crash` can
happen between any two. The queue is BullMQ as the producer configures it:
the id is (row, attempts), adding a known id does nothing, completed jobs
disappear, failed ones stay (`removeOnFail: false`), a stalled job is given
another chance `MaxStalls` times. `Elapse` lets a lease or a deferral run out; a
lease of 10 minutes is not outlived by a live holder, because a provider call is
cut off after 10 s and a transaction after 5 s. `emails[r]` counts the emails sent for
a row and `keys[r]` the providers that keep idempotency keys and have seen its key: a
message such a provider has seen before is accepted and dropped.

| Action | Code |
|---|---|
| `Emit`, `EnqueueAfterCommit`, `LoseHint` | `CommunicationService.emit`, `enqueueAfterCommit`, the catch in `enqueueDispatch` |
| `SweepRead`, `SweepEnqueue`, `SweepInterrupted` | `CommunicationDispatchService.sweep` |
| `ForgetEntity` | `CommunicationService.forgetEntity` |
| `Skip`, `DecideSettled`, `DecideCooldown`, `DecideDigest`, `DecideSend`, `DecideFails` | `dispatch`, first transaction (`decide`) |
| `SendAccepted`, `QuotaExhausted`, `SendTransientError`, `SendPermanentError` | `EmailProviderRegistry.send` and the providers |
| `RecordSent`, `RecordSentFails`, `HandleSendFailure`, `DeferForProviderQuota`, `OutcomeLost` | `dispatch`, second transaction |
| `Take`, `Complete`, `Throw`, `Crash` | BullMQ (external) |

### Digest

The digest windows of one recipient and kind. Window `d` ends when `clock`
reaches `d`. `AttachRead`/`AttachCommit` are `attachToDigest` inside the dispatch
transaction; `PlanEmpty`, `PlanSend`, `Send`, `SendError`, `ReleaseDigestClaim`,
`RecordSent` are `sendDigest`; the plan transaction is one step, because its claim
locks the window's row until it commits and an attach updates that row. `Expire`
is the 10 minute lease of a claim whose sender died. `onEnd` is the instant at which
a window ends: the window is then due (`windowEnd <= now`) and still admits rows
(`windowEnd >= now`); `EndPasses` leaves that instant. `late` remembers the rows whose
dispatch transaction chose a window up to its end and committed after it had come.
`emailed[d]` are the items of the emails a provider accepted for a window and `sends[d]`
their number: Brevo drops no repeated key, so a window can be emailed twice.

### SessionRotation and TokenChain

One browser session: the family of refresh tokens in `refresh_tokens`, the Redis
recovery records, and one browser with its cookie. `rows`, `live`, `retired`,
`expires` are the table; `pc[r]`, `tok[r]`, `out[r]` the refresh requests on the
server. The browser awaits one refresh at a time and retries with the cookie it
holds; an abandoned request runs on, so requests for one token overlap. Tokens are
numbered as they are minted, which is the order of `created_at`.

| Action | Code |
|---|---|
| `Refresh`, `Abandon`, `Answer` | the browser, `AuthController.refresh`, `SessionCookieInterceptor` |
| `Claim`, `ClaimNothing`, `ClaimPastMaximum`, `Remember`, `Commit`, `Fail` | `RefreshTokensRepository.rotate`, `RefreshReissueService.remember` |
| `Lookup`, `LookupForeign`, `LookupNothing`, `Confirm`, `OwnerCheck` | `recoverLostRefresh`, `lookup`, `findReissuableSuccessor`, the account check |
| `Reuse`, `Superseded` | `findReusedRotation` with the grace and without |
| `RevokeBegin`, `RevokeEnd` | `revokeSessionForUser` from a refresh |
| `End`, `EndDone` | `signOut`, `signOutByRefreshToken`, `revokeSession`, `revokeAllForUser`, `suspend` |
| `SlowWrite`, `Tick` | a Redis write that outlived its budget; the clock and Redis expiry |

A revoking UPDATE is two steps, its snapshot and its writes, because it waits for
the row a rotation has locked and looks again at that row only. The client binding
is abstracted to whether it still matches (`LookupForeign`). `calm` records that
nothing has gone wrong so far: no failure, no revocation, no token past its expiry,
no retry later than the window, no rotation that outlived the token it mints. Access
tokens and their denylist, the body transport and second sessions of the account are
left out.

`TokenChain` is what all of it amounts to: one token at a time is worth something, it is
exchanged for a token never seen before or it dies, and what is spent stays spent.
`SessionRotation` implements it with `token` = the live row, `spent` = the retired rows
and `from` = the row each was rotated from (`RefinesTokenChain`). Claims, rollbacks,
recoveries, answers and Redis writes are steps it does not see; a commit, the absolute
maximum and a revocation are the ones it does.

### SubscriptionBilling and PaidPeriods

The checkouts and payments of one organization. `checkout`, `pay` and `handled` are
the tables `checkouts`, `payments` and `payment_webhook_events`; `uploads` and
`cancels` are requests between their read and their write, `creating[c]` the method of
the `createPayment` that holds the lock of checkout `c` and `found[c]` the open payments
it has read; `event`, `jobs`, `fails`
are what the gateway sent and the BullMQ queue of it. `granted`, `lost` and
`revived` are history: periods applied, bookings overwritten, closed payments that
a reviewer approved all the same.

| Action | Code |
|---|---|
| `CreateCheckout`, `CheckoutLapses` | `CheckoutService.createCheckout`, `expiresAt` passing |
| `CreatePaymentRead`, `CreatePaymentWrite`, `CreatePaymentAborts` | `PaymentService.createPayment`: lock the checkout, read its open payments; cancel them by id and insert; roll back |
| `SubmitProofRead`, `SubmitProofWrite` | `submitProof`: check, upload, write by id |
| `CancelPaymentRead`, `CancelPaymentWrite` | `cancelPayment`: check, write by id |
| `ApprovePayment`, `RejectPayment` | `PlatformPaymentService`, behind `claimPendingReview` |
| `SendEvent`, `ResendEvent`, `AttemptFails` | the gateway and BullMQ |
| `ProcessEvent` | `PaymentWebhookService.processEvent` |

A handler whose write is conditional on the row it changes is one step; those that
check and then write by id are two. `createPayment` locks the checkout and not the
payments it reads: an event or a rejection that takes no lock on the checkout commits
in between, and the failed or expired payment is then written `cancelled`. A success
completes the checkout and so waits for the lock, which is why a succeeded payment is
never displaced by a new one. `ClosedByGateway` names all three ways out of a terminal
status. A proof submitted in the same gap is cancelled with its payment, although the
comment in `createPayment` says that one awaiting review is never replaced.

`PaidPeriods` is what billing promises about money: a payment is asked for, booked
(granting one period in the same step) and, where an unconditional write lands on
it, its booking is lost and counted. `SubscriptionBilling` implements it with
`asked` = payments that exist and `booked` = payments that are `succeeded`
(`RefinesPaidPeriods`): whichever of the reviewer, the customer and the gateway
comes first, no step books without granting or grants without booking.

### SubscriptionLifecycle

One `tenant_subscriptions` row. Time is a counter, SQL NULL is the date 0. A request
is one transaction under the row's lock or condition; the sweep is `Scan` (read a
due row) and `Write` (apply the transition), and anything may commit in between.
`cancelSubscription` also reads the row unlocked: `CancelRequest` fixes the date the
cancellation is filed under (`quitting`), `CancelSubscription` marks the row that is
there by then.
`owed` and `held` are what the customer was sold, computed from the purchases and
never from the row.

| Action | Code |
|---|---|
| `StartTrial`, `CancelTrial` | trial start, `cancelTrial` |
| `CancelRequest`, `CancelSubscription` | `cancelSubscription`: read, then record and mark |
| `Purchase` | `applyCommercialEffect`, `computePurchaseDates`, `shouldScheduleDowngrade`, `upsertForPlanPurchase` |
| `AdjustDays`, `ChangePlanNow`, `ChangePlanLater` | `PlatformSubscriptionAdjustmentsService` |
| `Scan`, `Write`, `SweepDies` | `SubscriptionExpiryService` and the repository's conditional updates |

The model also shows four things that are no property of the code: a `cancelTrial`
on a row that never had a trial uses up the one record an organization has, so a
trial started later cannot be cancelled; a second purchase of the smaller plan
postpones a downgrade already scheduled; `markTrialExpired` has no condition on
the status and writes over a purchase that committed after the scan (`overtaken`); a
renewal that commits inside `cancelSubscription` is cancelled, and the cancellation is
filed under the end of the period before.

### Provisioning

The requests of one organization for one address, the job of each, the workers and the
owner. `req` and
`rows` are `provisioning_requests` and `provisioning_steps`, `academy` the academy
that has the slug, `job[r]` the BullMQ job with the worker that holds its lock,
`worker[w]` where a worker stands and the copy of the request it read, `calls[r]` the
owner's calls that are between two of their transactions. `done`, `tickets`, `quit`
and `overlap` are history.

| Action | Code |
|---|---|
| `CreateRequest`, `Post`, `PostLost` | `createRequest`: the transaction, the enqueue after it, a process that dies between |
| `Retry`, `RetryBranding`, `RebrandingDone` | `retryAuthorizedRequest`, `retryBrandingStep` |
| `CancelRead`, `CancelWrite` | `cancelAuthorizedRequest`: check, write by id |
| `Start`, `ReadRequest`, `CheckStep`, `MarkRunning`, `CommitStep`, `AdvancePast` | `runToCompletion`, `runOneStep`: one action per transaction |
| `ExecuteStep`, `StepThrows` | `executeStep` |
| `CreateAcademy`, `LinkAcademy`, `AdoptAcademy` | `executeAcademyStep`, `tryAdoptExistingAcademy` |
| `CheckTicket`, `OpenTicket`, `TicketFails` | `createAutoSupportCase` |
| `Take`, `HandOver`, `Crash` | BullMQ (external): next job, expired lock, failed attempt |

`createRequest` refuses an address that another request of the organization holds, under
a lock per address. That no academy has the address is looked up before the
transaction, so `CreateRequest` does not rely on it: a request may start while the
academy of a cancelled one is there, and adopts it.

The steps are numbered; only the academy step, the branding step (whose failure does
not block) and the last one differ in control. `attempts` stops counting at the
threshold, beyond which nothing depends on it.

What the model shows beside the properties: two workers of one request may each open
a support case, although the comment on `createAutoSupportCase` calls its second read
a guard against that (hence `overlap` in `OneTicket`); an API process that dies inside
`retryBrandingStep` leaves the row `running`, and a later retry answers 409; a request
whose enqueue was lost is found by nothing but a retry or a replay; and a cancelled
request's worker can adopt the academy a second request has made and not yet linked,
so that the second one fails.

## Runs

Deadlock is off where the system may simply be finished: a purchase, a row, a
window, a payment, a build. `SubscriptionLifecycle` never stops, because its sweep
recurs.

| Run | Bounds | Result |
|---|---|---|
| `purchase` | 2 orders, 2 payments, 2 requests, 2 methods, the academy switches its collection on and off; 1.0M states | passes |
| `purchase_double_approval` | 2 orders, Atlas collects | `SaleRecordedOnce` violated |
| `outbox` | 1 row, 2 workers, Brevo then Resend, 2 attempts, 1 fault, 2 refusals, fairness; 680K states | passes |
| `outbox_stranded` | 2 faults | `Settles` violated |
| `digest` | 2 items, 3 windows, 2 senders, 3 faults, transactions may cross a window's end, fairness; 394K states | passes |
| `session` | 2 requests, 3 tokens, 2 faults, clock to 2 with window and grace 1, idle limit and maximum 2; 3.9M states | passes |
| `billing` | 1 checkout, 2 payments, 2 methods, 1 event that may be repeated, 2 attempts, fairness; 780K states | passes |
| `billing_double` | the same | `GrantedOnce` violated |
| `lifecycle` | 2 plans, clock to 6, period 2, grace 2, trial, gift and margin 1, 2 purchases, 1 cancellation, 1 adjustment, 1 dying sweep, fairness; 1.8M states | passes |
| `lifecycle_newer` | the same | `NeverOverNewerState` violated |
| `provisioning` | 1 request, 2 workers, 3 steps, threshold 2, 2 attempts, 3 troubles of any kind, fairness; 683K states | passes |
| `provisioning_cancel` | the same | `CancelIsRespected` violated |

Two concurrent requests are enough for every race of `CoursePurchase`: a race
there is one stale read overtaken by one commit; the proofs cover any number. In
`Outbox` two slots let a retry, a sweep and a live holder of one row coexist;
one fault and two refusals let a crash combine with a fallback and a deferral.
In `SessionRotation` three tokens give a rotation, a rolled back one and a second
one, and the clock reaches every verdict on a retired token: re-issued at age 0,
kept at age 1, reuse at age 2, and the first row past the session's maximum.
`MaxAttempts` is 2 or 3 where the code has 6: what matters is a first, a last
and, where needed, an attempt between. In `SubscriptionBilling` two payments of one
checkout are a change of method, and an event sent twice is a late one as well; the
proofs cover any number. In `SubscriptionLifecycle` six ticks hold a trial, two
periods and the grace after them; two purchases are a first one and a renewal,
an upgrade or a downgrade; one cancellation can run beside either, and the proofs
cover any number. In `Provisioning` three steps are the academy's, branding
and the last; three troubles are a failure, its retry failing again, and one more; a
second request (for the adoption race) was tried with one trouble, and `ReadyMeansBuilt`
is proved for any number.

What the violations show is quoted against the repository's own words in
`PROJECT.json` (`findings`). In short: the Platform Owner's approval is not a
claim; a job id kept in the failed set hides a row from the sweep; a customer's
cancellation can overwrite a payment already applied, which a pending review then
applies again; the sweep can move a subscription renewed after it was read; the
outcome of a provisioning step overwrites a cancellation.

Other disagreements the models reach, which have no run of their own:

- Expiry of an order is finished in a transaction of its own (`finishExpiry`), and
  `submitProof` looks at neither status nor expiry: an order can be expired with a
  proof under review, which `docs/ACADEMY_MANUAL_PAYMENTS.md` excludes.
- Two orders of one learner for one course may both be paid; refunding one
  revokes the enrollment they share.
- Brevo has no idempotency key: a crash between its accepting an email and the
  record of it sends the email again (`ExtraEmailsNeedTrouble` bounds how often).
- The outcome of a send in flight is written by id over a row `forgetEntity` has
  settled; `SettledStaysSettled` therefore leaves out the rows it was called for.
- A dispatch transaction that straddles the end of a digest window leaves its row in
  a closed one; `NothingLeftBehind` and `ItemsSettle` say that this is the only way.
- A revocation that waits for a rotation in flight works from an older snapshot and
  does not see the row the rotation commits; `TokenChain` allows a revocation that
  comes too late.
- A webhook job that used up its attempts keeps its id (`removeOnFail: false`), so the
  gateway's redelivery of that event is dropped; `EventSettles` counts the failed set
  as the end of an event.
- A reviewer may approve a payment that was cancelled, failed or expired meanwhile, and
  a second payment of the checkout may have been sold; `OneSalePerCheckout` says that
  this (`revived`) is the only way to sell a checkout twice.

## Fairness

`CoursePurchase` and `SessionRotation` have safety only: nothing there must happen.
`Outbox` assumes weak fairness of the clock (`Elapse`), of the 60 s sweep and of the
workers' own steps (`Take`, `Work`), which is a repeatable BullMQ job and a running
worker process; no fairness of `Emit`, of the hint, or of any fault. `Digest` assumes it
of the clock, of commits of started transactions, of the hourly job and of lease
expiry. `SubscriptionBilling` assumes weak fairness of the end of a `createPayment`, which
has a transaction's time limit, and strong fairness of a job being processed: its write
of the checkout may find the lock taken again and again, but PostgreSQL serves the
waiters of a row in turn. `SubscriptionLifecycle` assumes that the scheduled sweep
recurs; the clock may stop, and nobody is obliged to pay. `Provisioning` assumes weak fairness of a worker's
steps and of the second half of a call, and strong fairness of a request's job being
taken: workers come and go (busy elsewhere, handed a stalled job), so a waiting job is
not continuously takeable, but the queue is served in order. Nobody is obliged to
retry: `RetriedBuildSettles` has the owner's persistence as its premise. Faults are
bounded by constants, so a provider or database that fails for ever is not
considered in the liveness runs.

## Proofs

`CoursePurchaseProofs` proves, for all constants satisfying `ConstantsAssumption`:

- `TypeCorrect` and `OneOpenAcademyPaymentHolds`, from the inductive invariant
  `TypeOK /\ LockInv /\ OneOpenAcademyPayment`. Uniqueness alone is not inductive:
  the committing request cancels only the payments it READ. `LockInv` says that
  what the lock holder read still contains every open academy payment of the
  order (`LockSeesOpen`), because nobody else can hold the lock
  (`LockExclusive`) and only a holder opens one.
- `SettledNeverExpiresHolds`: only `FinishExpiry` writes `expired`, and its WHERE
  clause spares settled orders.
- `RefundBackedBySaleHolds`, `SucceededMeansSettledHolds` and `AccessIsPaidForHolds`,
  from the further invariant `MoneyInv`. A refund is decided on a status read earlier
  and its ledger entries are written later, while another review may change the
  payment's status; so the invariant says that a payment which succeeded, or whose
  refund is in flight, has its sale with its commission in the ledger (`Sold`,
  `LedgerInv`), and that the holder of the order lock still sees the status it read
  (`OrderInv`). `SucceededMeansSettled` and `AccessIsPaidFor` are about orders the
  academy alone collects for. Where Atlas collects neither holds: the payment request
  takes no lock, so one that read the order before an approval and commits after it
  puts the paid order back to awaiting payment (TLC reaches it in ten steps).

`OutboxProofs` proves, for any number of rows, workers and providers:

- `TypeCorrect` and `OneHolderAlways`, from `TypeOK /\ LeaseInv`. A held row is never
  due (`HeldNotDue`): the claim makes it so, `Elapse` waits for the holder, and every
  outcome that makes it due again ends the holder. A claim needs a due row, so
  there is no second holder. `JobsEmitted` keeps `Emit` away from rows with jobs.
- `SettledStaysSettledAlways`: outcomes are written by id and without a condition, so
  finality rests on `HeldWaits`: while a row is held it still waits, unless
  `forgetEntity` settled it.  Each step either leaves a row's state or finds it unsettled
  (`StateMove`), and makes a worker a holder only of a waiting row (`HolderMove`).
- `ExtraEmailsNeedTroubleAlways`, with `MailInv` besides. The bound alone is not inductive:
  one more email could follow when it is already reached. `MailInv` says that as long as
  another one may follow (`Room`: the row's holder has not sent yet, or nobody holds the
  row and it is not settled) the emails sent are no more than the troubles counted. Every
  step makes no room, or counts a trouble, or uses the room (`MailMove`). It needs
  `OneHolder` (one sender uses the room) and `HeldNotDue` (a claim finds room).

`SessionRotationProofs` proves, for any number of requests and tokens and any
window, grace and session length:

- `TypeCorrect`, `ChainNeverForksAlways` and `AnswerIsTheSuccessorAlways`, from
  `TypeOK /\ ChainInv`. The rows are one line in the
  order they were minted (`Line`) whose last row alone can be live (`LastIsLive`),
  and one request at most holds the lock of the live row, with a token newer than
  every row (`OneLock`). Hence the one row newer than a retired token, which is all
  `findReissuableSuccessor` checks, is its direct successor (`OnlyNewerFollows`);
  hence a commit never adds a second live row, nor any to a dead family.
- `Refinement`: `Spec => RefinesTokenChain`, from the same invariant. A commit replaces
  the one live row, which its request has locked, by a row newer than all (`FamilyStep`);
  every other step leaves the live row or removes it. `ChainPromises` draws the
  consequences: a dead family stays dead and a retired token is never live again.
- `PromptRetryKeepsSessionAlways`, for every window that is positive and no longer than
  the grace (`RecoveryOn`; `env.validation.ts` caps the window at 30 s and
  `REFRESH_REUSE_GRACE_MS` is 60 s). `CalmInv` says where a calm session stands: the
  cookie is the live token or the one before it (`OneBehind`); then its record names the
  live row and outlives the window; a rotation under way has recorded the token it will
  commit (`Rotating`); no request carries a token newer than the cookie or retired longer
  ago than the grace (`UnderWay`), so none of them ends the family; the awaited request
  carries the cookie and never reaches the judgement of reuse (`Awaiting`). The
  hypothesis is needed: with a window of 2 and no grace, TLC finds an abandoned request
  that ends the family of a browser which retried in time.

`DigestProofs` proves, for any number of items, windows, senders and faults:

- `TypeCorrect`, `OneSenderAlways`, `InOneEmailAlways`, `SentMeansEmailedAlways` and
  `NothingLeftBehindAlways`. The inductive invariant adds that a sender at work holds
  the claim of an open window that has ended (`SenderInv`), that a row being attached
  is in no window yet and is attached once (`AttachInv`), that an email holds items of
  its own window (`EmailInv`), that a window which may be emailed once more has been
  emailed no more often than there were faults (`SendsInv`), and that what waits in a
  window being sent is in its email or late (`WindowInv`), which is what makes closing the window safe.
- `FinalAlways`, from the same invariant: a closed window keeps its verdict and its email
  and a settled row waits no more, although the outcome of a send is written by id.

`SubscriptionBillingProofs` proves, for any number of checkouts, payments, methods
and events:

- `TypeCorrect`, `OneOpenPaymentAlways`, `OneSaleAlways` and `ClosedByGatewayAlways`,
  from `TypeOK`, `References`, `LockHolds`, `OneOpenPayment`, `OneSalePerCheckout` and
  `SoldIsClosed`. One sale is not inductive alone: a checkout that was sold must have no open
  payment left and take no new one (`SoldIsClosed`), unless a closed payment was
  revived. While a `createPayment` is between its read and its writes, what it has read
  still contains every open payment of its checkout, none of it has succeeded, and the
  checkout is not sold (`LockHolds`): only the lock's holder inserts, and a success
  waits for the lock.
- `Refinement`: `Spec => RefinesPaidPeriods`, every step of billing is a step of
  `PaidPeriods` or none. `PeriodsAreBooked` draws the consequence the ledger states
  (`OnePeriodPerBooking`): a payment has granted as many periods as it has had bookings.

`SubscriptionLifecycleProofs` proves, for any catalogue, any trial, period, grace and
margin, and any number of overlapping sweeps:

- `TypeCorrect`, `TrialIsFirst`, `PaidTimeServed`, `NoFreeService` and
  `SweepOnlyRecords`, from `LifecycleInv`. Its part `RowAgainstBooks` holds whatever the
  sweep does: the row's period and grace never run past what was sold (`SoundRow`), a
  cancelled period is flagged and has no grace. `JobsAreDue` says the same of the row in
  each sweep's hands, and that it was due at an instant that has passed: that is what
  keeps a late write harmless. `Standing` adds, until a sweep has overtaken a change,
  that the period ends exactly when the time sold ends and that a lapsed row had nothing
  left, which gives `PaidTimeIsServed`.
- `DowngradesWait`, from the same invariant and for any catalogue: a plan is replaced by
  one that grants less only by the platform, for a customer without a paid period, within
  the margin of its end, or as the change the row still schedules, once that is due. The
  sweep's part needs `JobsAreDue`: it applies a change it read earlier. This is as far as
  capacity goes in general. `CapacityIsKept`, which compares with the plan bought and not
  with the one in force, is model-checked for two plans of one family and not proved:
  `isLimitDowngrade` compares limit by limit and calls a change a downgrade if any limit
  shrinks, so plans of two families can each grant less than the other (in
  `prisma/seed.ts` one Growth plan has more students, the other more academies), and TLC
  then finds capacity lost early: a purchase, an adjustment of its days, and a purchase
  of the other plan close to the end of the period.

`ProvisioningProofs` proves, for any number of requests, workers, steps and troubles:

- `TypeCorrect`, `RestingCancelAlways`, `ReadyMeansBuiltAlways` and `OneTicketAlways`,
  from `Typed /\ RestInv /\ BuiltInv /\ AloneInv`. `RestInv`: while a request was
  cancelled at rest, no worker is inside a step of it. `BuiltInv`: every step
  before the one a request, or a worker's copy of it, stands at has been done or
  is branding, so writing progress from an old copy moves a request back and never
  past work not done. `AloneInv`: a request that two workers never ran has at most
  one, which holds the job's lock, and a stored case if one was opened.

Only model-checked: liveness (`Settles`, `ItemsSettle`, `EventSettles`,
`LapseIsRecorded`, `RetriedBuildSettles`), which is beyond this prover, and
`CapacityIsKept`, for the reason above. Every other property of a passing run is proved.
Three theorems (`PeriodsAreBooked`, `FinalAlways`, `DowngradesWait`) are not the property
of any run. Each strengthening was checked by TLC on the run's instance, and on larger or
differently chosen ones, before it was proved.

## Not modelled

The repository has about 250,000 lines in 1,350 files, and the models stand for a
small share of them. Most of the rest has no control to model: catalogs and word lists
(the common-password list alone is 47,000 lines), DTOs and validation schemas,
controllers, contracts, seeds, website sections and rendering, reports and
dashboards. What has control is the list below and the parts above; `PROJECT.json`
(`components`) gives the reason for each part left out.

Left for later, in this order:

1. `QuizAttempt`: time limit against submit, replayed offline operations (`src/learning`,
   `src/learner-sync`).
2. `AcademyPayouts` composed with the ledger of `CoursePurchase`.
3. Domain verification and TLS, live sessions, certificates: jobs of the kind
   `Provisioning` already shows.
4. Proofs about the composition of `SubscriptionBilling` with `SubscriptionLifecycle`:
   every booked payment is served.

Not modelled and not planned: rendering, content, storage, analytics, RLS
policies (SQL), HTTP validation, observability.
