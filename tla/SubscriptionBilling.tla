------------------------- MODULE SubscriptionBilling -------------------------
(***************************************************************************)
(* The subscription checkout of one organization: checkouts, the payments  *)
(* made for them, the customer's proofs and cancellations, the platform    *)
(* reviewer's decision and the gateway's webhook events, down to the one   *)
(* step that turns a payment into a paid period                            *)
(* (PaymentApplicationService.applySuccessfulPayment).                     *)
(*                                                                         *)
(* Every handler is one READ COMMITTED transaction.  A handler whose write *)
(* is conditional on the row it changes (the reviewer's claim, every       *)
(* webhook transition) is one action.  submitProof, cancelPayment and      *)
(* createPayment read payments, decide, and then write by id alone: each   *)
(* is two actions, and other transactions commit in between (submitProof   *)
(* uploads the file in that gap).  createPayment holds the checkout's row  *)
(* lock from its read to its end; only the transactions that write that    *)
(* checkout wait for it.                                                   *)
(***************************************************************************)
EXTENDS Naturals

CONSTANTS
  Checkouts,    \* checkouts the organization may open
  Payments,     \* payment rows
  Methods,      \* payment method keys
  Events,       \* webhook event ids
  EventTypes,   \* webhook event types the gateway sends
  Attempts,     \* BullMQ attempts of a webhook job
  None          \* no checkout, no method, no event yet

ASSUME EventTypesAreKnown ==
  EventTypes \subseteq {"succeeded", "failed", "cancelled", "expired",
                        "processing", "requires_action", "created"}
ASSUME NoneIsNone ==
  /\ None \notin Checkouts \cup Methods
  /\ None \notin [type : EventTypes, pay : Payments]
ASSUME AttemptsPositive == Attempts \in Nat \ {0}

VARIABLES
  checkout,     \* checkout[c]: "none" or checkouts.status
  lapsed,       \* checkouts whose expires_at has passed
  pay,          \* pay[p]: the payment row
  uploads,      \* payments with a submitProof between its read and its write
  cancels,      \* payments with a cancelPayment between its read and its write
  creating,     \* creating[c]: method of the createPayment that holds c's lock
  found,        \* found[c]: the open payments that createPayment has read
  event,        \* event[e]: what the gateway sent under id e, or None
  jobs,         \* event ids waiting in the payment-webhook queue
  fails,        \* fails[e]: failed attempts of e's job
  handled,      \* event ids recorded in payment_webhook_events
  granted,      \* granted[p]: paid periods applied on account of p
  lost,         \* lost[p]: times p left "succeeded"
  revived       \* payments approved after they had been closed unpaid

vars == <<checkout, lapsed, pay, uploads, cancels, creating, found, event, jobs,
          fails, handled, granted, lost, revived>>
creation == <<creating, found>>
customer == <<uploads, cancels, creation>>
gateway  == <<event, jobs, fails, handled>>
books    == <<granted, lost, revived>>
----------------------------------------------------------------------------
NonTerminal == {"created", "pending", "processing", "requires_action",
                "requires_confirmation"}
Terminal    == {"succeeded", "failed", "cancelled", "expired"}

NoPayment == [status |-> "none", review |-> "none", checkout |-> None,
              method |-> None]

Row == [status   : {"none"} \cup NonTerminal \cup Terminal,
        review   : {"none", "not_required", "pending", "approved", "rejected"},
        checkout : Checkouts \cup {None},
        method   : Methods \cup {None}]

TypeOK ==
  /\ checkout \in [Checkouts -> {"none", "draft", "pending_payment", "completed"}]
  /\ lapsed \subseteq Checkouts
  /\ pay \in [Payments -> Row]
  /\ uploads \subseteq Payments
  /\ cancels \subseteq Payments
  /\ creating \in [Checkouts -> Methods \cup {None}]
  /\ found \in [Checkouts -> SUBSET Payments]
  /\ event \in [Events -> [type : EventTypes, pay : Payments] \cup {None}]
  /\ jobs \subseteq Events
  /\ fails \in [Events -> 0..Attempts]
  /\ handled \subseteq Events
  /\ granted \in [Payments -> Nat]
  /\ lost \in [Payments -> Nat]
  /\ revived \subseteq Payments

Init ==
  /\ checkout = [c \in Checkouts |-> "none"]
  /\ lapsed = {}
  /\ pay = [p \in Payments |-> NoPayment]
  /\ uploads = {}
  /\ cancels = {}
  /\ creating = [c \in Checkouts |-> None]
  /\ found = [c \in Checkouts |-> {}]
  /\ event = [e \in Events |-> None]
  /\ jobs = {}
  /\ fails = [e \in Events |-> 0]
  /\ handled = {}
  /\ granted = [p \in Payments |-> 0]
  /\ lost = [p \in Payments |-> 0]
  /\ revived = {}
----------------------------------------------------------------------------
(* CheckoutService.createCheckout; the idempotency key is the checkout. *)
CreateCheckout(c) ==
  /\ checkout[c] = "none"
  /\ checkout' = [checkout EXCEPT ![c] = "draft"]
  /\ UNCHANGED <<lapsed, pay, customer, gateway, books>>

(* Time passes expires_at.  createPayment then writes "expired" and throws *)
(* in the same transaction, so the status itself never reaches the table.  *)
CheckoutLapses(c) ==
  /\ checkout[c] # "none" /\ c \notin lapsed
  /\ lapsed' = lapsed \cup {c}
  /\ UNCHANGED <<checkout, pay, customer, gateway, books>>

(* Mutant: a completed checkout still takes payments. *)
PayableUnlessLapsed(c) == checkout[c] # "none" /\ c \notin lapsed

(* createPayment's checks on the checkout. *)
Payable(c) == checkout[c] \in {"draft", "pending_payment"} /\ c \notin lapsed

(* Row and event ids are interchangeable: a new one is the next unused one. *)
FreshPayment == CHOOSE p \in Payments : pay[p].status = "none"
FreshEvent   == CHOOSE e \in Events : event[e] = None

OpenFor(c) == {q \in Payments : pay[q].checkout = c /\ pay[q].status \in NonTerminal}

(* The row createPayment inserts. *)
NewPayment(c, m) ==
  [status |-> "pending", review |-> "not_required", checkout |-> c, method |-> m]

(* createPayment, up to its writes: it locks the checkout, checks it, and  *)
(* reads the open payments without locking them.  The repeated request (an *)
(* open payment by the same method) and the one refused because another    *)
(* payment is under review change nothing.                                 *)
CreatePaymentRead(c, m) ==
  /\ creating[c] = None
  /\ Payable(c)
  /\ \A q \in OpenFor(c) : pay[q].method # m /\ pay[q].review # "pending"
  /\ creating' = [creating EXCEPT ![c] = m]
  /\ found' = [found EXCEPT ![c] = OpenFor(c)]
  /\ UNCHANGED <<checkout, lapsed, pay, uploads, cancels, gateway, books>>

(* createPayment's transaction ends and the lock is released. *)
Unlock(c) ==
  /\ creating' = [creating EXCEPT ![c] = None]
  /\ found' = [found EXCEPT ![c] = {}]

(* Mutant: the other open payments are left open. *)
CreatePaymentKeepingOthers(c, p) ==
  /\ creating[c] # None
  /\ pay[p].status = "none" /\ p = FreshPayment
  /\ pay' = [pay EXCEPT ![p] = NewPayment(c, creating[c])]
  /\ checkout' = [checkout EXCEPT ![c] = "pending_payment"]
  /\ Unlock(c)
  /\ UNCHANGED <<lapsed, uploads, cancels, gateway, books>>

(* createPayment's writes and its commit: the payments it has read are     *)
(* cancelled by id, whatever has become of them, and the new one inserted. *)
CreatePaymentWrite(c, p) ==
  /\ creating[c] # None
  /\ pay[p].status = "none" /\ p = FreshPayment
  /\ pay' = [q \in Payments |->
               IF q = p THEN NewPayment(c, creating[c])
               ELSE IF q \in found[c] THEN [pay[q] EXCEPT !.status = "cancelled"]
               ELSE pay[q]]
  /\ checkout' = [checkout EXCEPT ![c] = "pending_payment"]
  /\ Unlock(c)
  /\ UNCHANGED <<lapsed, uploads, cancels, gateway, books>>

(* createPayment rolls back: no provider for the method, the five-second   *)
(* limit of an interactive transaction, a deadlock with a success that has *)
(* already marked the payment, or a crash.                                 *)
CreatePaymentAborts(c) ==
  /\ creating[c] # None
  /\ Unlock(c)
  /\ UNCHANGED <<checkout, lapsed, pay, uploads, cancels, gateway, books>>

(* submitProof: the payment is read and found editable, and the file goes  *)
(* to object storage.                                                      *)
SubmitProofRead(p) ==
  /\ pay[p].status \in NonTerminal
  /\ p \notin uploads
  /\ uploads' = uploads \cup {p}
  /\ UNCHANGED <<checkout, lapsed, pay, cancels, creation, gateway, books>>

(* submitProof: the review is opened by a write on the id alone. *)
SubmitProofWrite(p) ==
  /\ p \in uploads
  /\ uploads' = uploads \ {p}
  /\ pay' = [pay EXCEPT ![p] = [pay[p] EXCEPT !.review = "pending"]]
  /\ UNCHANGED <<checkout, lapsed, cancels, creation, gateway, books>>

CancelPaymentRead(p) ==
  /\ pay[p].status \in NonTerminal
  /\ p \notin cancels
  /\ cancels' = cancels \cup {p}
  /\ UNCHANGED <<checkout, lapsed, pay, uploads, creation, gateway, books>>

(* A payment that stops being "succeeded" is a booking lost. *)
Overwrite(p) ==
  lost' = [lost EXCEPT ![p] = IF pay[p].status = "succeeded" THEN @ + 1 ELSE @]

(* cancelPayment: status = "cancelled" by id alone; the review is left. *)
CancelPaymentWrite(p) ==
  /\ p \in cancels
  /\ cancels' = cancels \ {p}
  /\ pay' = [pay EXCEPT ![p] = [pay[p] EXCEPT !.status = "cancelled"]]
  /\ Overwrite(p)
  /\ UNCHANGED <<checkout, lapsed, uploads, creation, gateway, granted, revived>>
----------------------------------------------------------------------------
(* markSucceededIfNotAlready: which statuses the conditional UPDATE takes. *)
MayMarkSucceeded(p, fromNonTerminalOnly) ==
  IF fromNonTerminalOnly THEN pay[p].status \in NonTerminal
                         ELSE pay[p].status # "succeeded"

(* Mutant: the payment is marked and the commercial effect forgotten. *)
MarkWithoutEffect(p, row, fromNonTerminalOnly) ==
  /\ pay' = [pay EXCEPT ![p] =
               IF MayMarkSucceeded(p, fromNonTerminalOnly)
               THEN [row EXCEPT !.status = "succeeded"] ELSE row]
  /\ UNCHANGED <<checkout, granted>>

(* applySuccessfulPayment: the transition into "succeeded", the checkout   *)
(* completed and the paid period granted, or nothing at all.  `row' is the *)
(* payment as the caller's own transaction has already changed it.  The    *)
(* write of the checkout waits for the createPayment that holds its lock.  *)
ApplySuccessfulPayment(p, row, fromNonTerminalOnly) ==
  IF MayMarkSucceeded(p, fromNonTerminalOnly)
  THEN /\ creating[row.checkout] = None
       /\ pay' = [pay EXCEPT ![p] = [row EXCEPT !.status = "succeeded"]]
       /\ checkout' = [checkout EXCEPT ![row.checkout] = "completed"]
       /\ granted' = [granted EXCEPT ![p] = @ + 1]
  ELSE /\ pay' = [pay EXCEPT ![p] = row]
       /\ UNCHANGED <<checkout, granted>>

(* claimPendingReview: the one conditional write that makes a review happen *)
ClaimPendingReview(p) == pay[p].review = "pending"

(* PlatformPaymentService.approvePayment *)
ApprovePayment(p) ==
  /\ ClaimPendingReview(p)
  /\ ApplySuccessfulPayment(p, [pay[p] EXCEPT !.review = "approved"], FALSE)
  /\ revived' = IF pay[p].status \in Terminal \ {"succeeded"}
                THEN revived \cup {p} ELSE revived
  /\ UNCHANGED <<lapsed, customer, gateway, lost>>

(* PlatformPaymentService.rejectPayment: applyFailedPayment writes by id. *)
RejectPayment(p) ==
  /\ ClaimPendingReview(p)
  /\ pay' = [pay EXCEPT ![p] = [pay[p] EXCEPT !.review = "rejected", !.status = "failed"]]
  /\ Overwrite(p)
  /\ UNCHANGED <<checkout, lapsed, customer, gateway, granted, revived>>
----------------------------------------------------------------------------
(* The gateway sends event e about payment p, in any order it likes. *)
SendEvent(e, t, p) ==
  /\ event[e] = None /\ e = FreshEvent
  /\ pay[p].status # "none"
  /\ event' = [event EXCEPT ![e] = [type |-> t, pay |-> p]]
  /\ jobs' = jobs \cup {e}
  /\ UNCHANGED <<checkout, lapsed, pay, customer, fails, handled, books>>

(* ... and may send it again.  A job id still in Redis is not added twice:  *)
(* a job that has used up its attempts is kept (removeOnFail: false).      *)
ResendEvent(e) ==
  /\ event[e] # None
  /\ e \notin jobs /\ fails[e] < Attempts
  /\ jobs' = jobs \cup {e}
  /\ UNCHANGED <<checkout, lapsed, pay, customer, event, fails, handled, books>>

(* Mutant: the attempt limit is not applied. *)
AttemptFailsForEver(e) ==
  /\ e \in jobs
  /\ fails' = [fails EXCEPT ![e] = @ + 1]
  /\ UNCHANGED <<checkout, lapsed, pay, customer, event, jobs, handled, books>>

(* An attempt fails: the database, or a throw of applyCommercialEffect     *)
(* that rolls the transaction back, the event's own row included.          *)
AttemptFails(e) ==
  /\ e \in jobs
  /\ fails' = [fails EXCEPT ![e] = @ + 1]
  /\ jobs' = IF fails[e] + 1 = Attempts THEN jobs \ {e} ELSE jobs
  /\ UNCHANGED <<checkout, lapsed, pay, customer, event, handled, books>>

(* Mutant: an event's status is written whatever the payment's own. *)
TransitionAlways(p, s) == pay' = [pay EXCEPT ![p].status = s]

(* transitionIfNonTerminal *)
TransitionIfNonTerminal(p, s) ==
  pay' = IF pay[p].status \in NonTerminal
         THEN [pay EXCEPT ![p] = [pay[p] EXCEPT !.status = s]] ELSE pay

(* Mutant: a job for an event without a transition ends unrecorded. *)
RecordedIfApplied(e) ==
  IF event[e].type = "created" THEN handled ELSE handled \cup {e}

(* tryInsert: the event's row, once per (provider, event id). *)
Recorded(e) == handled \cup {e}

(* PaymentWebhookService.processEvent *)
ProcessEvent(e) ==
  LET t == event[e].type
      p == event[e].pay
  IN /\ e \in jobs
     /\ jobs' = jobs \ {e}
     /\ fails' = [fails EXCEPT ![e] = 0]
     /\ handled' = Recorded(e)
     /\ IF e \in handled \/ t = "created"
        THEN UNCHANGED <<pay, checkout, granted>>
        ELSE IF t = "succeeded"
             THEN ApplySuccessfulPayment(p, pay[p], TRUE)
             ELSE /\ TransitionIfNonTerminal(p, t)
                  /\ UNCHANGED <<checkout, granted>>
     /\ UNCHANGED <<lapsed, customer, event, lost, revived>>
----------------------------------------------------------------------------
Customer ==
  \/ \E c \in Checkouts : CreateCheckout(c)
  \/ \E c \in Checkouts, m \in Methods : CreatePaymentRead(c, m)
  \/ \E c \in Checkouts, p \in Payments : CreatePaymentWrite(c, p)
  \/ \E c \in Checkouts : CreatePaymentAborts(c)
  \/ \E p \in Payments : SubmitProofRead(p)
  \/ \E p \in Payments : SubmitProofWrite(p)
  \/ \E p \in Payments : CancelPaymentRead(p)
  \/ \E p \in Payments : CancelPaymentWrite(p)

Reviewer == \E p \in Payments : ApprovePayment(p) \/ RejectPayment(p)

Gateway ==
  \/ \E e \in Events, t \in EventTypes, p \in Payments : SendEvent(e, t, p)
  \/ \E e \in Events : ResendEvent(e)
  \/ \E e \in Events : AttemptFails(e)

Next ==
  \/ Customer
  \/ Reviewer
  \/ Gateway
  \/ \E e \in Events : ProcessEvent(e)
  \/ \E c \in Checkouts : CheckoutLapses(c)

(* createPayment, once it holds the lock, commits or is rolled back. *)
CreatePaymentEnds(c) ==
  CreatePaymentAborts(c) \/ \E p \in Payments : CreatePaymentWrite(c, p)

(* A transaction ends within its time limit, and the worker takes every    *)
(* job in the queue.  A job that waits for a checkout's lock is served     *)
(* before those that come after it (PostgreSQL queues the waiters of a     *)
(* row), however many createPayments follow each other: strong fairness.   *)
Fairness ==
  /\ \A c \in Checkouts : WF_vars(CreatePaymentEnds(c))
  /\ \A e \in Events : SF_vars(ProcessEvent(e))

Spec == Init /\ [][Next]_vars /\ Fairness
----------------------------------------------------------------------------
(***************************************************************************)
(* Two tabs, a changed payment method or a late webhook never leave two    *)
(* payments of one checkout open at once (createPayment's lock and its     *)
(* cancellation of the other open payments).                               *)
(***************************************************************************)
OneOpenPayment == \A c \in Checkouts : \A p, q \in OpenFor(c) : p = q

(***************************************************************************)
(* One checkout is sold once.  Without a reviewer's approval of a payment  *)
(* that had been cancelled, failed or expired, at most one of a checkout's *)
(* payments grants a paid period, and grants it once, whichever of the     *)
(* customer, the reviewer and the gateway acts first or last.              *)
(***************************************************************************)
OneSalePerCheckout ==
  \A c \in Checkouts :
    LET of == {p \in Payments : pay[p].checkout = c}
    IN of \cap revived = {} =>
         /\ \A p \in of : granted[p] <= 1
         /\ \A p, q \in of : granted[p] > 0 /\ granted[q] > 0 => p = q

(***************************************************************************)
(* applySuccessfulPayment's promise, to the letter: "a second paid period  *)
(* can never be stacked onto one payment".                                 *)
(***************************************************************************)
GrantedOnce == \A p \in Payments : granted[p] <= 1

(***************************************************************************)
(* Late and repeated events are monotonic: no webhook event moves a        *)
(* payment that has reached a terminal status.  It leaves that status only *)
(* by a cancellation that was already in flight, by a reviewer's decision  *)
(* on a pending review, or by a createPayment that had read it while it    *)
(* was open, and that one only turns failed or expired into cancelled:     *)
(* a succeeded payment is never displaced by a new one.                    *)
(***************************************************************************)
ClosedByGateway ==
  [][\A p \in Payments :
       pay[p].status \in Terminal /\ pay'[p].status # pay[p].status =>
         \/ p \in cancels \ cancels'
         \/ pay[p].review = "pending" /\ pay'[p].review # "pending"
         \/ /\ pay[p].status # "succeeded" /\ pay'[p].status = "cancelled"
            /\ \E c \in Checkouts : p \in found[c] \ found'[c]]_vars

(***************************************************************************)
(* Billing implements the ledger of paid periods: a period is granted in   *)
(* the step that books a payment and in no other, and a booking is lost    *)
(* only by the writes that count it (refinement).                          *)
(***************************************************************************)
Ledger == INSTANCE PaidPeriods WITH
  asked  <- {p \in Payments : pay[p].status # "none"},
  booked <- {p \in Payments : pay[p].status = "succeeded"}

RefinesPaidPeriods == Ledger!Spec

(***************************************************************************)
(* An event the gateway was told is accepted is recorded and applied, or   *)
(* its job ends in the failed set after its last attempt.                  *)
(***************************************************************************)
EventSettles ==
  \A e \in Events : e \in jobs ~> (e \in handled \/ fails[e] = Attempts)
=============================================================================
