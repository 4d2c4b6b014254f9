--------------------------- MODULE CoursePurchase ---------------------------
(***************************************************************************)
(* A learner buying one course: orders, payments, proofs, reviews, refunds, *)
(* the enrollment they grant or revoke and the revenue ledger               *)
(* (src/course-commerce, with the payment rows of src/billing).             *)
(*                                                                          *)
(* Every service method runs in one READ COMMITTED transaction.  It is two  *)
(* steps here: a Begin action makes the reads and remembers what was read   *)
(* in tx[w], a Commit action makes all the writes.  Between the two, other  *)
(* requests commit.  A conditional UPDATE (updateMany with a WHERE on the   *)
(* status) re-evaluates its condition in the Commit step; a plain update by *)
(* id does not.  SELECT ... FOR UPDATE is LockFree.                         *)
(*                                                                          *)
(* A refusal that depends only on state outside this module (price, seat    *)
(* limit, rejected registration, elapsed refund window, unknown method) is  *)
(* the request not being made.                                              *)
(***************************************************************************)
EXTENDS Integers, FiniteSets

CONSTANTS
    Orders,         \* idempotency keys: course_orders is unique on (student, key)
    MaxPayments,    \* bound on the payments rows created
    Workers,        \* concurrent requests
    Methods,        \* the academy's manual payment methods (with their details)
    Collecting,     \* values methodsOn may take: TRUE = the academy collects
    Price,          \* amountMinorUnits of the order snapshot
    Commissions,    \* commission amounts a payment may freeze
    None

ASSUME ConstantsAssumption ==
    /\ MaxPayments \in Nat
    /\ Collecting \subseteq BOOLEAN /\ Collecting # {}
    /\ Price \in Nat \ {0}
    /\ Commissions \subseteq 0..Price /\ Commissions # {}
    /\ None \notin Orders /\ None \notin Methods

VARIABLES
    order,        \* course_orders: status, and whether expiresAt has passed
    payments,     \* payments rows, by creation number
    nPayments,    \* number of payments rows created
    enrollment,   \* enrollments row of (learner, course)
    refund,       \* course_order_refunds: the payment a refund is for
    ledger,       \* revenue_ledger_entries summed by payment and entryType
    methodsOn,    \* the academy has an enabled payment method
    tx            \* what the transaction of each request has read

vars == <<order, payments, nPayments, enrollment, refund, ledger, methodsOn, tx>>

PaymentIds == 1..MaxPayments
OrderStatus == {"absent", "draft", "pending_payment", "paid", "expired", "refunded"}
PaymentStatus == {"absent", "pending", "succeeded", "failed", "cancelled"}
ReviewStatus == {"not_required", "pending", "approved", "rejected"}
Modes == {"atlas_payments", "academy_manual"}
Ops == {"idle", "createOrder", "atlasPay", "academyPay", "expire", "proof",
        "academyApprove", "academyReject", "platformApprove", "platformReject",
        "studentRefund", "academyRefund"}

Payment == [order: Orders \cup {None}, mode: Modes, method: Methods \cup {None},
            status: PaymentStatus, review: ReviewStatus, commission: Commissions \cup {0}]
Entries == [sale: Int, platform_fee: Int, refund: Int, commission_reversal: Int]
Tx == [op: Ops, order: Orders \cup {None}, payment: 0..MaxPayments,
       seen: OrderStatus, open: SUBSET PaymentIds, method: Methods \cup {None}]

Idle == [op |-> "idle", order |-> None, payment |-> 0, seen |-> "absent",
         open |-> {}, method |-> None]
NoPayment == [order |-> None, mode |-> "atlas_payments", method |-> None,
              status |-> "absent", review |-> "not_required", commission |-> 0]
NoEntries == [sale |-> 0, platform_fee |-> 0, refund |-> 0, commission_reversal |-> 0]

Created == 1..nPayments
IsOpen(p) == payments[p].status = "pending"
OpenOf(o) == {p \in Created : payments[p].order = o /\ IsOpen(p)}

-----------------------------------------------------------------------------
(* Transactions *)

\* The transaction of worker w has read what its handler checks and goes on.
Begin(w, op, o, p, seen, open, m) ==
    /\ tx[w] = Idle
    /\ tx' = [tx EXCEPT ![w] = [op |-> op, order |-> o, payment |-> p,
                                seen |-> seen, open |-> open, method |-> m]]
    /\ UNCHANGED <<order, payments, nPayments, enrollment, refund, ledger, methodsOn>>

Done(w) == tx' = [tx EXCEPT ![w] = Idle]

\* A process dies, the interactive transaction times out, or a write is refused
\* by a unique index or a claim: nothing of the transaction remains.
Abort(w) ==
    /\ tx[w] # Idle
    /\ Done(w)
    /\ UNCHANGED <<order, payments, nPayments, enrollment, refund, ledger, methodsOn>>

NeverLocked(o, w) == TRUE
\* Only createAcademyManualPayment locks the order row, from its reads to its
\* commit.  A write to the row, or an insert referencing it, waits for the lock.
LockFree(o, w) == \A v \in Workers \ {w} : ~(tx[v].op = "academyPay" /\ tx[v].order = o)

-----------------------------------------------------------------------------
(* Orders *)

\* createOrder: no access yet and no active order for the course.
BeginCreateOrder(w, k) ==
    /\ order[k].status = "absent"
    /\ enrollment # "enrolled"
    /\ \A o \in Orders : order[o].status \notin {"draft", "pending_payment"}
    /\ Begin(w, "createOrder", k, 0, "absent", {}, None)

\* The insert; the unique index on (student, key) refuses a raced duplicate.
CommitCreateOrder(w) ==
    LET k == tx[w].order IN
    /\ tx[w].op = "createOrder"
    /\ order[k].status = "absent"
    /\ order' = [order EXCEPT ![k] = [status |-> "draft", lapsed |-> FALSE]]
    /\ Done(w)
    /\ UNCHANGED <<payments, nPayments, enrollment, refund, ledger, methodsOn>>

\* expiresAt passes.
Lapse(o) ==
    /\ order[o].status # "absent" /\ ~order[o].lapsed
    /\ order' = [order EXCEPT ![o].lapsed = TRUE]
    /\ UNCHANGED <<payments, nPayments, enrollment, refund, ledger, methodsOn, tx>>

\* The academy enables its first method or disables its last.
SetPaymentMethods ==
    /\ methodsOn' \in Collecting \ {methodsOn}
    /\ UNCHANGED <<order, payments, nPayments, enrollment, refund, ledger, tx>>

IsExpired(o) == order[o].status = "expired" \/ order[o].lapsed
NotPayable(o) == order[o].status \in {"absent", "paid", "refunded"}

-----------------------------------------------------------------------------
(* Payments *)

\* createPaymentInTransaction, Atlas collecting: the order is read, not locked.
BeginAtlasPayment(w, o) ==
    /\ ~methodsOn /\ ~IsExpired(o) /\ ~NotPayable(o)
    /\ Begin(w, "atlasPay", o, 0, order[o].status, {}, None)

UncountedPayment(rows, o, mode, m, c) ==
    /\ nPayments < MaxPayments
    /\ nPayments' = nPayments
    /\ payments' = [rows EXCEPT ![nPayments + 1] =
          [order |-> o, mode |-> mode, method |-> m, status |-> "pending",
           review |-> "not_required", commission |-> c]]
\* createCourseOrderPayment: one more row, next to the rows as updated so far.
NewPayment(rows, o, mode, m, c) ==
    /\ nPayments < MaxPayments
    /\ nPayments' = nPayments + 1
    /\ payments' = [rows EXCEPT ![nPayments + 1] =
          [order |-> o, mode |-> mode, method |-> m, status |-> "pending",
           review |-> "not_required", commission |-> c]]

\* The order goes to pending_payment when it was READ as draft.
CommitAtlasPayment(w) ==
    LET o == tx[w].order IN
    /\ tx[w].op = "atlasPay"
    /\ LockFree(o, w)
    /\ \E c \in Commissions : NewPayment(payments, o, "atlas_payments", None, c)
    /\ order' = IF tx[w].seen = "draft"
                THEN [order EXCEPT ![o].status = "pending_payment"] ELSE order
    /\ Done(w)
    /\ UNCHANGED <<enrollment, refund, ledger, methodsOn>>

\* createAcademyManualPayment: under the order lock, nothing is under review.
BeginAcademyPayment(w, o, m) ==
    /\ methodsOn /\ LockFree(o, w)
    /\ ~NotPayable(o)
    /\ \A p \in OpenOf(o) : payments[p].review # "pending"
    /\ ~IsExpired(o)
    /\ Begin(w, "academyPay", o, 0, order[o].status, OpenOf(o), m)

\* Proof-less open payment of the chosen method, with the same details.
Reusable(w) ==
    {p \in tx[w].open : /\ payments[p].mode = "academy_manual"
                        /\ payments[p].method = tx[w].method}

\* The open payments read are cancelled, except the one returned to the learner;
\* without one, a payment is created.  The order window is extended.
CommitAcademyPayment(w) ==
    LET o == tx[w].order
        keep == IF Reusable(w) = {} THEN {}
                ELSE {CHOOSE p \in Reusable(w) : \A q \in Reusable(w) : q <= p}
        cancelled == [p \in PaymentIds |->
                        IF p \in tx[w].open \ keep
                        THEN [payments[p] EXCEPT !.status = "cancelled"] ELSE payments[p]]
    IN
    /\ tx[w].op = "academyPay"
    /\ order' = [order EXCEPT ![o] =
          [status |-> IF tx[w].seen = "draft" THEN "pending_payment" ELSE @.status,
           lapsed |-> FALSE]]
    /\ IF keep # {}
       THEN payments' = cancelled /\ UNCHANGED nPayments
       ELSE NewPayment(cancelled, o, "academy_manual", tx[w].method, 0)
    /\ Done(w)
    /\ UNCHANGED <<enrollment, refund, ledger, methodsOn>>

\* createPayment on a lapsed order: the transaction ends with CourseOrderExpired,
\* and finishExpiry is still to run in a transaction of its own.
BeginExpiry(w, o) ==
    /\ order[o].status # "expired" /\ order[o].lapsed
    /\ methodsOn => /\ LockFree(o, w)
                    /\ ~NotPayable(o)
                    /\ \A p \in OpenOf(o) : payments[p].review # "pending"
    /\ order[o].status # "absent"
    /\ Begin(w, "expire", o, 0, order[o].status, {}, None)

ExpireUnconditionally(w) ==
    LET o == tx[w].order IN
    /\ tx[w].op = "expire"
    /\ LockFree(o, w)
    /\ order' = [order EXCEPT ![o].status = "expired"]
    /\ Done(w)
    /\ UNCHANGED <<payments, nPayments, enrollment, refund, ledger, methodsOn>>
\* finishExpiry: UPDATE ... WHERE status NOT IN (expired, paid, refunded).
FinishExpiry(w) ==
    LET o == tx[w].order IN
    /\ tx[w].op = "expire"
    /\ LockFree(o, w)
    /\ order' = IF order[o].status \in {"expired", "paid", "refunded"} THEN order
                ELSE [order EXCEPT ![o].status = "expired"]
    /\ Done(w)
    /\ UNCHANGED <<payments, nPayments, enrollment, refund, ledger, methodsOn>>

\* submitProof: the payment is open and, for the academy's, not under review.
\* The status of the order is not looked at.
BeginSubmitProof(w, p) ==
    /\ IsOpen(p)
    /\ payments[p].mode = "academy_manual" => payments[p].review # "pending"
    /\ Begin(w, "proof", payments[p].order, p, "absent", {}, None)

CommitSubmitProof(w) ==
    /\ tx[w].op = "proof"
    /\ payments' = [payments EXCEPT ![tx[w].payment].review = "pending"]
    /\ Done(w)
    /\ UNCHANGED <<order, nPayments, enrollment, refund, ledger, methodsOn>>

-----------------------------------------------------------------------------
(* Reviews *)

\* insertSaleLedgerEntries: the sale and, when there is one, the frozen commission.
SaleEntries(e, c) ==
    [sale |-> e.sale + Price, platform_fee |-> e.platform_fee - c,
     refund |-> e.refund, commission_reversal |-> e.commission_reversal]

\* applySuccessfulPayment, with the review decision of its caller.
ApplySuccessfulPayment(p) ==
    LET o == payments[p].order
        c == payments[p].commission
    IN
    /\ payments' = [payments EXCEPT ![p].status = "succeeded", ![p].review = "approved"]
    /\ order' = [order EXCEPT ![o].status = "paid"]
    /\ enrollment' = "enrolled"
    /\ ledger' = IF payments[p].mode = "atlas_payments"
                 THEN [ledger EXCEPT ![p] = SaleEntries(@, c)]
                 ELSE ledger

\* applyFailedPayment, with the review decision of its caller.
ApplyFailedPayment(p) ==
    payments' = [payments EXCEPT ![p].status = "failed", ![p].review = "rejected"]

\* The academy's owner: loadReviewable, and for approve the order's status.
BeginAcademyReview(w, p, op) ==
    LET o == payments[p].order IN
    /\ op \in {"academyApprove", "academyReject"}
    /\ payments[p].mode = "academy_manual" /\ payments[p].review = "pending"
    /\ op = "academyApprove" => order[o].status \notin {"paid", "refunded"}
    /\ Begin(w, op, o, p, order[o].status, {}, None)

\* claimPendingReview: UPDATE ... WHERE review_status = 'pending'.
ClaimPendingReview(w) == payments[tx[w].payment].review = "pending"

CommitAcademyApprove(w) ==
    /\ tx[w].op = "academyApprove"
    /\ ClaimPendingReview(w)
    /\ LockFree(tx[w].order, w)
    /\ ApplySuccessfulPayment(tx[w].payment)
    /\ Done(w)
    /\ UNCHANGED <<nPayments, refund, methodsOn>>

\* A rejection reopens the window of an order that is still to be paid.
CommitAcademyReject(w) ==
    LET o == tx[w].order
        reopens == tx[w].seen \in {"draft", "pending_payment"}
    IN
    /\ tx[w].op = "academyReject"
    /\ ClaimPendingReview(w)
    /\ reopens => LockFree(o, w)
    /\ ApplyFailedPayment(tx[w].payment)
    /\ order' = IF reopens THEN [order EXCEPT ![o].lapsed = FALSE] ELSE order
    /\ Done(w)
    /\ UNCHANGED <<nPayments, enrollment, refund, ledger, methodsOn>>

\* The Platform Owner: review_status is read, not claimed.
BeginPlatformReview(w, p, op) ==
    /\ op \in {"platformApprove", "platformReject"}
    /\ payments[p].mode = "atlas_payments" /\ payments[p].review = "pending"
    /\ Begin(w, op, payments[p].order, p, "absent", {}, None)

CommitPlatformApprove(w) ==
    /\ tx[w].op = "platformApprove"
    /\ LockFree(tx[w].order, w)
    /\ ApplySuccessfulPayment(tx[w].payment)
    /\ Done(w)
    /\ UNCHANGED <<nPayments, refund, methodsOn>>

CommitPlatformReject(w) ==
    /\ tx[w].op = "platformReject"
    /\ ApplyFailedPayment(tx[w].payment)
    /\ Done(w)
    /\ UNCHANGED <<order, nPayments, enrollment, refund, ledger, methodsOn>>

-----------------------------------------------------------------------------
(* Refunds *)

\* findSucceededForCourseOrder: the latest one.
Succeeded(o) == {p \in Created : payments[p].order = o /\ payments[p].status = "succeeded"}
IsLatestSucceeded(p, o) == p \in Succeeded(o) /\ \A q \in Succeeded(o) : q <= p

\* requestRefund by the learner, of money Atlas collected.
BeginStudentRefund(w, o, p) ==
    /\ refund[o] = 0 /\ order[o].status = "paid"
    /\ IsLatestSucceeded(p, o)
    /\ payments[p].mode # "academy_manual"
    /\ Begin(w, "studentRefund", o, p, "absent", {}, None)

\* recordRefund by the academy, of money it collected itself.
BeginAcademyRefund(w, p) ==
    LET o == payments[p].order IN
    /\ payments[p].mode = "academy_manual"
    /\ refund[o] = 0 /\ order[o].status = "paid"
    /\ payments[p].status = "succeeded" /\ payments[p].review = "approved"
    /\ Begin(w, "academyRefund", o, p, "absent", {}, None)

NoUniqueRefund(o) == TRUE
\* course_order_refunds is unique on course_order_id.
UniqueRefund(o) == refund[o] = 0

\* The entries reversing a sale and its commission.
RefundEntries(e, c) ==
    [sale |-> e.sale, platform_fee |-> e.platform_fee,
     refund |-> e.refund - Price, commission_reversal |-> e.commission_reversal + c]

KeepEnrollment == enrollment
\* The enrollment, if there is one, is revoked; its row and progress stay.
RevokedEnrollment == IF enrollment = "none" THEN "none" ELSE "unavailable"

\* The refund row, the order, the enrollment and, for Atlas's sales, the reversing
\* ledger entries.
CommitRefund(w) ==
    LET o == tx[w].order
        p == tx[w].payment
    IN
    /\ tx[w].op \in {"studentRefund", "academyRefund"}
    /\ UniqueRefund(o) /\ LockFree(o, w)
    /\ refund' = [refund EXCEPT ![o] = p]
    /\ order' = [order EXCEPT ![o].status = "refunded"]
    /\ enrollment' = RevokedEnrollment
    /\ ledger' = IF payments[p].mode = "atlas_payments"
                 THEN [ledger EXCEPT ![p] = RefundEntries(@, payments[p].commission)]
                 ELSE ledger
    /\ Done(w)
    /\ UNCHANGED <<payments, nPayments, methodsOn>>

-----------------------------------------------------------------------------
Init ==
    /\ order = [o \in Orders |-> [status |-> "absent", lapsed |-> FALSE]]
    /\ payments = [p \in PaymentIds |-> NoPayment]
    /\ nPayments = 0
    /\ enrollment = "none"
    /\ refund = [o \in Orders |-> 0]
    /\ ledger = [p \in PaymentIds |-> NoEntries]
    /\ methodsOn \in Collecting
    /\ tx = [w \in Workers |-> Idle]

OrderNext(w) ==
    \/ \E k \in Orders : BeginCreateOrder(w, k)
    \/ CommitCreateOrder(w)

PaymentNext(w) ==
    \/ \E o \in Orders : BeginAtlasPayment(w, o)
    \/ CommitAtlasPayment(w)
    \/ \E o \in Orders, m \in Methods : BeginAcademyPayment(w, o, m)
    \/ CommitAcademyPayment(w)
    \/ \E o \in Orders : BeginExpiry(w, o)
    \/ FinishExpiry(w)
    \/ \E p \in Created : BeginSubmitProof(w, p)
    \/ CommitSubmitProof(w)

ReviewNext(w) ==
    \/ \E p \in Created, op \in Ops : BeginAcademyReview(w, p, op)
    \/ CommitAcademyApprove(w)
    \/ CommitAcademyReject(w)
    \/ \E p \in Created, op \in Ops : BeginPlatformReview(w, p, op)
    \/ CommitPlatformApprove(w)
    \/ CommitPlatformReject(w)

RefundNext(w) ==
    \/ \E o \in Orders, p \in Created : BeginStudentRefund(w, o, p)
    \/ \E p \in Created : BeginAcademyRefund(w, p)
    \/ CommitRefund(w)

Next ==
    \/ \E w \in Workers : OrderNext(w) \/ PaymentNext(w) \/ ReviewNext(w)
                          \/ RefundNext(w) \/ Abort(w)
    \/ \E o \in Orders : Lapse(o)
    \/ SetPaymentMethods

Spec == Init /\ [][Next]_vars

-----------------------------------------------------------------------------
(* Properties *)

\* Every table and every in-flight transaction holds well-formed values; rows are
\* created in order and belong to an order.
TypeOK ==
    /\ order \in [Orders -> [status: OrderStatus, lapsed: BOOLEAN]]
    /\ payments \in [PaymentIds -> Payment]
    /\ nPayments \in 0..MaxPayments
    /\ \A p \in PaymentIds : IF p <= nPayments
                            THEN payments[p].order \in Orders /\ payments[p].status # "absent"
                            ELSE payments[p] = NoPayment
    /\ enrollment \in {"none", "enrolled", "unavailable"}
    /\ refund \in [Orders -> 0..MaxPayments]
    /\ ledger \in [PaymentIds -> Entries]
    /\ methodsOn \in Collecting
    /\ tx \in [Workers -> Tx]

\* createAcademyManualPayment: "two tabs or a double click cannot open two payments
\* for one order".  At most one academy payment of an order is open, whatever
\* requests, method switches, reviews and expiries run at the same time.
OneOpenAcademyPayment ==
    \A p, q \in Created :
        (/\ payments[p].mode = "academy_manual" /\ payments[q].mode = "academy_manual"
         /\ payments[p].order = payments[q].order
         /\ IsOpen(p) /\ IsOpen(q)) => p = q

\* The ledger never returns more than it took in: an order is refunded at most once
\* and only out of a recorded sale of the refunded payment, with exactly the
\* commission frozen on it, and money the academy collected never reaches the ledger.
RefundBackedBySale ==
    /\ \A p \in Created :
          LET e == ledger[p] IN
          /\ e.sale + e.refund >= 0
          /\ e.platform_fee + e.commission_reversal <= 0
          /\ payments[p].mode = "academy_manual" => e = NoEntries
          /\ e.refund # 0 => /\ refund[payments[p].order] = p
                             /\ e.refund = -Price
                             /\ e.commission_reversal = payments[p].commission

\* What the transactions in flight rely on: the rows they name exist, and whoever has
\* read the open payments of an order under its lock has seen every academy payment
\* that is still open (inductive with TypeOK and OneOpenAcademyPayment).
PaymentOps == {"proof", "academyApprove", "academyReject", "platformApprove",
               "platformReject", "studentRefund", "academyRefund"}
TxOrders == \A w \in Workers : tx[w].op # "idle" => tx[w].order \in Orders
TxPayments ==
    \A w \in Workers : tx[w].op \in PaymentOps =>
        tx[w].payment \in Created /\ payments[tx[w].payment].order = tx[w].order
LockExclusive ==
    \A v, w \in Workers : (/\ tx[v].op = "academyPay" /\ tx[w].op = "academyPay"
                           /\ tx[v].order = tx[w].order) => v = w
LockSeesOpen ==
    \A w \in Workers : tx[w].op = "academyPay" =>
        /\ tx[w].open \subseteq Created
        /\ \A p \in Created : (/\ payments[p].order = tx[w].order /\ IsOpen(p)
                               /\ payments[p].mode = "academy_manual") => p \in tx[w].open
LockInv == TxOrders /\ TxPayments /\ LockExclusive /\ LockSeesOpen

\* finishExpiry "UPDATE ... notIn: ['expired', 'paid', 'refunded']": the expiry decided
\* by an earlier read never overwrites a payment or a refund that came first.
SettledNeverExpires ==
    [][\A o \in Orders : order[o].status \in {"paid", "refunded"}
                            => order'[o].status # "expired"]_vars

AcademyCollected(o) == \A p \in Created : payments[p].order = o => payments[p].mode = "academy_manual"

\* An order the academy alone collected for: a succeeded payment leaves it paid, or
\* refunded since.  No payment request, review or expiry that read an older state takes
\* it back, although the academy may switch its methods off and on meanwhile.
SucceededMeansSettled ==
    \A p \in Created : (payments[p].status = "succeeded" /\ AcademyCollected(payments[p].order))
                        => order[payments[p].order].status \in {"paid", "refunded"}

\* While the academy alone collects, the learner has access only as long as some
\* order for the course is paid: a refund always takes the access it undoes.
AccessIsPaidFor ==
    (enrollment = "enrolled" /\ \A o \in Orders : AcademyCollected(o))
        => \E o \in Orders : order[o].status = "paid"

\* test/course-commerce.e2e-spec.ts: "a second approval attempt on an already-approved
\* Payment is rejected, never double-applied".  A payment is sold at most once.
SaleRecordedOnce == \A p \in Created : ledger[p].sale \in {0, Price}
=============================================================================
