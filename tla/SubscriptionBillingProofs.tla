---------------------- MODULE SubscriptionBillingProofs ----------------------
(***************************************************************************)
(* What SubscriptionBilling guarantees for any number of checkouts,        *)
(* payments, methods and events, and the proof that it implements          *)
(* PaidPeriods.                                                            *)
(***************************************************************************)
EXTENDS SubscriptionBilling, TLAPS

(* A payment that is referred to exists, and one that does not has granted *)
(* nothing.                                                                *)
References ==
  /\ \A p \in Payments :
       /\ pay[p].status # "none" => pay[p].checkout \in Checkouts
       /\ pay[p].status = "none" =>
            /\ pay[p] = NoPayment
            /\ granted[p] = 0
            /\ p \notin uploads \cup cancels \cup revived
  /\ \A e \in Events :
       event[e] # None => pay[event[e].pay].status # "none"
  /\ \A e \in Events : event[e] = None => fails[e] = 0
  /\ \A e \in jobs : event[e] # None /\ fails[e] < Attempts

(* A checkout sold without a revival is completed, and has no open payment *)
(* left that could sell it again.                                          *)
SoldIsClosed ==
  \A p \in Payments :
    LET c == pay[p].checkout
    IN granted[p] > 0 /\ {q \in Payments : pay[q].checkout = c} \cap revived = {} =>
         /\ checkout[c] = "completed"
         /\ OpenFor(c) = {}

(* While createPayment holds the lock nobody completes the checkout, no    *)
(* other payment of it is opened, and none of those it has read succeeds.  *)
LockHolds ==
  /\ \A c \in Checkouts : creating[c] # None =>
       checkout[c] \in {"draft", "pending_payment"} /\ OpenFor(c) \subseteq found[c]
  /\ \A c \in Checkouts : \A q \in found[c] :
       /\ creating[c] # None
       /\ pay[q].checkout = c
       /\ pay[q].status \notin {"none", "succeeded"}

(* The inductive invariant. *)
IInv == /\ TypeOK /\ References /\ LockHolds
        /\ OneOpenPayment /\ OneSalePerCheckout /\ SoldIsClosed

LEMMA InitIInv == Init => IInv
<1> SUFFICES ASSUME Init PROVE IInv
  OBVIOUS
<1> USE DEF Init, NoPayment
<1>1. TypeOK
  BY AttemptsPositive DEF TypeOK, Row
<1>2. References
  BY AttemptsPositive DEF References
<1>3. OneOpenPayment /\ OneSalePerCheckout /\ SoldIsClosed
  BY DEF OneOpenPayment, OneSalePerCheckout, SoldIsClosed, OpenFor, NonTerminal
<1>4. LockHolds
  BY DEF LockHolds
<1> QED
  BY <1>1, <1>2, <1>3, <1>4 DEF IInv

(* What applySuccessfulPayment leaves, as seen from its result. *)
LEMMA ApplyType ==
  ASSUME TypeOK, NEW p \in Payments, NEW row \in Row, NEW o \in BOOLEAN,
         [row EXCEPT !.status = "succeeded"] \in Row,
         ApplySuccessfulPayment(p, row, o)
  PROVE  /\ pay' \in [Payments -> Row]
         /\ granted' \in [Payments -> Nat]
         /\ checkout' \in [Checkouts -> {"none", "draft", "pending_payment", "completed"}]
<1>1. CASE MayMarkSucceeded(p, o)
  BY <1>1 DEF ApplySuccessfulPayment, TypeOK
<1>2. CASE ~MayMarkSucceeded(p, o)
  BY <1>2 DEF ApplySuccessfulPayment, TypeOK
<1> QED
  BY <1>1, <1>2

(* A row stays a row when one column is written. *)
LEMMA RowWrite ==
  ASSUME NEW r \in Row
  PROVE  /\ \A s \in NonTerminal \cup Terminal : [r EXCEPT !.status = s] \in Row
         /\ \A v \in {"pending", "approved", "rejected"} :
              [r EXCEPT !.review = v] \in Row
         /\ [r EXCEPT !.review = "rejected", !.status = "failed"] \in Row
  BY DEF Row, Terminal

LEMMA TypeStep == IInv /\ [Next]_vars => TypeOK'
<1> SUFFICES ASSUME IInv, [Next]_vars PROVE TypeOK'
  OBVIOUS
<1> USE AttemptsPositive DEF IInv, TypeOK, customer, creation, gateway, books
<1>1. ASSUME NEW c \in Checkouts, CreateCheckout(c) \/ CheckoutLapses(c) PROVE TypeOK'
  BY <1>1 DEF CreateCheckout, CheckoutLapses
<1>2. ASSUME NEW c \in Checkouts, NEW p \in Payments, CreatePaymentWrite(c, p)
      PROVE  TypeOK'
  <2>1. NewPayment(c, creating[c]) \in Row
    BY DEF NewPayment, Row, NonTerminal
  <2>2. \A q \in Payments : [pay[q] EXCEPT !.status = "cancelled"] \in Row
    BY RowWrite DEF Terminal
  <2>3. /\ creating' \in [Checkouts -> Methods \cup {None}]
        /\ found' \in [Checkouts -> SUBSET Payments]
    BY <1>2 DEF CreatePaymentWrite, Unlock
  <2> QED
    BY <1>2, <2>1, <2>2, <2>3 DEF CreatePaymentWrite
<1>11. ASSUME NEW c \in Checkouts, NEW m \in Methods, CreatePaymentRead(c, m)
       PROVE  TypeOK'
  <2>1. OpenFor(c) \subseteq Payments
    BY DEF OpenFor
  <2> QED
    BY <1>11, <2>1 DEF CreatePaymentRead
<1>12. ASSUME NEW c \in Checkouts, CreatePaymentAborts(c) PROVE TypeOK'
  BY <1>12 DEF CreatePaymentAborts, Unlock
<1>3. ASSUME NEW p \in Payments,
             SubmitProofRead(p) \/ SubmitProofWrite(p) \/ CancelPaymentRead(p)
      PROVE  TypeOK'
  <2>1. [pay[p] EXCEPT !.review = "pending"] \in Row
    BY RowWrite
  <2> QED
    BY <1>3, <2>1 DEF SubmitProofRead, SubmitProofWrite, CancelPaymentRead
<1>4. ASSUME NEW p \in Payments, CancelPaymentWrite(p) PROVE TypeOK'
  <2>1. [pay[p] EXCEPT !.status = "cancelled"] \in Row
    BY RowWrite DEF Terminal
  <2>2. pay' \in [Payments -> Row] /\ lost' \in [Payments -> Nat]
    BY <1>4, <2>1 DEF CancelPaymentWrite, Overwrite
  <2> QED
    BY <1>4, <2>2 DEF CancelPaymentWrite
<1>5. ASSUME NEW p \in Payments, ApprovePayment(p) PROVE TypeOK'
  <2>1. /\ [pay[p] EXCEPT !.review = "approved"] \in Row
        /\ [[pay[p] EXCEPT !.review = "approved"] EXCEPT !.status = "succeeded"] \in Row
    BY RowWrite DEF Terminal
  <2>2. /\ pay' \in [Payments -> Row]
        /\ granted' \in [Payments -> Nat]
        /\ checkout' \in [Checkouts -> {"none", "draft", "pending_payment", "completed"}]
    BY <1>5, <2>1, ApplyType DEF ApprovePayment
  <2>4. revived' \subseteq Payments
    BY <1>5 DEF ApprovePayment
  <2> QED
    BY <1>5, <2>2, <2>4 DEF ApprovePayment
<1>6. ASSUME NEW p \in Payments, RejectPayment(p) PROVE TypeOK'
  <2>1. [pay[p] EXCEPT !.review = "rejected", !.status = "failed"] \in Row
    BY RowWrite
  <2>2. pay' \in [Payments -> Row] /\ lost' \in [Payments -> Nat]
    BY <1>6, <2>1 DEF RejectPayment, Overwrite
  <2> QED
    BY <1>6, <2>2 DEF RejectPayment
<1>7. ASSUME NEW e \in Events, NEW t \in EventTypes, NEW p \in Payments,
             SendEvent(e, t, p)
      PROVE  TypeOK'
  BY <1>7 DEF SendEvent
<1>8. ASSUME NEW e \in Events, ResendEvent(e) \/ AttemptFails(e) PROVE TypeOK'
  BY <1>8 DEF ResendEvent, AttemptFails, References
<1>9. ASSUME NEW e \in Events, ProcessEvent(e) PROVE TypeOK'
  <2>1. event[e].type \in EventTypes /\ event[e].pay \in Payments
    BY <1>9 DEF ProcessEvent, References
  <2> DEFINE p == event[e].pay
             t == event[e].type
  <2>2. /\ jobs' \subseteq Events /\ handled' \subseteq Events
        /\ fails' \in [Events -> 0..Attempts]
        /\ UNCHANGED <<lapsed, customer, event, lost, revived>>
    BY <1>9 DEF ProcessEvent, Recorded
  <2>3. /\ pay' \in [Payments -> Row] /\ granted' \in [Payments -> Nat]
        /\ checkout' \in [Checkouts -> {"none", "draft", "pending_payment", "completed"}]
    <3>1. CASE e \in handled \/ t = "created"
      BY <1>9, <3>1 DEF ProcessEvent
    <3>2. CASE e \notin handled /\ t = "succeeded"
      <4>1. [pay[p] EXCEPT !.status = "succeeded"] \in Row /\ pay[p] \in Row
        BY <2>1, RowWrite DEF Terminal
      <4>2. ApplySuccessfulPayment(p, pay[p], TRUE)
        BY <1>9, <3>2 DEF ProcessEvent
      <4> QED
        BY <2>1, <4>1, <4>2, ApplyType
    <3>3. CASE ~(e \in handled \/ t = "created") /\ t # "succeeded"
      <4>1. t \in NonTerminal \cup Terminal
        BY <2>1, <3>3, EventTypesAreKnown DEF NonTerminal, Terminal
      <4>2. TransitionIfNonTerminal(p, t) /\ UNCHANGED <<checkout, granted>>
        BY <1>9, <3>3 DEF ProcessEvent
      <4>3. [pay[p] EXCEPT !.status = t] \in Row
        BY <2>1, <4>1, RowWrite
      <4> QED
        BY <2>1, <4>2, <4>3 DEF TransitionIfNonTerminal
    <3> QED
      BY <3>1, <3>2, <3>3
  <2> QED
    BY <2>2, <2>3
<1>10. CASE UNCHANGED vars
  BY <1>10 DEF vars
<1> QED
  BY <1>1, <1>2, <1>3, <1>4, <1>5, <1>6, <1>7, <1>8, <1>9, <1>10, <1>11, <1>12
  DEF Next, Customer, Reviewer, Gateway
----------------------------------------------------------------------------
(* Every step, seen by the invariants, is one of three: it creates a       *)
(* payment, it sells one, or it leaves what was sold alone and opens       *)
(* nothing.                                                                *)
Quiet ==
  /\ granted' = granted /\ revived' = revived
  /\ \A c \in Checkouts : checkout'[c] = checkout[c] \/ checkout[c] = "none"
  /\ \A q \in Payments :
       /\ pay'[q].checkout = pay[q].checkout
       /\ pay[q].status = "none" => pay'[q] = pay[q]
       /\ pay'[q].status = "none" => pay[q].status = "none"
       /\ pay'[q].status \in NonTerminal => pay[q].status \in NonTerminal
       /\ pay'[q].status = "succeeded" => pay[q].status = "succeeded"
  /\ \/ UNCHANGED creation
     \/ \E c \in Checkouts, m \in Methods : CreatePaymentRead(c, m)
     \/ \E c \in Checkouts : CreatePaymentAborts(c)

Sell(p) ==
  /\ pay[p].status \notin {"none", "succeeded"}
  /\ pay'[p].status = "succeeded"
  /\ pay'[p].checkout = pay[p].checkout
  /\ \A q \in Payments : q # p => pay'[q] = pay[q]
  /\ granted' = [granted EXCEPT ![p] = @ + 1]
  /\ checkout' = [checkout EXCEPT ![pay[p].checkout] = "completed"]
  /\ creating[pay[p].checkout] = None /\ UNCHANGED creation
  /\ \/ pay[p].status \in NonTerminal /\ revived' = revived
     \/ revived' = revived \cup {p}

Shape ==
  \/ Quiet
  \/ \E p \in Payments : Sell(p)
  \/ \E c \in Checkouts, p \in Payments : CreatePaymentWrite(c, p)

(* An approval that finds the payment not yet succeeded sells it. *)
LEMMA ApproveSells ==
  ASSUME IInv, NEW p \in Payments, ApprovePayment(p), MayMarkSucceeded(p, FALSE)
  PROVE  Sell(p)
<1>T. pay \in [Payments -> Row]
  BY DEF IInv, TypeOK
<1>A. pay[p].status \notin {"none", "succeeded"}
  BY DEF ApprovePayment, ClaimPendingReview, IInv, References, NoPayment, MayMarkSucceeded
<1>1. \/ pay[p].status \in NonTerminal /\ revived' = revived
      \/ revived' = revived \cup {p}
  BY <1>T, <1>A DEF ApprovePayment, Row, Terminal, NonTerminal
<1>2. ApplySuccessfulPayment(p, [pay[p] EXCEPT !.review = "approved"], FALSE)
  BY DEF ApprovePayment
<1> DEFINE row == [pay[p] EXCEPT !.review = "approved"]
<1>3. row.checkout = pay[p].checkout /\ row \in Row
  BY <1>T DEF Row
<1> HIDE DEF row
<1>5. /\ pay' = [pay EXCEPT ![p] = [row EXCEPT !.status = "succeeded"]]
      /\ checkout' = [checkout EXCEPT ![row.checkout] = "completed"]
      /\ granted' = [granted EXCEPT ![p] = @ + 1]
      /\ creating[row.checkout] = None
  BY <1>2 DEF ApplySuccessfulPayment, row
<1>7. UNCHANGED creation
  BY DEF ApprovePayment, customer
<1>6. Sell(p)
  BY <1>1, <1>3, <1>5, <1>7, <1>T, <1>A DEF Sell, Row
<1> QED
  BY <1>6

LEMMA Shapes == IInv /\ [Next]_vars => Shape
<1> SUFFICES ASSUME IInv, [Next]_vars PROVE Shape
  OBVIOUS
<1> USE DEF IInv, customer, creation, gateway, books, Shape
<1>T. pay \in [Payments -> Row] /\ checkout \in [Checkouts -> {"none", "draft", "pending_payment", "completed"}]
  BY DEF TypeOK
<1>1. ASSUME NEW c \in Checkouts, CreateCheckout(c) \/ CheckoutLapses(c) PROVE Shape
  BY <1>1, <1>T DEF CreateCheckout, CheckoutLapses, Quiet
<1>2. ASSUME NEW c \in Checkouts, NEW p \in Payments, CreatePaymentWrite(c, p)
      PROVE  Shape
  BY <1>2
<1>11. ASSUME NEW c \in Checkouts, NEW m \in Methods, CreatePaymentRead(c, m)
       PROVE  Shape
  <2>1. UNCHANGED <<checkout, pay, books>>
    BY <1>11 DEF CreatePaymentRead
  <2> QED
    BY <1>11, <2>1 DEF Quiet
<1>12. ASSUME NEW c \in Checkouts, CreatePaymentAborts(c) PROVE Shape
  <2>1. UNCHANGED <<checkout, pay, books>>
    BY <1>12 DEF CreatePaymentAborts
  <2> QED
    BY <1>12, <2>1 DEF Quiet
<1>3. ASSUME NEW p \in Payments,
             SubmitProofRead(p) \/ SubmitProofWrite(p) \/ CancelPaymentRead(p)
      PROVE  Shape
  BY <1>3, <1>T DEF SubmitProofRead, SubmitProofWrite, CancelPaymentRead, Quiet, Row, References
<1>4. ASSUME NEW p \in Payments, CancelPaymentWrite(p) PROVE Shape
  BY <1>4, <1>T DEF CancelPaymentWrite, Quiet, Row, References, NonTerminal
<1>5. ASSUME NEW p \in Payments, ApprovePayment(p) PROVE Shape
  <2>1. pay[p].status # "none"
    BY <1>5 DEF ApprovePayment, ClaimPendingReview, References, NoPayment
  <2>2. CASE pay[p].status = "succeeded"
    BY <1>5, <1>T, <2>1, <2>2
    DEF ApprovePayment, ApplySuccessfulPayment, MayMarkSucceeded, Quiet, Row, Terminal, NonTerminal
  <2>3. CASE pay[p].status # "succeeded"
    <3>6. Sell(p)
      BY <1>5, <2>3, ApproveSells DEF MayMarkSucceeded
    <3> QED
      BY <3>6
  <2> QED
    BY <2>2, <2>3
<1>6. ASSUME NEW p \in Payments, RejectPayment(p) PROVE Shape
  <2>1. pay[p].status # "none"
    BY <1>6 DEF RejectPayment, ClaimPendingReview, References, NoPayment
  <2> QED
    BY <1>6, <1>T, <2>1 DEF RejectPayment, Quiet, Row, NonTerminal
<1>7. ASSUME NEW e \in Events, NEW t \in EventTypes, NEW p \in Payments,
             SendEvent(e, t, p)
      PROVE  Shape
  BY <1>7, <1>T DEF SendEvent, Quiet
<1>8. ASSUME NEW e \in Events, ResendEvent(e) \/ AttemptFails(e) PROVE Shape
  BY <1>8, <1>T DEF ResendEvent, AttemptFails, Quiet
<1>9. ASSUME NEW e \in Events, ProcessEvent(e) PROVE Shape
  <2> DEFINE p == event[e].pay
             t == event[e].type
  <2>1. /\ t \in EventTypes /\ p \in Payments /\ pay[p].status # "none"
        /\ revived' = revived /\ UNCHANGED creation
    BY <1>9 DEF ProcessEvent, References, TypeOK
  <2>2. CASE e \in handled \/ t = "created"
    BY <1>9, <1>T, <2>2, <2>1 DEF ProcessEvent, Quiet
  <2>3. CASE ~(e \in handled \/ t = "created") /\ t = "succeeded"
    <3>1. ApplySuccessfulPayment(p, pay[p], TRUE)
      BY <1>9, <2>3 DEF ProcessEvent
    <3>2. CASE pay[p].status \in NonTerminal
      <4>1. Sell(p)
        BY <3>1, <3>2, <1>T, <2>1 DEF ApplySuccessfulPayment, MayMarkSucceeded, Sell, Row, NonTerminal
      <4> QED
        BY <4>1, <2>1
    <3>3. CASE pay[p].status \notin NonTerminal
      BY <3>1, <3>3, <1>T, <2>1 DEF ApplySuccessfulPayment, MayMarkSucceeded, Quiet
    <3> QED
      BY <3>2, <3>3
  <2>4. CASE ~(e \in handled \/ t = "created") /\ t # "succeeded"
    <3>1. TransitionIfNonTerminal(p, t) /\ UNCHANGED <<checkout, granted>>
      BY <1>9, <2>4 DEF ProcessEvent
    <3>2. t # "none"
      BY <2>1, EventTypesAreKnown
    <3> QED
      BY <3>1, <3>2, <1>T, <2>1, <2>4 DEF TransitionIfNonTerminal, Quiet, Row
  <2> QED
    BY <2>2, <2>3, <2>4
<1>10. CASE UNCHANGED vars
  BY <1>10, <1>T DEF vars, Quiet
<1> QED
  BY <1>1, <1>2, <1>3, <1>4, <1>5, <1>6, <1>7, <1>8, <1>9, <1>10, <1>11, <1>12
  DEF Next, Customer, Reviewer, Gateway

LEMMA OpenStep == IInv /\ [Next]_vars => OneOpenPayment'
<1> SUFFICES ASSUME IInv, [Next]_vars, NEW c \in Checkouts,
                    NEW p \in OpenFor(c)', NEW q \in OpenFor(c)'
             PROVE  p = q
  BY DEF OneOpenPayment, OpenFor
<1>1. Shape
  BY Shapes
<1> USE DEF IInv, TypeOK, OneOpenPayment, OpenFor
<1>2. CASE Quiet
  BY <1>2 DEF Quiet
<1>3. ASSUME NEW r \in Payments, Sell(r) PROVE p = q
  BY <1>3 DEF Sell, NonTerminal
<1>4. ASSUME NEW d \in Checkouts, NEW r \in Payments, CreatePaymentWrite(d, r)
      PROVE  p = q
  BY <1>4 DEF CreatePaymentWrite, NewPayment, NonTerminal, Row, LockHolds
<1> QED
  BY <1>1, <1>2, <1>3, <1>4 DEF Shape

(* The payments of a checkout, and a checkout sold without a revival. *)
Of(c) == {q \in Payments : pay[q].checkout = c}

LEMMA SaleStep == IInv /\ [Next]_vars => OneSalePerCheckout' /\ SoldIsClosed'
<1> SUFFICES ASSUME IInv, [Next]_vars PROVE OneSalePerCheckout' /\ SoldIsClosed'
  OBVIOUS
<1>1. Shape
  BY Shapes
<1> USE DEF IInv, TypeOK, OneSalePerCheckout, SoldIsClosed, OpenFor
<1>2. CASE Quiet
  <2>1. \A p \in Payments : granted[p] > 0 => pay[p].checkout \in Checkouts
    BY DEF References
  <2> QED
    BY <1>2, <2>1 DEF Quiet
<1>3. ASSUME NEW r \in Payments, Sell(r) PROVE OneSalePerCheckout' /\ SoldIsClosed'
  <2>1. pay[r].checkout \in Checkouts
    BY <1>3 DEF Sell, References
  <2>2. \A q \in Payments : pay'[q].checkout = pay[q].checkout
    BY <1>3 DEF Sell
  <2>3. revived \subseteq revived'
    BY <1>3 DEF Sell
  <2>4. CASE r \in revived'
    <3>1. OneSalePerCheckout'
      BY <1>3, <2>1, <2>2, <2>3, <2>4 DEF Sell
    <3>2. SoldIsClosed'
      BY <1>3, <2>1, <2>2, <2>3, <2>4 DEF Sell, NonTerminal
    <3> QED
      BY <3>1, <3>2
  <2>5. CASE r \notin revived'
    <3>1. pay[r].status \in NonTerminal /\ revived' = revived
      BY <1>3, <2>5 DEF Sell
    <3>2. \A q \in Payments :
             q # r /\ pay[q].checkout = pay[r].checkout => pay[q].status \notin NonTerminal
      BY <2>1, <3>1 DEF OneOpenPayment
    <3>3. Of(pay[r].checkout) \cap revived = {} =>
            \A q \in Of(pay[r].checkout) : granted[q] = 0
      BY <2>1, <3>1 DEF Of
    <3>4. OneSalePerCheckout'
      BY <1>3, <2>1, <2>2, <3>1, <3>3 DEF Sell, Of
    <3>5. SoldIsClosed'
      <4> DEFINE d == pay[r].checkout
      <4>1. /\ checkout'[d] = "completed" /\ "succeeded" \notin NonTerminal
            /\ pay'[r].status = "succeeded"
            /\ \A c \in Checkouts : c # d => checkout'[c] = checkout[c]
            /\ \A q \in Payments : q # r => /\ pay'[q].status = pay[q].status
                                            /\ granted'[q] = granted[q]
        BY <1>3, <2>1 DEF Sell, NonTerminal
      <4>2. \A q \in Payments : pay[q].checkout = d => pay'[q].status \notin NonTerminal
        BY <3>2, <4>1
      <4>3. ASSUME NEW p \in Payments, granted'[p] > 0,
                   Of(pay[p].checkout) \cap revived = {}
            PROVE  /\ checkout'[pay[p].checkout] = "completed"
                   /\ \A q \in Payments : pay[q].checkout = pay[p].checkout
                                            => pay'[q].status \notin NonTerminal
        <5>1. CASE pay[p].checkout = d
          BY <4>1, <4>2, <5>1
        <5>2. CASE pay[p].checkout # d
          <6>1. granted[p] > 0 /\ pay[p].checkout \in Checkouts
            BY <4>1, <4>3, <5>2 DEF References
          <6>2. /\ checkout[pay[p].checkout] = "completed"
                /\ \A q \in Payments : pay[q].checkout = pay[p].checkout
                                         => pay[q].status \notin NonTerminal
            BY <4>3, <6>1 DEF Of
          <6> QED BY <4>1, <5>2, <6>1, <6>2
        <5> QED BY <5>1, <5>2
      <4> QED BY <2>2, <3>1, <4>3 DEF Of
    <3> QED
      BY <3>4, <3>5
  <2> QED
    BY <2>4, <2>5
<1>4. ASSUME NEW d \in Checkouts, NEW r \in Payments, CreatePaymentWrite(d, r)
      PROVE  OneSalePerCheckout' /\ SoldIsClosed'
  <2>1. /\ granted' = granted /\ revived' = revived
        /\ granted[r] = 0 /\ r \notin revived
        /\ checkout[d] # "completed"
        /\ \A q \in Payments : q # r =>
             /\ pay'[q].checkout = pay[q].checkout
             /\ pay'[q].status \in NonTerminal => pay[q].status \in NonTerminal
        /\ pay'[r].checkout = d
        /\ pay[r].checkout \notin Checkouts
        /\ \A c \in Checkouts : c # d => checkout'[c] = checkout[c]
    BY <1>4, NoneIsNone
    DEF CreatePaymentWrite, NewPayment, LockHolds, References, NoPayment, books, Row, NonTerminal
  <2>2. Of(d) \cap revived = {} => \A q \in Of(d) : granted[q] = 0
    BY <2>1 DEF Of
  <2>3. OneSalePerCheckout'
    BY <2>1, <2>2 DEF Of
  <2>4. SoldIsClosed'
    BY <2>1, <2>2 DEF Of, References
  <2> QED
    BY <2>3, <2>4
<1> QED
  BY <1>1, <1>2, <1>3, <1>4 DEF Shape

LEMMA ReferencesStep == IInv /\ [Next]_vars => References'
<1> SUFFICES ASSUME IInv, [Next]_vars PROVE References'
  OBVIOUS
<1>S. Shape
  BY Shapes
<1> USE AttemptsPositive DEF IInv, TypeOK, References, customer, creation, gateway, books
<1>1. ASSUME NEW c \in Checkouts, CreateCheckout(c) \/ CheckoutLapses(c) PROVE References'
  BY <1>1 DEF CreateCheckout, CheckoutLapses
<1>11. ASSUME NEW c \in Checkouts, NEW m \in Methods, CreatePaymentRead(c, m)
       PROVE  References'
  BY <1>11 DEF CreatePaymentRead
<1>12. ASSUME NEW c \in Checkouts, CreatePaymentAborts(c) PROVE References'
  BY <1>12 DEF CreatePaymentAborts
<1>2. ASSUME NEW c \in Checkouts, NEW p \in Payments, CreatePaymentWrite(c, p)
      PROVE  References'
  <2>1. \A q \in Payments :
          /\ pay'[q].status # "none" => pay'[q].checkout \in Checkouts
          /\ pay'[q].status = "none" => pay'[q] = pay[q]
          /\ pay[q].status # "none" => pay'[q].status # "none"
    <3>1. \A q \in Payments : q # p =>
            \/ pay'[q] = pay[q]
            \/ pay[q].status # "none" /\ pay'[q] = [pay[q] EXCEPT !.status = "cancelled"]
      BY <1>2 DEF CreatePaymentWrite, LockHolds
    <3>2. pay'[p] = NewPayment(c, creating[c]) /\ pay[p].status = "none"
      BY <1>2 DEF CreatePaymentWrite
    <3>3. pay \in [Payments -> Row]
      OBVIOUS
    <3>4. \A q \in Payments : [pay[q] EXCEPT !.status = "cancelled"].status = "cancelled"
                             /\ [pay[q] EXCEPT !.status = "cancelled"].checkout = pay[q].checkout
      BY <3>3 DEF Row
    <3>5. NewPayment(c, creating[c]).status = "pending" /\ NewPayment(c, creating[c]).checkout = c
      BY DEF NewPayment
    <3> HIDE DEF IInv, TypeOK
    <3>6. ASSUME NEW q \in Payments, q # p
          PROVE  /\ pay'[q].status # "none" => pay'[q].checkout \in Checkouts
                 /\ pay'[q].status = "none" => pay'[q] = pay[q]
                 /\ pay[q].status # "none" => pay'[q].status # "none"
      BY <3>1, <3>4, <3>6 DEF IInv
    <3> QED
      BY <3>2, <3>5, <3>6
  <2> QED
    BY <1>2, <2>1 DEF CreatePaymentWrite
<1>3. ASSUME NEW p \in Payments,
             \/ SubmitProofRead(p) \/ SubmitProofWrite(p) \/ CancelPaymentRead(p)
             \/ CancelPaymentWrite(p) \/ RejectPayment(p)
      PROVE  References'
  <2>1. pay[p].status # "none"
    BY <1>3 DEF SubmitProofRead, SubmitProofWrite, CancelPaymentRead, CancelPaymentWrite,
                RejectPayment, ClaimPendingReview, NonTerminal, NoPayment
  <2>2. \A q \in Payments :
          /\ pay'[q].checkout = pay[q].checkout
          /\ pay[q].status = "none" => pay'[q] = pay[q] /\ q # p
          /\ pay'[q].status = "none" => pay[q].status = "none"
    <3>1. \/ pay' = pay
          \/ pay' = [pay EXCEPT ![p] = [pay[p] EXCEPT !.review = "pending"]]
          \/ pay' = [pay EXCEPT ![p] = [pay[p] EXCEPT !.status = "cancelled"]]
          \/ pay' = [pay EXCEPT ![p] = [pay[p] EXCEPT !.review = "rejected", !.status = "failed"]]
      BY <1>3 DEF SubmitProofRead, SubmitProofWrite, CancelPaymentRead,
                  CancelPaymentWrite, RejectPayment
    <3>2. pay \in [Payments -> Row]
      OBVIOUS
    <3>3. /\ \A q \in Payments : q # p => pay'[q] = pay[q]
          /\ pay'[p].checkout = pay[p].checkout
          /\ pay'[p].status \in {pay[p].status, "cancelled", "failed"}
      <4>1. CASE pay' = pay
        BY <4>1
      <4>2. CASE pay' = [pay EXCEPT ![p] = [pay[p] EXCEPT !.review = "pending"]]
        BY <4>2, <3>2 DEF Row
      <4>3. CASE pay' = [pay EXCEPT ![p] = [pay[p] EXCEPT !.status = "cancelled"]]
        BY <4>3, <3>2 DEF Row
      <4>4. CASE pay' = [pay EXCEPT ![p] = [pay[p] EXCEPT !.review = "rejected", !.status = "failed"]]
        BY <4>4, <3>2 DEF Row
      <4> QED
        BY <3>1, <4>1, <4>2, <4>3, <4>4
    <3> QED
      BY <3>3, <2>1
  <2>3. granted' = granted /\ revived' = revived /\ UNCHANGED gateway
    BY <1>3 DEF SubmitProofRead, SubmitProofWrite, CancelPaymentRead,
                CancelPaymentWrite, RejectPayment
  <2>4. uploads' \subseteq uploads \cup {p} /\ cancels' \subseteq cancels \cup {p}
    BY <1>3 DEF SubmitProofRead, SubmitProofWrite, CancelPaymentRead,
                CancelPaymentWrite, RejectPayment
  <2> QED
    BY <2>1, <2>2, <2>3, <2>4
<1>5. ASSUME NEW p \in Payments, ApprovePayment(p) PROVE References'
  <2>1. pay[p].status # "none"
    BY <1>5 DEF ApprovePayment, ClaimPendingReview, NoPayment
  <2>2. \A q \in Payments : q # p => pay'[q] = pay[q] /\ granted'[q] = granted[q]
    BY <1>5 DEF ApprovePayment, ApplySuccessfulPayment
  <2>3. pay'[p].checkout = pay[p].checkout /\ pay'[p].status # "none"
    <3> DEFINE row == [pay[p] EXCEPT !.review = "approved"]
    <3>T. pay \in [Payments -> Row]
      OBVIOUS
    <3> HIDE DEF IInv, TypeOK
    <3>1. row.checkout = pay[p].checkout /\ row.status = pay[p].status /\ row \in Row
      BY <3>T DEF Row
    <3> HIDE DEF row
    <3>2. pay'[p] = row \/ pay'[p] = [row EXCEPT !.status = "succeeded"]
      BY <1>5, <3>T DEF ApprovePayment, ApplySuccessfulPayment, row
    <3> QED
      BY <2>1, <3>1, <3>2 DEF Row
  <2>4. revived' \subseteq revived \cup {p} /\ UNCHANGED <<customer, gateway>>
    BY <1>5 DEF ApprovePayment
  <2> QED
    BY <2>1, <2>2, <2>3, <2>4
<1>7. ASSUME NEW e \in Events, NEW t \in EventTypes, NEW p \in Payments,
             SendEvent(e, t, p)
      PROVE  References'
  BY <1>7, NoneIsNone DEF SendEvent
<1>8. ASSUME NEW e \in Events, ResendEvent(e) \/ AttemptFails(e) PROVE References'
  BY <1>8 DEF ResendEvent, AttemptFails
<1>9. ASSUME NEW e \in Events, ProcessEvent(e) PROVE References'
  <2>1. /\ jobs' = jobs \ {e} /\ fails' = [fails EXCEPT ![e] = 0]
        /\ UNCHANGED <<uploads, cancels, event, revived>>
        /\ event[e].pay \in Payments /\ pay[event[e].pay].status # "none"
    BY <1>9 DEF ProcessEvent
  <2>2. \A q \in Payments :
          /\ pay'[q].checkout = pay[q].checkout
          /\ pay'[q].status = "none" <=> pay[q].status = "none"
          /\ pay[q].status = "none" => pay'[q] = pay[q] /\ granted'[q] = granted[q]
    <3>1. CASE Quiet
      BY <3>1 DEF Quiet
    <3>2. ASSUME NEW r \in Payments, Sell(r)
          PROVE  \A q \in Payments :
                   /\ pay'[q].checkout = pay[q].checkout
                   /\ pay'[q].status = "none" <=> pay[q].status = "none"
                   /\ pay[q].status = "none" => pay'[q] = pay[q] /\ granted'[q] = granted[q]
      BY <3>2 DEF Sell
    <3>3. ASSUME NEW c \in Checkouts, NEW r \in Payments, CreatePaymentWrite(c, r)
          PROVE  FALSE
      <4>1. creating' = creating /\ creating[c] # None /\ creating'[c] = None
        BY <1>9, <3>3 DEF CreatePaymentWrite, Unlock, ProcessEvent
      <4> QED
        BY <4>1
    <3> QED
      BY <1>S, <3>1, <3>2, <3>3 DEF Shape
  <2> QED
    BY <2>1, <2>2
<1>10. CASE UNCHANGED vars
  BY <1>10 DEF vars
<1> QED
  BY <1>1, <1>2, <1>3, <1>5, <1>7, <1>8, <1>9, <1>10, <1>11, <1>12
  DEF Next, Customer, Reviewer, Gateway

LEMMA LockStep == IInv /\ [Next]_vars => LockHolds'
<1> SUFFICES ASSUME IInv, [Next]_vars PROVE LockHolds'
  OBVIOUS
<1>S. Shape
  BY Shapes
<1> USE DEF IInv, TypeOK, LockHolds, OpenFor, creation
<1>1. CASE Quiet
  <2>1. /\ \A c \in Checkouts : checkout'[c] = checkout[c] \/ checkout[c] = "none"
        /\ \A q \in Payments :
             /\ pay'[q].checkout = pay[q].checkout
             /\ pay'[q].status = "none" => pay[q].status = "none"
             /\ pay'[q].status \in NonTerminal => pay[q].status \in NonTerminal
             /\ pay'[q].status = "succeeded" => pay[q].status = "succeeded"
    BY <1>1 DEF Quiet
  <2>2. CASE UNCHANGED creation
    BY <2>1, <2>2
  <2>3. ASSUME NEW c \in Checkouts, NEW m \in Methods, CreatePaymentRead(c, m)
        PROVE  LockHolds'
    <3>1. UNCHANGED <<checkout, pay>>
      BY <2>3 DEF CreatePaymentRead
    <3>2. /\ creating' = [creating EXCEPT ![c] = m] /\ m # None
          /\ found' = [found EXCEPT ![c] = OpenFor(c)]
          /\ checkout[c] \in {"draft", "pending_payment"}
      BY <2>3, NoneIsNone DEF CreatePaymentRead, Payable
    <3> QED
      BY <3>1, <3>2 DEF NonTerminal
  <2>4. ASSUME NEW c \in Checkouts, CreatePaymentAborts(c) PROVE LockHolds'
    BY <2>4 DEF CreatePaymentAborts, Unlock
  <2> QED
    BY <1>1, <2>2, <2>3, <2>4 DEF Quiet
<1>2. ASSUME NEW p \in Payments, Sell(p) PROVE LockHolds'
  <2>1. /\ UNCHANGED creation /\ creating[pay[p].checkout] = None
        /\ pay[p].checkout \in Checkouts
        /\ checkout' = [checkout EXCEPT ![pay[p].checkout] = "completed"]
        /\ pay'[p].status = "succeeded"
        /\ \A q \in Payments : q # p => pay'[q] = pay[q]
    BY <1>2 DEF Sell, References
  <2>2. \A c \in Checkouts : p \notin found[c]
    BY <2>1
  <2> QED
    BY <2>1, <2>2 DEF NonTerminal
<1>3. ASSUME NEW d \in Checkouts, NEW r \in Payments, CreatePaymentWrite(d, r)
      PROVE  LockHolds'
  <2>1. /\ creating' = [creating EXCEPT ![d] = None]
        /\ found' = [found EXCEPT ![d] = {}]
        /\ pay[r].status = "none"
        /\ \A c \in Checkouts : c # d => checkout'[c] = checkout[c]
    BY <1>3 DEF CreatePaymentWrite, Unlock
  <2>2. pay'[r].checkout = d
    BY <1>3 DEF CreatePaymentWrite, NewPayment
  <2>3. \A q \in Payments : q # r /\ q \notin found[d] => pay'[q] = pay[q]
    BY <1>3 DEF CreatePaymentWrite
  <2>4. \A q \in found[d] : q # r /\ pay'[q].checkout = d
    BY <1>3 DEF CreatePaymentWrite, Row
  <2>5. ASSUME NEW c \in Checkouts, c # d, creating[c] # None
        PROVE  /\ checkout'[c] \in {"draft", "pending_payment"}
               /\ \A q \in Payments : pay'[q].checkout = c /\ pay'[q].status \in NonTerminal
                                        => q \in found[c]
    BY <2>1, <2>2, <2>3, <2>4, <2>5
  <2>6. ASSUME NEW c \in Checkouts, c # d, NEW q \in found[c] PROVE pay'[q] = pay[q]
    BY <2>1, <2>3, <2>6
  <2> QED
    BY <2>1, <2>5, <2>6
<1> QED
  BY <1>S, <1>1, <1>2, <1>3 DEF Shape

THEOREM Invariance == Spec => []IInv
<1>1. IInv /\ [Next]_vars => IInv'
  BY TypeStep, ReferencesStep, LockStep, OpenStep, SaleStep DEF IInv
<1> QED
  BY <1>1, InitIInv, PTL DEF Spec

(***************************************************************************)
(* Checkouts, payments, events and jobs keep their types.                  *)
(***************************************************************************)
THEOREM TypeCorrect == Spec => []TypeOK
  BY Invariance, PTL DEF IInv

(***************************************************************************)
(* A checkout never has two open payments, however many tabs, methods and  *)
(* late events there are.                                                  *)
(***************************************************************************)
THEOREM OneOpenPaymentAlways == Spec => []OneOpenPayment
  BY Invariance, PTL DEF IInv

(***************************************************************************)
(* Without the approval of a payment already closed unpaid, a checkout     *)
(* grants at most one paid period.                                         *)
(***************************************************************************)
THEOREM OneSaleAlways == Spec => []OneSalePerCheckout
  BY Invariance, PTL DEF IInv

(***************************************************************************)
(* Late and repeated events never move a payment that is already settled,  *)
(* and a new payment turns into cancelled only one that it had read while  *)
(* it was open, never one that has succeeded.                              *)
(***************************************************************************)
THEOREM ClosedByGatewayAlways == Spec => ClosedByGateway
<1>1. IInv /\ [Next]_vars =>
        [\A p \in Payments :
           pay[p].status \in Terminal /\ pay'[p].status # pay[p].status =>
             \/ p \in cancels \ cancels'
             \/ pay[p].review = "pending" /\ pay'[p].review # "pending"
             \/ /\ pay[p].status # "succeeded" /\ pay'[p].status = "cancelled"
                /\ \E c \in Checkouts : p \in found[c] \ found'[c]]_vars
  <2> SUFFICES ASSUME IInv, Next, NEW p \in Payments,
                      pay[p].status \in Terminal, pay'[p].status # pay[p].status
               PROVE  \/ p \in cancels \ cancels'
                      \/ pay[p].review = "pending" /\ pay'[p].review # "pending"
                      \/ /\ pay[p].status # "succeeded" /\ pay'[p].status = "cancelled"
                         /\ \E c \in Checkouts : p \in found[c] \ found'[c]
    OBVIOUS
  <2> DEFINE Settled == \/ p \in cancels \ cancels'
                        \/ pay[p].review = "pending" /\ pay'[p].review # "pending"
                        \/ /\ pay[p].status # "succeeded" /\ pay'[p].status = "cancelled"
                           /\ \E c \in Checkouts : p \in found[c] \ found'[c]
  <2>T. pay \in [Payments -> Row]
    BY DEF IInv, TypeOK
  <2> USE DEF Terminal, NonTerminal, Row
  <2>1. ASSUME NEW c \in Checkouts, CreateCheckout(c) \/ CheckoutLapses(c) PROVE Settled
    BY <2>1 DEF CreateCheckout, CheckoutLapses
  <2>2. ASSUME NEW c \in Checkouts, NEW q \in Payments, CreatePaymentWrite(c, q)
        PROVE  Settled
    <3>1. q # p
      BY <2>2 DEF CreatePaymentWrite
    <3>2. p \in found[c] /\ pay'[p] = [pay[p] EXCEPT !.status = "cancelled"]
      BY <2>2, <3>1 DEF CreatePaymentWrite
    <3>3. found'[c] = {} /\ pay'[p].status = "cancelled"
      BY <2>2, <3>2, <2>T DEF CreatePaymentWrite, Unlock, IInv, TypeOK
    <3>4. pay[p].status # "succeeded"
      BY <3>2 DEF IInv, LockHolds
    <3> QED
      BY <3>2, <3>3, <3>4
  <2>10. ASSUME NEW c \in Checkouts, NEW m \in Methods, CreatePaymentRead(c, m)
         PROVE  Settled
    BY <2>10 DEF CreatePaymentRead
  <2>11. ASSUME NEW c \in Checkouts, CreatePaymentAborts(c) PROVE Settled
    BY <2>11 DEF CreatePaymentAborts
  <2>3. ASSUME NEW q \in Payments, SubmitProofRead(q) \/ SubmitProofWrite(q) \/ CancelPaymentRead(q)
        PROVE  Settled
    BY <2>3, <2>T DEF SubmitProofRead, SubmitProofWrite, CancelPaymentRead
  <2>4. ASSUME NEW q \in Payments, CancelPaymentWrite(q) PROVE Settled
    BY <2>4, <2>T DEF CancelPaymentWrite
  <2>5. ASSUME NEW q \in Payments, ApprovePayment(q) PROVE Settled
    <3> DEFINE row == [pay[q] EXCEPT !.review = "approved"]
    <3>1. row.review = "approved" /\ row \in Row
      BY <2>T
    <3> HIDE DEF row
    <3>2. \/ pay' = [pay EXCEPT ![q] = row]
          \/ pay' = [pay EXCEPT ![q] = [row EXCEPT !.status = "succeeded"]]
      BY <2>5 DEF ApprovePayment, ApplySuccessfulPayment, row
    <3>3. p = q /\ pay'[p].review = "approved"
      BY <3>1, <3>2, <2>T
    <3> QED
      BY <2>5, <3>3 DEF ApprovePayment, ClaimPendingReview
  <2>6. ASSUME NEW q \in Payments, RejectPayment(q) PROVE Settled
    BY <2>6, <2>T DEF RejectPayment, ClaimPendingReview
  <2>7. ASSUME NEW e \in Events, NEW t \in EventTypes, NEW q \in Payments, SendEvent(e, t, q)
        PROVE  Settled
    BY <2>7 DEF SendEvent
  <2>8. ASSUME NEW e \in Events, ResendEvent(e) \/ AttemptFails(e) PROVE Settled
    BY <2>8 DEF ResendEvent, AttemptFails
  <2>9. ASSUME NEW e \in Events, ProcessEvent(e) PROVE Settled
    BY <2>9, <2>T
    DEF ProcessEvent, ApplySuccessfulPayment, MayMarkSucceeded, TransitionIfNonTerminal
  <2> QED
    BY <2>1, <2>2, <2>3, <2>4, <2>5, <2>6, <2>7, <2>8, <2>9, <2>10, <2>11
    DEF Next, Customer, Reviewer, Gateway
<1> QED
  BY <1>1, Invariance, PTL DEF Spec, ClosedByGateway
----------------------------------------------------------------------------
(* Every step of billing books one payment, loses one booking, asks for    *)
(* one payment, or leaves the ledger alone.                                *)
LEMMA LedgerStep == IInv /\ [Next]_vars => [Ledger!Next]_(Ledger!vars)
<1> SUFFICES ASSUME IInv, [Next]_vars PROVE [Ledger!Next]_(Ledger!vars)
  OBVIOUS
<1>T. pay \in [Payments -> Row] /\ lost \in [Payments -> Nat]
  BY DEF IInv, TypeOK
<1> DEFINE Asked  == {p \in Payments : pay[p].status # "none"}
           Booked == {p \in Payments : pay[p].status = "succeeded"}
           Same   == Asked' = Asked /\ Booked' = Booked /\ UNCHANGED <<granted, lost>>
           Goal   == [Ledger!Next]_(Ledger!vars)
<1>S. Same => Goal
  BY DEF Ledger!vars
<1>1. ASSUME NEW p \in Payments, Sell(p), UNCHANGED lost PROVE Goal
  <2>1. Ledger!Book(p)
    BY <1>1, <1>T DEF Sell, Ledger!Book
  <2> QED
    BY <2>1 DEF Ledger!Next
<1>2. ASSUME NEW c \in Checkouts, NEW p \in Payments, CreatePaymentWrite(c, p)
      PROVE  Goal
  <2>1. /\ pay'[p].status = "pending" /\ pay[p].status = "none"
        /\ \A q \in Payments : q # p =>
             \/ pay'[q] = pay[q]
             \/ /\ pay[q].status \notin {"none", "succeeded"}
                /\ pay'[q].status = "cancelled"
        /\ UNCHANGED <<granted, lost>>
    BY <1>2, <1>T DEF CreatePaymentWrite, NewPayment, IInv, LockHolds, books, Row
  <2>2. Ledger!Ask(p)
    BY <2>1 DEF Ledger!Ask
  <2> QED
    BY <2>2 DEF Ledger!Next
<1>3. ASSUME NEW p \in Payments, NEW w \in {"cancelled", "failed"},
             pay[p].status # "none",
             pay'[p].status = w,
             \A q \in Payments : q # p => pay'[q] = pay[q],
             Overwrite(p), UNCHANGED granted
      PROVE  Goal
  <2>1. CASE pay[p].status = "succeeded"
    <3>1. Ledger!Lose(p)
      BY <1>3, <2>1, <1>T DEF Ledger!Lose, Overwrite
    <3> QED
      BY <3>1 DEF Ledger!Next
  <2>2. CASE pay[p].status # "succeeded"
    <3>1. lost' = lost
      BY <1>3, <2>2, <1>T DEF Overwrite
    <3>2. Same
      BY <1>3, <2>2, <3>1
    <3> QED
      BY <3>2, <1>S
  <2> QED
    BY <2>1, <2>2
<1>4. ASSUME NEW p \in Payments, CancelPaymentWrite(p) PROVE Goal
  <2>1. pay[p].status # "none"
    BY <1>4 DEF CancelPaymentWrite, IInv, References
  <2>2. pay'[p].status = "cancelled" /\ \A q \in Payments : q # p => pay'[q] = pay[q]
    BY <1>4, <1>T DEF CancelPaymentWrite, Row
  <2>3. Overwrite(p) /\ UNCHANGED granted
    BY <1>4 DEF CancelPaymentWrite
  <2> QED
    BY <1>3, <2>1, <2>2, <2>3
<1>5. ASSUME NEW p \in Payments, RejectPayment(p) PROVE Goal
  <2>1. pay[p].status # "none"
    BY <1>5 DEF RejectPayment, ClaimPendingReview, IInv, References, NoPayment
  <2>2. pay'[p].status = "failed" /\ \A q \in Payments : q # p => pay'[q] = pay[q]
    BY <1>5, <1>T DEF RejectPayment, Row
  <2>3. Overwrite(p) /\ UNCHANGED granted
    BY <1>5 DEF RejectPayment
  <2> QED
    BY <1>3, <2>1, <2>2, <2>3
<1>6. ASSUME NEW p \in Payments, ApprovePayment(p) PROVE Goal
  <2>1. lost' = lost
    BY <1>6 DEF ApprovePayment
  <2>2. CASE MayMarkSucceeded(p, FALSE)
    <3>1. Sell(p)
      BY <1>6, <2>2, ApproveSells
    <3> QED
      BY <3>1, <2>1, <1>1
  <2>3. CASE ~MayMarkSucceeded(p, FALSE)
    <3>1. granted' = granted /\ \A q \in Payments : pay'[q].status = pay[q].status
      BY <1>6, <2>3, <1>T DEF ApprovePayment, ApplySuccessfulPayment, Row
    <3>2. Same
      BY <2>1, <3>1
    <3> QED
      BY <3>2, <1>S
  <2> QED
    BY <2>2, <2>3
<1>7. ASSUME NEW e \in Events, ProcessEvent(e) PROVE Goal
  <2> DEFINE p == event[e].pay
             t == event[e].type
  <2>1. /\ t \in EventTypes /\ p \in Payments /\ pay[p].status # "none"
        /\ revived' = revived /\ lost' = lost /\ UNCHANGED creation
    BY <1>7 DEF ProcessEvent, References, TypeOK, IInv, customer
  <2>2. CASE e \in handled \/ t = "created"
    <3>1. Same
      BY <1>7, <2>2, <2>1 DEF ProcessEvent
    <3> QED
      BY <3>1, <1>S
  <2>3. CASE ~(e \in handled \/ t = "created") /\ t = "succeeded"
    <3>1. ApplySuccessfulPayment(p, pay[p], TRUE)
      BY <1>7, <2>3 DEF ProcessEvent
    <3>2. CASE pay[p].status \in NonTerminal
      <4>1. Sell(p)
        BY <3>1, <3>2, <1>T, <2>1 DEF ApplySuccessfulPayment, MayMarkSucceeded, Sell, Row, NonTerminal
      <4> QED
        BY <4>1, <2>1, <1>1
    <3>3. CASE pay[p].status \notin NonTerminal
      <4>1. Same
        BY <3>1, <3>3, <1>T, <2>1 DEF ApplySuccessfulPayment, MayMarkSucceeded
      <4> QED
        BY <4>1, <1>S
    <3> QED
      BY <3>2, <3>3
  <2>4. CASE ~(e \in handled \/ t = "created") /\ t # "succeeded"
    <3>1. TransitionIfNonTerminal(p, t) /\ UNCHANGED <<checkout, granted>>
      BY <1>7, <2>4 DEF ProcessEvent
    <3>2. t # "none"
      BY <2>1, EventTypesAreKnown
    <3>3. \A q \in Payments :
            /\ pay'[q].status = "none" <=> pay[q].status = "none"
            /\ pay'[q].status = "succeeded" <=> pay[q].status = "succeeded"
      BY <3>1, <3>2, <1>T, <2>1, <2>4 DEF TransitionIfNonTerminal, Row, NonTerminal
    <3>4. Same
      BY <3>1, <3>3, <2>1
    <3> QED
      BY <3>4, <1>S
  <2> QED
    BY <2>2, <2>3, <2>4
<1>8. ASSUME NEW p \in Payments, SubmitProofWrite(p) PROVE Goal
  <2>1. Same
    BY <1>8, <1>T DEF SubmitProofWrite, books, Row
  <2> QED
    BY <2>1, <1>S
<1>9. ASSUME UNCHANGED <<pay, granted, lost>> PROVE Goal
  BY <1>9, <1>S
<1> QED
  <2>1. ASSUME NEW c \in Checkouts, CreateCheckout(c) \/ CheckoutLapses(c)
        PROVE  UNCHANGED <<pay, granted, lost>>
    BY <2>1 DEF CreateCheckout, CheckoutLapses, books
  <2>10. ASSUME NEW c \in Checkouts, NEW m \in Methods, CreatePaymentRead(c, m)
         PROVE  UNCHANGED <<pay, granted, lost>>
    BY <2>10 DEF CreatePaymentRead, books
  <2>11. ASSUME NEW c \in Checkouts, CreatePaymentAborts(c)
         PROVE  UNCHANGED <<pay, granted, lost>>
    BY <2>11 DEF CreatePaymentAborts, books
  <2>2. ASSUME NEW p \in Payments, SubmitProofRead(p) \/ CancelPaymentRead(p)
        PROVE  UNCHANGED <<pay, granted, lost>>
    BY <2>2 DEF SubmitProofRead, CancelPaymentRead, books
  <2>3. ASSUME NEW e \in Events, NEW t \in EventTypes, NEW p \in Payments,
               SendEvent(e, t, p) \/ ResendEvent(e) \/ AttemptFails(e)
        PROVE  UNCHANGED <<pay, granted, lost>>
    BY <2>3 DEF SendEvent, ResendEvent, AttemptFails, books
  <2>4. ASSUME NEW e \in Events, ResendEvent(e) \/ AttemptFails(e)
        PROVE  UNCHANGED <<pay, granted, lost>>
    BY <2>4 DEF ResendEvent, AttemptFails, books
  <2>5. UNCHANGED vars => UNCHANGED <<pay, granted, lost>>
    BY DEF vars
  <2> HIDE DEF Goal
  <2>6. Customer => Goal
    BY <1>2, <1>4, <1>8, <1>9, <2>1, <2>2, <2>10, <2>11 DEF Customer
  <2>7. Reviewer => Goal
    BY <1>5, <1>6 DEF Reviewer
  <2>8. Gateway => Goal
    BY <1>9, <2>3, <2>4 DEF Gateway
  <2>9. Goal
    BY <1>7, <1>9, <2>1, <2>5, <2>6, <2>7, <2>8 DEF Next
  <2> QED
    BY <2>9 DEF Goal

(***************************************************************************)
(* Subscription billing implements the ledger of paid periods: a period is *)
(* granted in the step that books a payment and in no other.               *)
(***************************************************************************)
THEOREM Refinement == Spec => RefinesPaidPeriods
<1>1. Init => Ledger!Init
  BY DEF Init, Ledger!Init, NoPayment
<1> QED
  BY <1>1, LedgerStep, Invariance, PTL DEF Spec, RefinesPaidPeriods, Ledger!Spec

(***************************************************************************)
(* So it keeps what the ledger promises: the periods a payment has granted *)
(* are its lost bookings and the one that stands, whatever the gateway,    *)
(* the customer and the reviewers do.  In particular a payment grants a    *)
(* second period only after its first booking was overwritten.             *)
(***************************************************************************)
THEOREM PeriodsAreBooked == Spec => []Ledger!OnePeriodPerBooking
<1> DEFINE Booked == {p \in Payments : pay[p].status = "succeeded"}
           Inv == \A p \in Payments : granted[p] = lost[p] + (IF p \in Booked THEN 1 ELSE 0)
<1>1. Init => Inv
  BY DEF Init, NoPayment
<1>2. IInv /\ Inv /\ [Ledger!Next]_(Ledger!vars) => Inv'
  <2> SUFFICES ASSUME IInv, Inv, [Ledger!Next]_(Ledger!vars) PROVE Inv'
    OBVIOUS
  <2>T. granted \in [Payments -> Nat] /\ lost \in [Payments -> Nat]
    BY DEF IInv, TypeOK
  <2>1. ASSUME NEW p \in Payments, Ledger!Book(p) PROVE Inv'
    BY <2>1, <2>T DEF Ledger!Book
  <2>2. ASSUME NEW p \in Payments, Ledger!Lose(p) PROVE Inv'
    BY <2>2, <2>T DEF Ledger!Lose
  <2>3. ASSUME NEW p \in Payments, Ledger!Ask(p) PROVE Inv'
    BY <2>3 DEF Ledger!Ask
  <2>4. CASE UNCHANGED Ledger!vars
    BY <2>4 DEF Ledger!vars
  <2> QED
    BY <2>1, <2>2, <2>3, <2>4 DEF Ledger!Next
<1>3. Inv => Ledger!OnePeriodPerBooking
  BY DEF Ledger!OnePeriodPerBooking
<1> QED
  BY <1>1, <1>2, <1>3, LedgerStep, Invariance, PTL DEF Spec
=============================================================================
