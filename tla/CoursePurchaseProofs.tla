------------------------ MODULE CoursePurchaseProofs ------------------------
(* Proofs about CoursePurchase, for any number of orders, payments, requests  *)
(* and methods.                                                               *)
EXTENDS CoursePurchase, TLAPS

IInv == TypeOK /\ LockInv /\ OneOpenAcademyPayment

\* The invariant holds before any request.
LEMMA InitIInv == Init => IInv
  <1> SUFFICES ASSUME Init PROVE IInv OBVIOUS
  <1> USE ConstantsAssumption
  <1>1. TypeOK BY DEF Init, TypeOK, Payment, NoPayment, NoEntries, Entries, Tx, Idle, Ops, OrderStatus,
                 PaymentStatus, ReviewStatus, Modes, PaymentIds
  <1>2. LockInv BY DEF Init, LockInv, TxOrders, TxPayments, LockExclusive, LockSeesOpen, Idle, PaymentOps
  <1>3. OneOpenAcademyPayment BY DEF Init, OneOpenAcademyPayment, Created
  <1> QED BY <1>1, <1>2, <1>3 DEF IInv

\* A Begin step only fills tx[w] with well-formed reads.
LEMMA BeginType ==
    ASSUME TypeOK, NEW w \in Workers, NEW op \in Ops, NEW o \in Orders,
           NEW p \in 0..MaxPayments, NEW seen \in OrderStatus,
           NEW open \in SUBSET PaymentIds, NEW m \in Methods \cup {None},
           Begin(w, op, o, p, seen, open, m)
    PROVE  TypeOK'
  BY DEF TypeOK, Begin, Tx, Created, Entries, Payment

\* A Begin step writes no payments row, so it opens none.
LEMMA BeginOneOpen ==
    ASSUME OneOpenAcademyPayment, NEW w, NEW op, NEW o, NEW p, NEW seen, NEW open, NEW m,
           Begin(w, op, o, p, seen, open, m)
    PROVE  OneOpenAcademyPayment'
  BY DEF OneOpenAcademyPayment, Begin, Created, IsOpen

\* A Begin step keeps what the transactions in flight rely on; the one that takes the
\* order lock (academyPay) is handed the open payments of the order as they are.
LEMMA BeginLock ==
    ASSUME IInv, NEW w \in Workers, NEW op \in Ops, NEW o \in Orders,
           NEW p \in 0..MaxPayments, NEW seen \in OrderStatus,
           NEW open \in SUBSET PaymentIds, NEW m \in Methods \cup {None},
           Begin(w, op, o, p, seen, open, m),
           op \in PaymentOps => p \in Created /\ payments[p].order = o,
           op = "academyPay" => LockFree(o, w) /\ open = OpenOf(o)
    PROVE  LockInv'
  <1>1. /\ payments' = payments /\ nPayments' = nPayments /\ Created' = Created
        /\ \A v \in Workers \ {w} : tx'[v] = tx[v]
        /\ tx'[w] = [op |-> op, order |-> o, payment |-> p, seen |-> seen, open |-> open, method |-> m]
    BY DEF Begin, IInv, TypeOK, Created
  <1>2. OpenOf(o) = {q \in Created : payments[q].order = o /\ IsOpen(q)} BY DEF OpenOf
  <1>3. TxOrders' BY <1>1 DEF IInv, LockInv, TxOrders
  <1>4. TxPayments' BY <1>1 DEF IInv, LockInv, TxPayments
  <1>5. LockExclusive' BY <1>1 DEF IInv, LockInv, LockExclusive, LockFree
  <1>6. LockSeesOpen' BY <1>1, <1>2 DEF IInv, LockInv, LockSeesOpen, IsOpen
  <1> QED BY <1>3, <1>4, <1>5, <1>6 DEF LockInv

\* Every step that opens no academy payment keeps the lock invariant and the
\* uniqueness; so does the opening of one by the holder of the order lock.
OpensNoAcademyPayment ==
    /\ Created \subseteq Created'
    /\ \A p \in Created : payments'[p].order = payments[p].order
    /\ \A p \in Created' : (payments'[p].status = "pending" /\ payments'[p].mode = "academy_manual")
          => p \in Created /\ payments[p].status = "pending" /\ payments[p].mode = "academy_manual"

\* A step that opens no academy payment cannot make two of them open.
LEMMA QuietOneOpen ==
    ASSUME IInv, OpensNoAcademyPayment
    PROVE  OneOpenAcademyPayment'
  BY DEF IInv, OpensNoAcademyPayment, OneOpenAcademyPayment, IsOpen

\* Ending a transaction keeps LockInv if every academy payment that becomes open is
\* of an order nobody else has locked.
LEMMA DoneLock ==
    ASSUME IInv, NEW w \in Workers, Done(w),
           Created \subseteq Created',
           \A p \in Created : payments'[p].order = payments[p].order,
           \A p \in Created' : (payments'[p].status = "pending" /\ payments'[p].mode = "academy_manual")
             => \/ p \in Created /\ payments[p].status = "pending" /\ payments[p].mode = "academy_manual"
                \/ LockFree(payments'[p].order, w)
    PROVE  LockInv'
  <1>1. /\ \A v \in Workers \ {w} : tx'[v] = tx[v]
        /\ tx'[w] = Idle
    BY DEF Done, IInv, TypeOK
  <1>2. tx'[w].op = "idle" BY <1>1 DEF Idle
  <1>3. "idle" \notin PaymentOps BY DEF PaymentOps
  <1>4. TxOrders' BY <1>1, <1>2 DEF IInv, LockInv, TxOrders
  <1>5. TxPayments' BY <1>1, <1>2, <1>3 DEF IInv, LockInv, TxPayments
  <1>6. LockExclusive' BY <1>1, <1>2 DEF IInv, LockInv, LockExclusive
  <1>7. LockSeesOpen'
    BY <1>1, <1>2 DEF IInv, LockInv, LockSeesOpen, IsOpen, LockFree
  <1> QED BY <1>4, <1>5, <1>6, <1>7 DEF LockInv

\* A transaction that opens no academy payment may end without disturbing LockInv.
LEMMA QuietLock ==
    ASSUME IInv, NEW w \in Workers, Done(w), OpensNoAcademyPayment
    PROVE  LockInv'
  BY DoneLock DEF OpensNoAcademyPayment

\* Without a write to the payments table nothing is opened.
LEMMA SamePayments ==
    ASSUME payments' = payments, nPayments' = nPayments
    PROVE  OpensNoAcademyPayment
  BY DEF OpensNoAcademyPayment, Created

\* Steps that write one existing payment without reopening it.
LEMMA OnePaymentWritten ==
    ASSUME TypeOK, NEW p \in Created, nPayments' = nPayments,
           \/ payments' = [payments EXCEPT ![p].review = "pending"]
           \/ payments' = [payments EXCEPT ![p].status = "succeeded", ![p].review = "approved"]
           \/ payments' = [payments EXCEPT ![p].status = "failed", ![p].review = "rejected"]
    PROVE  /\ OpensNoAcademyPayment
           /\ payments' \in [PaymentIds -> Payment]
           /\ \A q \in PaymentIds : IF q <= nPayments'
                            THEN payments'[q].order \in Orders /\ payments'[q].status # "absent"
                            ELSE payments'[q] = NoPayment
  <1>1. p \in PaymentIds BY ConstantsAssumption DEF TypeOK, Created, PaymentIds
  <1>2. OpensNoAcademyPayment
    <2>1. Created' = Created BY DEF Created
    <2>2. Created \subseteq PaymentIds BY ConstantsAssumption DEF TypeOK, Created, PaymentIds
    <2>3. \A q \in PaymentIds :
            /\ payments'[q].order = payments[q].order
            /\ payments'[q].mode = payments[q].mode
            /\ payments'[q].status = "pending" => payments[q].status = "pending"
      BY <1>1 DEF TypeOK, Payment
    <2> QED BY <2>1, <2>2, <2>3 DEF OpensNoAcademyPayment
  <1>3. payments' \in [PaymentIds -> Payment]
    BY <1>1 DEF TypeOK, Payment, ReviewStatus, PaymentStatus
  <1>4. \A q \in PaymentIds : IF q <= nPayments'
                            THEN payments'[q].order \in Orders /\ payments'[q].status # "absent"
                            ELSE payments'[q] = NoPayment
    BY <1>1 DEF TypeOK, Created, Payment
  <1> QED BY <1>2, <1>3, <1>4

\* Everything TypeOK says of the variables other than payments and nPayments.
RestTypeOK ==
    /\ order \in [Orders -> [status: OrderStatus, lapsed: BOOLEAN]]
    /\ enrollment \in {"none", "enrolled", "unavailable"}
    /\ refund \in [Orders -> 0..MaxPayments]
    /\ ledger \in [PaymentIds -> Entries]
    /\ methodsOn \in Collecting
    /\ tx \in [Workers -> Tx]
PaymentsTypeOK ==
    /\ payments \in [PaymentIds -> Payment]
    /\ nPayments \in 0..MaxPayments
    /\ \A p \in PaymentIds : IF p <= nPayments
                            THEN payments[p].order \in Orders /\ payments[p].status # "absent"
                            ELSE payments[p] = NoPayment

\* TypeOK, split into the payments table and the rest.
LEMMA TypeParts == TypeOK <=> RestTypeOK /\ PaymentsTypeOK
  BY DEF TypeOK, RestTypeOK, PaymentsTypeOK

\* Ending a transaction keeps the type of tx.
LEMMA DoneType ==
    ASSUME TypeOK, NEW w \in Workers, Done(w)
    PROVE  tx' \in [Workers -> Tx]
  <1>1. Idle \in Tx BY ConstantsAssumption DEF Idle, Tx, Ops, OrderStatus, PaymentIds
  <1> QED BY <1>1 DEF Done, TypeOK

\* The ledger sums stay integers when a sale or a refund is added.
LEMMA EntriesType ==
    ASSUME TypeOK, NEW p \in PaymentIds
    PROVE  /\ payments[p].commission \in 0..Price
           /\ SaleEntries(ledger[p], payments[p].commission) \in Entries
           /\ RefundEntries(ledger[p], payments[p].commission) \in Entries
  <1>1. payments[p].commission \in Commissions \cup {0} BY DEF TypeOK, Payment
  <1>2. Price \in Nat BY ConstantsAssumption
  <1>3. Commissions \cup {0} \subseteq 0..Price BY ConstantsAssumption, <1>2
  <1>4. payments[p].commission \in 0..Price BY <1>1, <1>3
  <1>5. payments[p].commission \in Int BY <1>4, <1>2
  <1>6. ledger[p] \in Entries BY DEF TypeOK
  <1>7. SaleEntries(ledger[p], payments[p].commission) \in Entries
    BY <1>2, <1>5, <1>6 DEF SaleEntries, Entries
  <1>8. RefundEntries(ledger[p], payments[p].commission) \in Entries
    BY <1>2, <1>5, <1>6 DEF RefundEntries, Entries
  <1> QED BY <1>4, <1>7, <1>8

\* applySuccessfulPayment keeps the types and opens no payment.
LEMMA ApplySuccess ==
    ASSUME TypeOK, NEW p \in Created, ApplySuccessfulPayment(p), nPayments' = nPayments
    PROVE  /\ OpensNoAcademyPayment /\ PaymentsTypeOK'
           /\ order' \in [Orders -> [status: OrderStatus, lapsed: BOOLEAN]]
           /\ enrollment' = "enrolled"
           /\ ledger' \in [PaymentIds -> Entries]
  <1>1. OpensNoAcademyPayment /\ PaymentsTypeOK'
    <2>1. payments' = [payments EXCEPT ![p].status = "succeeded", ![p].review = "approved"]
      BY DEF ApplySuccessfulPayment
    <2> QED BY <2>1, OnePaymentWritten DEF PaymentsTypeOK, TypeOK
  <1>2. order' \in [Orders -> [status: OrderStatus, lapsed: BOOLEAN]]
    BY DEF ApplySuccessfulPayment, TypeOK, OrderStatus
  <1>3. p \in PaymentIds BY ConstantsAssumption DEF TypeOK, Created, PaymentIds
  <1>4. ledger' \in [PaymentIds -> Entries]
    <2>1. SaleEntries(ledger[p], payments[p].commission) \in Entries
      BY <1>3, EntriesType
    <2>2. ledger' = ledger \/ ledger' = [ledger EXCEPT ![p] = SaleEntries(ledger[p], payments[p].commission)]
      BY DEF ApplySuccessfulPayment
    <2> QED BY <1>3, <2>1, <2>2 DEF TypeOK
  <1> QED BY <1>1, <1>2, <1>4 DEF ApplySuccessfulPayment

\* applyFailedPayment keeps the types and opens no payment.
LEMMA ApplyFailed ==
    ASSUME TypeOK, NEW p \in Created, ApplyFailedPayment(p), nPayments' = nPayments
    PROVE  OpensNoAcademyPayment /\ PaymentsTypeOK'
  BY OnePaymentWritten DEF ApplyFailedPayment, PaymentsTypeOK, TypeOK

\* The atlas payment created is not the academy's.
LEMMA CreateAtlas ==
    ASSUME IInv, NEW w \in Workers, CommitAtlasPayment(w)
    PROVE  IInv'
  <1> DEFINE o == tx[w].order
             n == nPayments + 1
  <1>1. o \in Orders BY DEF CommitAtlasPayment, IInv, LockInv, TxOrders
  <1>2. PICK c \in Commissions : NewPayment(payments, o, "atlas_payments", None, c)
    BY DEF CommitAtlasPayment
  <1> DEFINE row == [order |-> o, mode |-> "atlas_payments", method |-> None, status |-> "pending",
                     review |-> "not_required", commission |-> c]
  <1>3. /\ nPayments' = n /\ n \in PaymentIds /\ n \in Nat
        /\ payments' = [payments EXCEPT ![n] = row]
    BY <1>2, ConstantsAssumption DEF NewPayment, IInv, TypeOK, PaymentIds
  <1>4. row \in Payment
    BY <1>1 DEF Payment, Modes, PaymentStatus, ReviewStatus
  <1>5. /\ row.mode = "atlas_payments" /\ row.status = "pending" /\ row.order = o OBVIOUS
  <1> HIDE DEF row, o
  <1>6. Created \subseteq PaymentIds /\ Created' = Created \cup {n} /\ n \notin Created
    BY <1>3, ConstantsAssumption DEF Created, IInv, TypeOK, PaymentIds
  <1>7. PaymentsTypeOK'
    <2>1. \A q \in PaymentIds : IF q <= nPayments'
                            THEN payments'[q].order \in Orders /\ payments'[q].status # "absent"
                            ELSE payments'[q] = NoPayment
      BY <1>1, <1>3, <1>5 DEF IInv, TypeOK, PaymentIds
    <2> QED BY <1>3, <1>4, <2>1 DEF PaymentsTypeOK, IInv, TypeOK, PaymentIds
  <1>8. RestTypeOK'
    <2>1. order' \in [Orders -> [status: OrderStatus, lapsed: BOOLEAN]]
      BY DEF CommitAtlasPayment, IInv, TypeOK, OrderStatus
    <2>2. tx' \in [Workers -> Tx] BY DoneType DEF CommitAtlasPayment, IInv
    <2> QED BY <2>1, <2>2 DEF CommitAtlasPayment, RestTypeOK, IInv, TypeOK
  <1>9. OpensNoAcademyPayment
    <2>1. \A q \in Created : payments'[q] = payments[q]
      BY <1>3, <1>6 DEF IInv, TypeOK
    <2>2. payments'[n].mode # "academy_manual" BY <1>3, <1>5 DEF IInv, TypeOK
    <2> QED BY <1>6, <2>1, <2>2 DEF OpensNoAcademyPayment
  <1>10. TypeOK' BY <1>7, <1>8 DEF TypeOK, RestTypeOK, PaymentsTypeOK
  <1> QED BY <1>9, <1>10, QuietOneOpen, QuietLock DEF IInv, CommitAtlasPayment

\* The payment opened under the order lock is then the only open one of the order:
\* the lock holder has seen, and cancels, all the others.
LEMMA CreateAcademy ==
    ASSUME IInv, NEW w \in Workers, CommitAcademyPayment(w)
    PROVE  IInv'
  <1> DEFINE o == tx[w].order
             n == nPayments + 1
             keep == IF Reusable(w) = {} THEN {}
                     ELSE {CHOOSE p \in Reusable(w) : \A q \in Reusable(w) : q <= p}
             cancelled == [p \in PaymentIds |->
                             IF p \in tx[w].open \ keep
                             THEN [payments[p] EXCEPT !.status = "cancelled"] ELSE payments[p]]
             row == [order |-> o, mode |-> "academy_manual", method |-> tx[w].method,
                     status |-> "pending", review |-> "not_required", commission |-> 0]
  <1>1. /\ o \in Orders /\ tx[w].op = "academyPay" /\ Done(w)
        /\ tx[w].method \in Methods \cup {None}
    BY DEF CommitAcademyPayment, IInv, LockInv, TxOrders, TypeOK, Tx
  <1>2. \/ keep # {} /\ payments' = cancelled /\ nPayments' = nPayments
        \/ /\ keep = {} /\ nPayments < MaxPayments /\ nPayments' = n
           /\ payments' = [cancelled EXCEPT ![n] = row]
    BY DEF CommitAcademyPayment, NewPayment
  <1>3. \A p, q \in keep : p = q OBVIOUS
  <1>4. row \in Payment
    BY <1>1 DEF Payment, Modes, PaymentStatus, ReviewStatus
  <1>5. row.status = "pending" /\ row.order = o OBVIOUS
  <1>6. \A p \in PaymentIds :
          /\ cancelled[p] \in Payment
          /\ cancelled[p].order = payments[p].order /\ cancelled[p].mode = payments[p].mode
          /\ p \notin tx[w].open => cancelled[p] = payments[p]
          /\ cancelled[p].status = "pending" => payments[p].status = "pending" /\ p \notin tx[w].open \ keep
          /\ cancelled[p].status = "absent" => payments[p].status = "absent"
    BY DEF IInv, TypeOK, Payment, PaymentStatus
  <1>7. cancelled \in [PaymentIds -> Payment] BY <1>6
  <1>8. tx[w].open \subseteq Created /\ Created \subseteq PaymentIds
    BY <1>1, ConstantsAssumption DEF IInv, LockInv, LockSeesOpen, TypeOK, Created, PaymentIds
  <1>9. \A p \in Created : (payments[p].order = o /\ payments[p].status = "pending"
                             /\ payments[p].mode = "academy_manual") => p \in tx[w].open
    BY <1>1 DEF IInv, LockInv, LockSeesOpen, IsOpen
  <1> HIDE DEF o, keep, cancelled, row
  <1>10. RestTypeOK'
    <2>1. order' \in [Orders -> [status: OrderStatus, lapsed: BOOLEAN]]
      BY <1>1 DEF CommitAcademyPayment, IInv, TypeOK, OrderStatus, o
    <2>2. tx' \in [Workers -> Tx] BY <1>1, DoneType DEF IInv
    <2> QED BY <2>1, <2>2 DEF CommitAcademyPayment, RestTypeOK, IInv, TypeOK
  <1>11. LockFree(o, w)
    BY <1>1 DEF IInv, LockInv, LockExclusive, LockFree, o
  <1>12. CASE keep # {} /\ payments' = cancelled /\ nPayments' = nPayments
    <2>1. Created' = Created BY <1>12 DEF Created
    <2>2. PaymentsTypeOK'
      <3>1. \A q \in PaymentIds : IF q <= nPayments
                            THEN cancelled[q].order \in Orders /\ cancelled[q].status # "absent"
                            ELSE cancelled[q] = NoPayment
        <4> SUFFICES ASSUME NEW q \in PaymentIds
                     PROVE  IF q <= nPayments
                            THEN cancelled[q].order \in Orders /\ cancelled[q].status # "absent"
                            ELSE cancelled[q] = NoPayment
          OBVIOUS
        <4>1. CASE q <= nPayments BY <1>6, <4>1 DEF IInv, TypeOK
        <4>2. CASE ~(q <= nPayments)
          <5>1. q \notin tx[w].open BY <1>8, <4>2 DEF Created
          <5> QED BY <1>6, <4>2, <5>1 DEF IInv, TypeOK
        <4> QED BY <4>1, <4>2
      <3> QED BY <1>7, <1>12, <3>1 DEF PaymentsTypeOK, IInv, TypeOK
    <2>3. OpensNoAcademyPayment
      BY <1>6, <1>8, <1>12, <2>1 DEF OpensNoAcademyPayment
    <2>4. TypeOK' BY <1>10, <2>2 DEF TypeOK, RestTypeOK, PaymentsTypeOK
    <2> QED BY <1>1, <2>3, <2>4, QuietOneOpen, QuietLock DEF IInv
  <1>13. CASE /\ keep = {} /\ nPayments < MaxPayments /\ nPayments' = n
              /\ payments' = [cancelled EXCEPT ![n] = row]
    <2>1. /\ n \in PaymentIds /\ n \notin Created /\ Created' = Created \cup {n}
      BY <1>13, ConstantsAssumption DEF Created, IInv, TypeOK, PaymentIds
    <2>2. payments'[n] = row /\ \A p \in PaymentIds \ {n} : payments'[p] = cancelled[p]
      BY <1>7, <1>13, <2>1
    <2>3. PaymentsTypeOK'
      <3>1. \A q \in PaymentIds : IF q <= n
                            THEN payments'[q].order \in Orders /\ payments'[q].status # "absent"
                            ELSE payments'[q] = NoPayment
        <4> SUFFICES ASSUME NEW q \in PaymentIds
                     PROVE  IF q <= n
                            THEN payments'[q].order \in Orders /\ payments'[q].status # "absent"
                            ELSE payments'[q] = NoPayment
          OBVIOUS
        <4>1. CASE q = n BY <1>1, <1>5, <2>2, <4>1 DEF PaymentIds
        <4>2. CASE q # n /\ q <= n
          <5>1. q \in Created /\ q <= nPayments BY <4>2 DEF Created, PaymentIds, IInv, TypeOK
          <5> QED BY <1>6, <2>2, <4>2, <5>1 DEF IInv, TypeOK
        <4>3. CASE q > n
          <5>1. q \notin Created /\ ~(q <= nPayments)
            BY <4>3 DEF Created, PaymentIds, IInv, TypeOK
          <5>2. q # n /\ ~(q <= n) BY <4>3 DEF PaymentIds, IInv, TypeOK
          <5> QED BY <1>6, <1>8, <2>2, <5>1, <5>2 DEF IInv, TypeOK
        <4> QED BY <4>1, <4>2, <4>3 DEF PaymentIds, IInv, TypeOK
      <3>2. payments' \in [PaymentIds -> Payment] BY <1>4, <1>7, <1>13
      <3> QED BY <1>13, <2>1, <3>1, <3>2 DEF PaymentsTypeOK, PaymentIds, IInv, TypeOK
    <2>4. \A p \in Created : /\ p \in PaymentIds /\ p # n
                             /\ payments'[p].order = payments[p].order
                             /\ payments'[p].mode = payments[p].mode
                             /\ payments'[p].status = "pending" => /\ payments[p].status = "pending"
                                                                   /\ p \notin tx[w].open
      BY <1>6, <1>8, <1>13, <2>1, <2>2
    <2>5. OneOpenAcademyPayment'
      <3>1. \A p \in Created : (payments'[p].status = "pending" /\ payments'[p].mode = "academy_manual")
              => payments'[p].order # o
        BY <1>9, <2>4
      <3>2. payments'[n].order = o BY <1>5, <2>2
      <3>3. \A p, q \in Created \cup {n} :
             (/\ payments'[p].mode = "academy_manual" /\ payments'[q].mode = "academy_manual"
              /\ payments'[p].order = payments'[q].order
              /\ payments'[p].status = "pending" /\ payments'[q].status = "pending") => p = q
        BY <2>4, <3>1, <3>2 DEF IInv, OneOpenAcademyPayment, IsOpen
      <3> QED BY <2>1, <3>3 DEF OneOpenAcademyPayment, IsOpen
    <2>6. LockInv'
      <3>1. payments'[n].order = o BY <1>5, <2>2
      <3> QED BY <1>1, <1>11, <2>1, <2>4, <3>1, DoneLock
    <2>7. TypeOK' BY <1>10, <2>3 DEF TypeOK, RestTypeOK, PaymentsTypeOK
    <2> QED BY <2>5, <2>6, <2>7 DEF IInv
  <1> QED BY <1>2, <1>12, <1>13

\* A commit that changes no payments row.
LEMMA NoPaymentWritten ==
    ASSUME IInv, NEW w \in Workers, Done(w), payments' = payments, nPayments' = nPayments,
           order' \in [Orders -> [status: OrderStatus, lapsed: BOOLEAN]],
           enrollment' \in {"none", "enrolled", "unavailable"},
           refund' \in [Orders -> 0..MaxPayments],
           ledger' \in [PaymentIds -> Entries],
           methodsOn' = methodsOn
    PROVE  IInv'
  <1>1. OpensNoAcademyPayment BY SamePayments
  <1>2. TypeOK'
    <2>1. tx' \in [Workers -> Tx] BY DoneType DEF IInv
    <2> QED BY <2>1 DEF IInv, TypeOK
  <1> QED BY <1>1, <1>2, QuietOneOpen, QuietLock DEF IInv

\* A commit that settles one existing payments row.
LEMMA PaymentSettled ==
    ASSUME IInv, NEW w \in Workers, Done(w), OpensNoAcademyPayment, PaymentsTypeOK',
           order' \in [Orders -> [status: OrderStatus, lapsed: BOOLEAN]],
           enrollment' \in {"none", "enrolled", "unavailable"},
           refund' = refund, methodsOn' = methodsOn,
           ledger' \in [PaymentIds -> Entries]
    PROVE  IInv'
  <1>1. TypeOK'
    <2>1. tx' \in [Workers -> Tx] BY DoneType DEF IInv
    <2> QED BY <2>1 DEF IInv, TypeOK, PaymentsTypeOK
  <1> QED BY <1>1, QuietOneOpen, QuietLock DEF IInv

\* A step that leaves every transaction and every payments row alone.
LEMMA OutsideStep ==
    ASSUME IInv, TypeOK', UNCHANGED <<payments, nPayments, tx>>
    PROVE  IInv'
  <1>1. OneOpenAcademyPayment'
    BY SamePayments, QuietOneOpen
  <1>2. LockInv' BY DEF IInv, LockInv, TxOrders, TxPayments, LockExclusive, LockSeesOpen, Created, IsOpen
  <1> QED BY <1>1, <1>2 DEF IInv

\* A Begin step keeps the invariant.
LEMMA BeginStep ==
    ASSUME IInv, NEW w \in Workers, NEW op \in Ops, NEW o \in Orders,
           NEW p \in 0..MaxPayments, NEW seen \in OrderStatus,
           NEW open \in SUBSET PaymentIds, NEW m \in Methods \cup {None},
           Begin(w, op, o, p, seen, open, m),
           op \in PaymentOps => p \in Created /\ payments[p].order = o,
           op = "academyPay" => LockFree(o, w) /\ open = OpenOf(o)
    PROVE  IInv'
  BY BeginType, BeginOneOpen, BeginLock DEF IInv

\* Each request keeps the invariant.
LEMMA WorkerStep ==
    ASSUME IInv, NEW w \in Workers,
           OrderNext(w) \/ PaymentNext(w) \/ ReviewNext(w) \/ RefundNext(w) \/ Abort(w)
    PROVE  IInv'
  <1> USE DEF Ops, OrderStatus, PaymentOps
  <1>0. /\ Created \subseteq PaymentIds /\ Created \subseteq 0..MaxPayments
        /\ \A p \in Created : payments[p].order \in Orders
        /\ \A o \in Orders : order[o].status \in OrderStatus /\ OpenOf(o) \in SUBSET PaymentIds
        /\ 0 \in 0..MaxPayments
    <2>1. Created \subseteq PaymentIds /\ Created \subseteq 0..MaxPayments /\ 0 \in 0..MaxPayments
      BY ConstantsAssumption DEF IInv, TypeOK, Created, PaymentIds
    <2>2. \A p \in Created : payments[p].order \in Orders
      BY <2>1 DEF IInv, TypeOK, Created
    <2> QED BY <2>1, <2>2 DEF IInv, TypeOK, OpenOf
  <1>1. ASSUME NEW k \in Orders, BeginCreateOrder(w, k) PROVE IInv'
    BY <1>0, <1>1, BeginStep DEF BeginCreateOrder
  <1>2. CASE CommitCreateOrder(w)
    <2>1. order' \in [Orders -> [status: OrderStatus, lapsed: BOOLEAN]]
      BY <1>2 DEF CommitCreateOrder, IInv, TypeOK
    <2> QED BY <1>2, <2>1, NoPaymentWritten DEF CommitCreateOrder, IInv, TypeOK
  <1>3. ASSUME NEW o \in Orders, BeginAtlasPayment(w, o) PROVE IInv'
    BY <1>0, <1>3, BeginStep DEF BeginAtlasPayment
  <1>4. CASE CommitAtlasPayment(w) BY <1>4, CreateAtlas
  <1>5. ASSUME NEW o \in Orders, NEW m \in Methods, BeginAcademyPayment(w, o, m) PROVE IInv'
    BY <1>0, <1>5, BeginStep DEF BeginAcademyPayment
  <1>6. CASE CommitAcademyPayment(w) BY <1>6, CreateAcademy
  <1>7. ASSUME NEW o \in Orders, BeginExpiry(w, o) PROVE IInv'
    BY <1>0, <1>7, BeginStep DEF BeginExpiry
  <1>8. CASE FinishExpiry(w)
    <2>1. order' \in [Orders -> [status: OrderStatus, lapsed: BOOLEAN]]
      BY <1>8 DEF FinishExpiry, IInv, TypeOK
    <2> QED BY <1>8, <2>1, NoPaymentWritten DEF FinishExpiry, IInv, TypeOK
  <1>9. ASSUME NEW p \in Created, BeginSubmitProof(w, p) PROVE IInv'
    BY <1>0, <1>9, BeginStep DEF BeginSubmitProof
  <1>10. CASE CommitSubmitProof(w)
    <2>1. tx[w].payment \in Created BY <1>10 DEF CommitSubmitProof, IInv, LockInv, TxPayments
    <2>2. OpensNoAcademyPayment /\ PaymentsTypeOK'
      BY <1>10, <2>1, OnePaymentWritten DEF CommitSubmitProof, PaymentsTypeOK, IInv, TypeOK
    <2> QED BY <1>10, <2>2, PaymentSettled DEF CommitSubmitProof, IInv, TypeOK
  <1>11. ASSUME NEW p \in Created, NEW op \in Ops, BeginAcademyReview(w, p, op) PROVE IInv'
    BY <1>0, <1>11, BeginStep DEF BeginAcademyReview
  <1>12. CASE CommitAcademyApprove(w)
    <2>1. tx[w].payment \in Created BY <1>12 DEF CommitAcademyApprove, IInv, LockInv, TxPayments
    <2> QED BY <1>12, <2>1, ApplySuccess, PaymentSettled DEF CommitAcademyApprove, IInv
  <1>13. CASE CommitAcademyReject(w)
    <2>1. tx[w].payment \in Created BY <1>13 DEF CommitAcademyReject, IInv, LockInv, TxPayments
    <2>2. order' \in [Orders -> [status: OrderStatus, lapsed: BOOLEAN]]
      BY <1>13 DEF CommitAcademyReject, IInv, TypeOK
    <2> QED BY <1>13, <2>1, <2>2, ApplyFailed, PaymentSettled DEF CommitAcademyReject, IInv, TypeOK
  <1>14. ASSUME NEW p \in Created, NEW op \in Ops, BeginPlatformReview(w, p, op) PROVE IInv'
    BY <1>0, <1>14, BeginStep DEF BeginPlatformReview
  <1>15. CASE CommitPlatformApprove(w)
    <2>1. tx[w].payment \in Created BY <1>15 DEF CommitPlatformApprove, IInv, LockInv, TxPayments
    <2> QED BY <1>15, <2>1, ApplySuccess, PaymentSettled DEF CommitPlatformApprove, IInv
  <1>16. CASE CommitPlatformReject(w)
    <2>1. tx[w].payment \in Created BY <1>16 DEF CommitPlatformReject, IInv, LockInv, TxPayments
    <2> QED BY <1>16, <2>1, ApplyFailed, PaymentSettled DEF CommitPlatformReject, IInv, TypeOK
  <1>17. ASSUME NEW o \in Orders, NEW p \in Created, BeginStudentRefund(w, o, p) PROVE IInv'
    <2>1. payments[p].order = o BY <1>17 DEF BeginStudentRefund, IsLatestSucceeded, Succeeded
    <2> QED BY <1>0, <1>17, <2>1, BeginStep DEF BeginStudentRefund
  <1>18. ASSUME NEW p \in Created, BeginAcademyRefund(w, p) PROVE IInv'
    BY <1>0, <1>18, BeginStep DEF BeginAcademyRefund
  <1>19. CASE CommitRefund(w)
    <2> DEFINE p == tx[w].payment
    <2>1. p \in Created BY <1>19 DEF CommitRefund, IInv, LockInv, TxPayments
    <2>2. ledger' \in [PaymentIds -> Entries]
      <3>1. RefundEntries(ledger[p], payments[p].commission) \in Entries
        BY <1>0, <2>1, EntriesType DEF IInv
      <3>2. ledger' = ledger \/ ledger' = [ledger EXCEPT ![p] = RefundEntries(ledger[p], payments[p].commission)]
        BY <1>19 DEF CommitRefund
      <3> QED BY <1>0, <2>1, <3>1, <3>2 DEF IInv, TypeOK
    <2>3. order' \in [Orders -> [status: OrderStatus, lapsed: BOOLEAN]]
      BY <1>19 DEF CommitRefund, IInv, TypeOK
    <2>4. refund' \in [Orders -> 0..MaxPayments]
      BY <1>0, <1>19, <2>1 DEF CommitRefund, IInv, TypeOK
    <2>5. enrollment' \in {"none", "enrolled", "unavailable"} BY <1>19 DEF CommitRefund, RevokedEnrollment
    <2> QED BY <1>19, <2>2, <2>3, <2>4, <2>5, NoPaymentWritten DEF CommitRefund
  <1>20. CASE Abort(w)
    BY <1>20, NoPaymentWritten DEF Abort, IInv, TypeOK
  <1> QED BY <1>1, <1>2, <1>3, <1>4, <1>5, <1>6, <1>7, <1>8, <1>9, <1>10, <1>11, <1>12, <1>13,
             <1>14, <1>15, <1>16, <1>17, <1>18, <1>19, <1>20
          DEF OrderNext, PaymentNext, ReviewNext, RefundNext

\* IInv is inductive: every step of the system keeps it.
LEMMA NextIInv == IInv /\ [Next]_vars => IInv'
  <1> SUFFICES ASSUME IInv, [Next]_vars PROVE IInv' OBVIOUS
  <1>1. CASE \E w \in Workers : OrderNext(w) \/ PaymentNext(w) \/ ReviewNext(w)
                                \/ RefundNext(w) \/ Abort(w)
    BY <1>1, WorkerStep
  <1>2. ASSUME NEW o \in Orders, Lapse(o) PROVE IInv'
    <2>1. TypeOK' BY <1>2 DEF Lapse, IInv, TypeOK, Created
    <2> QED BY <1>2, <2>1, OutsideStep DEF Lapse
  <1>3. CASE SetPaymentMethods
    <2>1. TypeOK' BY <1>3 DEF SetPaymentMethods, IInv, TypeOK, Created
    <2> QED BY <1>3, <2>1, OutsideStep DEF SetPaymentMethods
  <1>4. CASE UNCHANGED vars
    <2>1. TypeOK' BY <1>4 DEF vars, IInv, TypeOK, Created
    <2> QED BY <1>4, <2>1, OutsideStep DEF vars
  <1> QED BY <1>1, <1>2, <1>3, <1>4 DEF Next

\* In every reachable state the tables and the transactions in flight are well formed.
THEOREM TypeCorrect == Spec => []TypeOK
  <1>1. IInv => TypeOK BY DEF IInv
  <1> QED BY InitIInv, NextIInv, <1>1, PTL DEF Spec

\* However many tabs, reviewers and expiries interleave, an order never has two open
\* academy payments (createAcademyManualPayment and its row lock).
THEOREM OneOpenAcademyPaymentHolds == Spec => []OneOpenAcademyPayment
  <1>1. IInv => OneOpenAcademyPayment BY DEF IInv
  <1> QED BY InitIInv, NextIInv, <1>1, PTL DEF Spec

\* Only finishExpiry writes 'expired', and its WHERE clause spares settled orders.
LEMMA ExpiryStep ==
    ASSUME IInv, [Next]_vars, NEW o \in Orders, order[o].status \in {"paid", "refunded"}
    PROVE  order'[o].status # "expired"
  <1>1. order[o].status # "expired" /\ order \in [Orders -> [status: OrderStatus, lapsed: BOOLEAN]]
    BY DEF IInv, TypeOK
  <1>2. CASE order' = order BY <1>1, <1>2
  <1>3. ASSUME NEW w \in Workers, OrderNext(w) \/ PaymentNext(w) PROVE order'[o].status # "expired"
    <2>1. CASE CommitCreateOrder(w) BY <1>1, <2>1 DEF CommitCreateOrder
    <2>2. CASE CommitAtlasPayment(w) BY <1>1, <2>2 DEF CommitAtlasPayment
    <2>3. CASE CommitAcademyPayment(w) BY <1>1, <2>3 DEF CommitAcademyPayment
    <2>4. CASE FinishExpiry(w) BY <1>1, <2>4 DEF FinishExpiry
    <2> QED BY <1>2, <1>3, <2>1, <2>2, <2>3, <2>4
            DEF OrderNext, PaymentNext, BeginCreateOrder, BeginAtlasPayment, BeginAcademyPayment,
                BeginExpiry, BeginSubmitProof, CommitSubmitProof, Begin
  <1>4. ASSUME NEW w \in Workers, ReviewNext(w) \/ RefundNext(w) \/ Abort(w)
        PROVE order'[o].status # "expired"
    <2>1. CASE CommitAcademyApprove(w) BY <1>1, <2>1 DEF CommitAcademyApprove, ApplySuccessfulPayment
    <2>2. CASE CommitAcademyReject(w) BY <1>1, <2>2 DEF CommitAcademyReject
    <2>3. CASE CommitPlatformApprove(w) BY <1>1, <2>3 DEF CommitPlatformApprove, ApplySuccessfulPayment
    <2>4. CASE CommitRefund(w) BY <1>1, <2>4 DEF CommitRefund
    <2> QED BY <1>2, <1>4, <2>1, <2>2, <2>3, <2>4
            DEF ReviewNext, RefundNext, Abort, BeginAcademyReview, BeginPlatformReview,
                CommitPlatformReject, BeginStudentRefund, BeginAcademyRefund, Begin
  <1>5. CASE \E x \in Orders : Lapse(x) BY <1>1, <1>5 DEF Lapse
  <1>6. CASE SetPaymentMethods BY <1>2, <1>6 DEF SetPaymentMethods
  <1>7. CASE UNCHANGED vars BY <1>2, <1>7 DEF vars
  <1> QED BY <1>3, <1>4, <1>5, <1>6, <1>7 DEF Next

\* An expiry decided by an earlier read never overwrites a payment or a refund
\* (finishExpiry's conditional update).
THEOREM SettledNeverExpiresHolds == Spec => SettledNeverExpires
  <1>1. IInv /\ [Next]_vars =>
          [\A o \in Orders : order[o].status \in {"paid", "refunded"}
                                => order'[o].status # "expired"]_vars
    BY ExpiryStep
  <1> QED BY InitIInv, NextIInv, <1>1, PTL DEF Spec, SettledNeverExpires

-----------------------------------------------------------------------------
(* Money, settlement and access *)

\* The sale of payment p has been recorded, with the commission frozen on it.
Sold(p) == ledger[p].sale >= Price /\ ledger[p].platform_fee <= -payments[p].commission

\* The ledger entries of payment p: nothing for the academy's own money, and a reversal
\* only of a recorded sale, by the refund of its order.
EntriesBacked(p) ==
    /\ ledger[p].sale >= 0 /\ ledger[p].platform_fee <= 0
    /\ payments[p].mode = "academy_manual" => ledger[p] = NoEntries
    /\ \/ ledger[p].refund = 0 /\ ledger[p].commission_reversal = 0
       \/ /\ refund[payments[p].order] = p /\ Sold(p)
          /\ ledger[p].refund = -Price
          /\ ledger[p].commission_reversal = payments[p].commission

\* What Atlas collected is in the ledger once the payment has succeeded, and when a
\* refund of it is under way, whatever later review has changed the payment's status.
LedgerInv ==
    /\ \A p \in PaymentIds \ Created : ledger[p] = NoEntries
    /\ \A p \in Created :
          /\ EntriesBacked(p)
          /\ payments[p].status = "succeeded" /\ payments[p].mode = "atlas_payments" => Sold(p)
    /\ \A w \in Workers :
          (/\ tx[w].op \in {"studentRefund", "academyRefund"}
           /\ payments[tx[w].payment].mode = "atlas_payments") => Sold(tx[w].payment)

\* A payment's order exists, and so does the order of a request about to add one; the
\* holder of the order lock still sees the status it read.
OrderInv ==
    /\ \A p \in Created : order[payments[p].order].status # "absent"
    /\ \A w \in Workers : tx[w].op \in {"atlasPay", "academyPay"}
                            => order[tx[w].order].status # "absent"
    /\ \A w \in Workers : tx[w].op = "academyPay" => tx[w].seen = order[tx[w].order].status

MoneyInv == LedgerInv /\ OrderInv /\ SucceededMeansSettled /\ AccessIsPaidFor

\* A payments row keeps its order, its collection mode and its frozen commission.
RowsKept ==
    /\ Created \subseteq Created'
    /\ \A p \in Created : /\ payments'[p].order = payments[p].order
                          /\ payments'[p].mode = payments[p].mode
                          /\ payments'[p].commission = payments[p].commission

\* The rows that exist, and the types the proofs below read off TypeOK.
LEMMA CreatedRows ==
    ASSUME TypeOK
    PROVE  /\ Created \subseteq PaymentIds /\ 0 \notin PaymentIds
           /\ \A p \in Created : payments[p].order \in Orders
           /\ \A p \in PaymentIds : /\ payments[p].commission \in Nat
                                    /\ payments[p].mode \in Modes
                                    /\ ledger[p] \in Entries
           /\ Price \in Nat /\ Price > 0
  <1>1. Created \subseteq PaymentIds /\ 0 \notin PaymentIds
    BY ConstantsAssumption DEF TypeOK, Created, PaymentIds
  <1>2. \A p \in Created : payments[p].order \in Orders
    BY <1>1 DEF TypeOK, Created
  <1>3. \A p \in PaymentIds : payments[p].commission \in Nat
    BY EntriesType, ConstantsAssumption
  <1>4. \A p \in PaymentIds : payments[p].mode \in Modes /\ ledger[p] \in Entries
    BY DEF TypeOK, Payment
  <1> QED BY <1>1, <1>2, <1>3, <1>4, ConstantsAssumption

\* A step that adds no ledger entry and no refund keeps the ledger backed, if no payment
\* of Atlas becomes succeeded and a refund under way is of a recorded sale.
LEMMA LedgerKept ==
    ASSUME IInv, LedgerInv, TypeOK', RowsKept, ledger' = ledger, refund' = refund,
           \A p \in Created' : payments'[p].status = "succeeded"
                                 /\ payments'[p].mode = "atlas_payments"
               => p \in Created /\ payments[p].status = "succeeded",
           \A v \in Workers : tx'[v].op \in {"studentRefund", "academyRefund"}
               => /\ tx'[v].payment \in Created
                  /\ payments[tx'[v].payment].mode = "atlas_payments" => Sold(tx'[v].payment)
    PROVE  LedgerInv'
  <1>1. Created' \subseteq PaymentIds
    BY ConstantsAssumption DEF TypeOK, Created, PaymentIds
  <1>2. \A p \in Created : Sold(p) => Sold(p)'
    BY DEF RowsKept, Sold
  <1>3. ASSUME NEW p \in Created'
        PROVE  /\ EntriesBacked(p)'
               /\ payments'[p].status = "succeeded" /\ payments'[p].mode = "atlas_payments" => Sold(p)'
    <2>1. CASE p \in Created
      BY <1>2, <2>1 DEF LedgerInv, EntriesBacked, RowsKept
    <2>2. CASE p \notin Created
      <3>1. ledger'[p] = NoEntries
        BY <1>1, <1>3, <2>2 DEF LedgerInv
      <3> QED BY <1>3, <2>2, <3>1 DEF EntriesBacked, NoEntries
    <2> QED BY <2>1, <2>2
  <1>4. \A p \in PaymentIds \ Created' : ledger'[p] = NoEntries
    BY DEF LedgerInv, RowsKept
  <1>5. ASSUME NEW v \in Workers, tx'[v].op \in {"studentRefund", "academyRefund"},
               payments'[tx'[v].payment].mode = "atlas_payments"
        PROVE  Sold(tx[v].payment)'
    <2>1. PICK p \in Created : p = tx'[v].payment
      BY <1>5
    <2>2. Sold(p)'
      BY <1>2, <1>5, <2>1 DEF RowsKept
    <2> QED BY <2>1, <2>2 DEF Sold
  <1>6. (\A p \in PaymentIds \ Created : ledger[p] = NoEntries)'
    BY <1>4 DEF PaymentIds
  <1>7. (\A p \in Created :
          /\ EntriesBacked(p)
          /\ payments[p].status = "succeeded" /\ payments[p].mode = "atlas_payments" => Sold(p))'
    BY <1>3
  <1>8. (\A v \in Workers :
          (/\ tx[v].op \in {"studentRefund", "academyRefund"}
           /\ payments[tx[v].payment].mode = "atlas_payments") => Sold(tx[v].payment))'
    BY <1>5
  <1> QED BY <1>6, <1>7, <1>8 DEF LedgerInv

\* The end of a transaction, in terms of the transactions left.
LEMMA DoneTx ==
    ASSUME IInv, NEW w \in Workers, Done(w)
    PROVE  /\ tx'[w].op = "idle"
           /\ \A v \in Workers \ {w} : tx'[v] = tx[v]
           /\ LedgerInv => \A v \in Workers : tx'[v].op \in {"studentRefund", "academyRefund"}
               => /\ tx'[v].payment \in Created
                  /\ payments[tx'[v].payment].mode = "atlas_payments" => Sold(tx'[v].payment)
  <1>1. tx'[w].op = "idle" /\ \A v \in Workers \ {w} : tx'[v] = tx[v]
    BY DEF IInv, TypeOK, Done, Idle
  <1>2. \A v \in Workers : tx[v].op \in {"studentRefund", "academyRefund"}
          => tx[v].payment \in Created
    BY DEF IInv, LockInv, TxPayments, PaymentOps
  <1> QED BY <1>1, <1>2 DEF LedgerInv

\* A commit keeps OrderInv if it makes no order absent, changes an existing order's status
\* only when nobody else has the order locked, and adds payments to existing orders only.
LEMMA OrderKept ==
    ASSUME IInv, OrderInv, NEW w \in Workers, Done(w), RowsKept,
           \A p \in Created' \ Created : /\ payments'[p].order \in Orders
                                         /\ order[payments'[p].order].status # "absent",
           \A o \in Orders : order[o].status # "absent" =>
               /\ order'[o].status # "absent"
               /\ order'[o].status = order[o].status \/ LockFree(o, w)
    PROVE  OrderInv'
  <1>1. tx'[w].op = "idle" /\ \A v \in Workers \ {w} : tx'[v] = tx[v]
    BY DoneTx
  <1>2. \A v \in Workers : tx[v].op \in {"atlasPay", "academyPay"} => tx[v].order \in Orders
    BY DEF IInv, LockInv, TxOrders
  <1>3. \A p \in Created' : order'[payments'[p].order].status # "absent"
    BY CreatedRows DEF OrderInv, RowsKept, IInv
  <1>4. \A v \in Workers : tx'[v].op \in {"atlasPay", "academyPay"}
                             => order'[tx'[v].order].status # "absent"
    BY <1>1, <1>2 DEF OrderInv
  <1>5. \A v \in Workers : tx'[v].op = "academyPay" => tx'[v].seen = order'[tx'[v].order].status
    BY <1>1, <1>2 DEF OrderInv, LockFree
  <1> QED BY <1>3, <1>4, <1>5 DEF OrderInv

\* Adding payments never makes an order the academy's alone.
LEMMA CollectedBefore ==
    ASSUME RowsKept, NEW o, AcademyCollected(o)'
    PROVE  AcademyCollected(o)
  BY DEF RowsKept, AcademyCollected

\* A step keeps settlement and access if an order the academy alone collects for is not
\* taken back, and what newly succeeds or enrols leaves a paid order.
LEMMA SettlementKept ==
    ASSUME IInv, TypeOK', SucceededMeansSettled, AccessIsPaidFor, RowsKept,
           \A p \in Created' : payments'[p].status = "succeeded" =>
               \/ p \in Created /\ payments[p].status = "succeeded"
               \/ order'[payments'[p].order].status = "paid",
           \A o \in Orders : AcademyCollected(o)' =>
               /\ order[o].status = "paid" =>
                    \/ order'[o].status = "paid"
                    \/ order'[o].status = "refunded" /\ enrollment' # "enrolled"
               /\ order[o].status = "refunded" => order'[o].status \in {"paid", "refunded"},
           enrollment' = "enrolled" =>
               \/ enrollment = "enrolled"
               \/ \E o \in Orders : order'[o].status = "paid"
    PROVE  SucceededMeansSettled' /\ AccessIsPaidFor'
  <1>1. SucceededMeansSettled'
    <2>1. \A p \in Created' : payments'[p].order \in Orders
      BY ConstantsAssumption DEF TypeOK, Created, PaymentIds
    <2>2. ASSUME NEW p \in Created', NEW o \in Orders, payments'[p].order = o,
                 payments'[p].status = "succeeded", AcademyCollected(o)'
          PROVE  order'[o].status \in {"paid", "refunded"}
      <3>1. CASE order'[o].status = "paid"
        BY <3>1
      <3>2. CASE p \in Created /\ payments[p].status = "succeeded"
        <4>1. payments[p].order = o
          BY <2>2, <3>2 DEF RowsKept
        <4>2. AcademyCollected(o)
          BY <2>2, CollectedBefore
        <4>3. order[o].status \in {"paid", "refunded"}
          BY <3>2, <4>1, <4>2 DEF SucceededMeansSettled
        <4> QED BY <2>2, <4>3
      <3> QED BY <2>2, <3>1, <3>2
    <2> QED BY <2>1, <2>2 DEF SucceededMeansSettled, AcademyCollected
  <1>2. AccessIsPaidFor'
    <2> SUFFICES ASSUME enrollment' = "enrolled", \A o \in Orders : AcademyCollected(o)'
                 PROVE  \E o \in Orders : order'[o].status = "paid"
      BY DEF AccessIsPaidFor, AcademyCollected
    <2>1. CASE enrollment = "enrolled"
      <3>1. \A o \in Orders : AcademyCollected(o)
        BY CollectedBefore
      <3>2. PICK o \in Orders : order[o].status = "paid"
        BY <2>1, <3>1 DEF AccessIsPaidFor
      <3> QED BY <3>2
    <2> QED BY <2>1
  <1> QED BY <1>1, <1>2

\* A Begin step writes no table; what it will rely on was read a moment ago.
LEMMA BeginMoney ==
    ASSUME IInv, TypeOK', MoneyInv, NEW w \in Workers, NEW op \in Ops, NEW o \in Orders,
           NEW p \in 0..MaxPayments, NEW seen \in OrderStatus,
           NEW open \in SUBSET PaymentIds, NEW m \in Methods \cup {None},
           Begin(w, op, o, p, seen, open, m),
           op \in {"studentRefund", "academyRefund"} =>
               p \in Created /\ (payments[p].mode = "atlas_payments" => Sold(p)),
           op \in {"atlasPay", "academyPay"} => order[o].status # "absent",
           op = "academyPay" => seen = order[o].status
    PROVE  MoneyInv'
  <1>1. /\ UNCHANGED <<order, payments, nPayments, enrollment, refund, ledger>>
        /\ Created' = Created /\ RowsKept
        /\ \A v \in Workers \ {w} : tx'[v] = tx[v]
        /\ tx'[w] = [op |-> op, order |-> o, payment |-> p, seen |-> seen, open |-> open, method |-> m]
    BY DEF Begin, IInv, TypeOK, Created, RowsKept
  <1>2. /\ tx'[w].op = op /\ tx'[w].order = o /\ tx'[w].payment = p /\ tx'[w].seen = seen
    BY <1>1
  <1>3. LedgerInv'
    <2>1. \A v \in Workers : tx'[v].op \in {"studentRefund", "academyRefund"}
            => /\ tx'[v].payment \in Created
               /\ payments[tx'[v].payment].mode = "atlas_payments" => Sold(tx'[v].payment)
      <3>1. \A v \in Workers : tx[v].op \in {"studentRefund", "academyRefund"}
              => tx[v].payment \in Created
        BY DEF IInv, LockInv, TxPayments, PaymentOps
      <3> QED BY <1>1, <1>2, <3>1 DEF MoneyInv, LedgerInv
    <2> QED BY <1>1, <2>1, LedgerKept DEF MoneyInv
  <1>4. OrderInv'
    <2>1. \A q \in Created' : order'[payments'[q].order].status # "absent"
      BY <1>1 DEF MoneyInv, OrderInv
    <2>2. \A v \in Workers : tx'[v].op \in {"atlasPay", "academyPay"}
                             => order'[tx'[v].order].status # "absent"
      BY <1>1, <1>2 DEF MoneyInv, OrderInv
    <2>3. \A v \in Workers : tx'[v].op = "academyPay" => tx'[v].seen = order'[tx'[v].order].status
      BY <1>1, <1>2 DEF MoneyInv, OrderInv
    <2> QED BY <2>1, <2>2, <2>3 DEF OrderInv
  <1>5. SucceededMeansSettled' /\ AccessIsPaidFor'
    BY <1>1, SettlementKept DEF MoneyInv
  <1> QED BY <1>3, <1>4, <1>5 DEF MoneyInv

\* A commit that adds no ledger entry and no refund, and enrols nobody.
LEMMA QuietMoney ==
    ASSUME IInv, TypeOK', MoneyInv, NEW w \in Workers, Done(w), RowsKept,
           UNCHANGED <<enrollment, refund, ledger>>,
           \A p \in Created' : payments'[p].status = "succeeded"
               => p \in Created /\ payments[p].status = "succeeded",
           \A p \in Created' \ Created : /\ payments'[p].order \in Orders
                                         /\ order[payments'[p].order].status # "absent",
           \A o \in Orders : order[o].status # "absent" =>
               /\ order'[o].status # "absent"
               /\ order'[o].status = order[o].status \/ LockFree(o, w),
           \A o \in Orders : AcademyCollected(o)' /\ order[o].status \in {"paid", "refunded"}
               => order'[o].status = order[o].status
    PROVE  MoneyInv'
  <1>1. LedgerInv'
    BY LedgerKept, DoneTx DEF MoneyInv
  <1>2. OrderInv'
    BY OrderKept DEF MoneyInv
  <1>3. SucceededMeansSettled' /\ AccessIsPaidFor'
    BY SettlementKept DEF MoneyInv
  <1> QED BY <1>1, <1>2, <1>3 DEF MoneyInv

\* No write to the payments table keeps the rows.
LEMMA SameRows ==
    ASSUME payments' = payments, nPayments' = nPayments
    PROVE  RowsKept /\ Created' = Created
  BY DEF RowsKept, Created

\* A write to the status or the review of one row keeps the rows.
LEMMA OneRowKept ==
    ASSUME TypeOK, NEW p \in Created, nPayments' = nPayments,
           \/ payments' = [payments EXCEPT ![p].review = "pending"]
           \/ payments' = [payments EXCEPT ![p].status = "succeeded", ![p].review = "approved"]
           \/ payments' = [payments EXCEPT ![p].status = "failed", ![p].review = "rejected"]
    PROVE  /\ RowsKept /\ Created' = Created
           /\ \A q \in Created \ {p} : payments'[q] = payments[q]
           /\ payments'[p].status \in {payments[p].status, "succeeded", "failed"}
  <1>1. Created \subseteq PaymentIds
    BY CreatedRows
  <1>2. Created' = Created
    BY DEF Created
  <1>3. \A q \in Created : /\ payments'[q].order = payments[q].order
                           /\ payments'[q].mode = payments[q].mode
                           /\ payments'[q].commission = payments[q].commission
    BY <1>1 DEF TypeOK, Payment
  <1>4. \A q \in Created \ {p} : payments'[q] = payments[q]
    BY <1>1 DEF TypeOK
  <1>5. payments'[p].status \in {payments[p].status, "succeeded", "failed"}
    BY <1>1 DEF TypeOK, Payment
  <1> QED BY <1>2, <1>3, <1>4, <1>5 DEF RowsKept

\* createPayment on Atlas's account: the new payment makes the order Atlas's too.
LEMMA AtlasPaymentMoney ==
    ASSUME IInv, TypeOK', MoneyInv, NEW w \in Workers, CommitAtlasPayment(w)
    PROVE  MoneyInv'
  <1>1. PICK o \in Orders : o = tx[w].order
    BY DEF CommitAtlasPayment, IInv, LockInv, TxOrders
  <1>2. PICK c \in Commissions : NewPayment(payments, o, "atlas_payments", None, c)
    BY <1>1 DEF CommitAtlasPayment
  <1>3. PICK n \in PaymentIds : n = nPayments + 1
    BY <1>2, ConstantsAssumption DEF NewPayment, IInv, TypeOK, PaymentIds
  <1>4. /\ Done(w) /\ LockFree(o, w) /\ order[o].status # "absent"
        /\ UNCHANGED <<enrollment, refund, ledger>>
        /\ order' = IF tx[w].seen = "draft"
                    THEN [order EXCEPT ![o].status = "pending_payment"] ELSE order
    BY <1>1 DEF CommitAtlasPayment, MoneyInv, OrderInv
  <1>5. /\ Created \subseteq PaymentIds /\ n \notin Created /\ Created' = Created \cup {n}
        /\ payments' = [payments EXCEPT ![n] =
              [order |-> o, mode |-> "atlas_payments", method |-> None, status |-> "pending",
               review |-> "not_required", commission |-> c]]
    BY <1>2, <1>3, ConstantsAssumption DEF NewPayment, Created, IInv, TypeOK, PaymentIds
  <1>6. /\ \A p \in Created : payments'[p] = payments[p]
        /\ payments'[n].order = o /\ payments'[n].mode = "atlas_payments"
        /\ payments'[n].status = "pending"
    BY <1>5 DEF IInv, TypeOK
  <1>7. RowsKept
    BY <1>5, <1>6 DEF RowsKept
  <1>8. /\ \A x \in Orders \ {o} : order'[x] = order[x]
        /\ order'[o].status \in {order[o].status, "pending_payment"}
    BY <1>4 DEF IInv, TypeOK
  <1>9. ~AcademyCollected(o)'
    BY <1>5, <1>6 DEF AcademyCollected
  <1>10. \A x \in Orders : AcademyCollected(x)' => order'[x] = order[x]
    BY <1>8, <1>9
  <1> QED BY <1>4, <1>5, <1>6, <1>7, <1>8, <1>10, QuietMoney

\* createAcademyManualPayment: under the lock the order is still what it was read as, so
\* only a draft becomes pending_payment.
LEMMA AcademyPaymentMoney ==
    ASSUME IInv, TypeOK', MoneyInv, NEW w \in Workers, CommitAcademyPayment(w)
    PROVE  MoneyInv'
  <1> DEFINE keep == IF Reusable(w) = {} THEN {}
                     ELSE {CHOOSE p \in Reusable(w) : \A q \in Reusable(w) : q <= p}
             cancelled == [p \in PaymentIds |->
                             IF p \in tx[w].open \ keep
                             THEN [payments[p] EXCEPT !.status = "cancelled"] ELSE payments[p]]
  <1>1. PICK o \in Orders : o = tx[w].order
    BY DEF CommitAcademyPayment, IInv, LockInv, TxOrders
  <1>2. /\ Done(w) /\ order[o].status # "absent" /\ tx[w].seen = order[o].status
        /\ tx[w].op = "academyPay"
        /\ UNCHANGED <<enrollment, refund, ledger>>
        /\ order' = [order EXCEPT ![o] =
              [status |-> IF tx[w].seen = "draft" THEN "pending_payment" ELSE order[o].status,
               lapsed |-> FALSE]]
    BY <1>1 DEF CommitAcademyPayment, MoneyInv, OrderInv
  <1>3. LockFree(o, w)
    BY <1>1, <1>2 DEF IInv, LockInv, LockExclusive, LockFree
  <1>4. \/ payments' = cancelled /\ nPayments' = nPayments
        \/ NewPayment(cancelled, o, "academy_manual", tx[w].method, 0)
    BY <1>1 DEF CommitAcademyPayment
  <1>5. \A p \in PaymentIds :
          /\ cancelled[p].order = payments[p].order /\ cancelled[p].mode = payments[p].mode
          /\ cancelled[p].commission = payments[p].commission
          /\ cancelled[p].status \in {payments[p].status, "cancelled"}
    BY DEF IInv, TypeOK, Payment
  <1>6. cancelled \in [PaymentIds -> Payment]
    <2>1. \A p \in PaymentIds : payments[p] \in Payment
      BY DEF IInv, TypeOK
    <2>2. \A p \in PaymentIds : [payments[p] EXCEPT !.status = "cancelled"] \in Payment
      BY <2>1 DEF Payment, PaymentStatus
    <2> QED BY <2>1, <2>2
  <1>7. Created \subseteq PaymentIds
    BY CreatedRows DEF IInv
  <1> HIDE DEF cancelled
  <1>8. /\ \A p \in Created : /\ payments'[p].order = payments[p].order
                              /\ payments'[p].mode = payments[p].mode
                              /\ payments'[p].commission = payments[p].commission
                              /\ payments'[p].status \in {payments[p].status, "cancelled"}
        /\ Created \subseteq Created'
        /\ \A p \in Created' \ Created : payments'[p].order = o /\ payments'[p].status = "pending"
    <2>1. CASE payments' = cancelled /\ nPayments' = nPayments
      BY <1>5, <1>7, <2>1 DEF Created
    <2>2. CASE NewPayment(cancelled, o, "academy_manual", tx[w].method, 0)
      <3>1. PICK n \in PaymentIds : n = nPayments + 1
        BY <2>2, ConstantsAssumption DEF NewPayment, IInv, TypeOK, PaymentIds
      <3>2. /\ n \notin Created /\ Created' = Created \cup {n}
            /\ payments' = [cancelled EXCEPT ![n] =
                  [order |-> o, mode |-> "academy_manual", method |-> tx[w].method,
                   status |-> "pending", review |-> "not_required", commission |-> 0]]
        BY <2>2, <3>1, ConstantsAssumption DEF NewPayment, Created, IInv, TypeOK, PaymentIds
      <3>3. /\ payments'[n].order = o /\ payments'[n].status = "pending"
            /\ \A p \in Created : payments'[p] = cancelled[p]
        BY <1>6, <1>7, <3>1, <3>2
      <3> QED BY <1>5, <1>7, <3>2, <3>3
    <2> QED BY <1>4, <2>1, <2>2
  <1>9. /\ \A x \in Orders \ {o} : order'[x] = order[x]
        /\ order'[o].status = IF order[o].status = "draft" THEN "pending_payment"
                              ELSE order[o].status
    BY <1>2 DEF IInv, TypeOK
  <1>10. RowsKept
    BY <1>8 DEF RowsKept
  <1> QED BY <1>2, <1>3, <1>8, <1>9, <1>10, QuietMoney

\* applySuccessfulPayment: the sale of an Atlas payment is recorded with its commission,
\* the order is paid and the learner enrolled, in one transaction.
LEMMA SuccessMoney ==
    ASSUME IInv, TypeOK', MoneyInv, NEW w \in Workers, Done(w), NEW p \in Created,
           LockFree(payments[p].order, w), ApplySuccessfulPayment(p),
           nPayments' = nPayments, refund' = refund
    PROVE  MoneyInv'
  <1>1. PICK o \in Orders : o = payments[p].order
    BY CreatedRows DEF IInv
  <1>2. /\ payments' = [payments EXCEPT ![p].status = "succeeded", ![p].review = "approved"]
        /\ order' = [order EXCEPT ![o].status = "paid"] /\ enrollment' = "enrolled"
        /\ ledger' = IF payments[p].mode = "atlas_payments"
                     THEN [ledger EXCEPT ![p] = SaleEntries(ledger[p], payments[p].commission)]
                     ELSE ledger
    BY <1>1 DEF ApplySuccessfulPayment
  <1>3. /\ RowsKept /\ Created' = Created
        /\ \A q \in Created \ {p} : payments'[q] = payments[q]
    BY <1>2, OneRowKept DEF IInv
  <1>4. /\ Created \subseteq PaymentIds
        /\ payments[p].commission \in Nat /\ payments[p].mode \in Modes
        /\ ledger[p] \in Entries /\ Price \in Nat
    BY CreatedRows DEF IInv
  <1>5. /\ \A x \in Orders \ {o} : order'[x] = order[x]
        /\ order'[o].status = "paid"
    BY <1>2 DEF IInv, TypeOK
  <1>6. /\ \A q \in PaymentIds \ {p} : ledger'[q] = ledger[q]
        /\ payments[p].mode # "atlas_payments" => ledger'[p] = ledger[p]
        /\ payments[p].mode = "atlas_payments" =>
             /\ ledger'[p].sale = ledger[p].sale + Price
             /\ ledger'[p].platform_fee = ledger[p].platform_fee - payments[p].commission
             /\ ledger'[p].refund = ledger[p].refund
             /\ ledger'[p].commission_reversal = ledger[p].commission_reversal
    BY <1>2, <1>4 DEF IInv, TypeOK, SaleEntries
  <1>7. /\ ledger[p].sale \in Int /\ ledger[p].platform_fee \in Int
        /\ ledger[p].sale >= 0 /\ ledger[p].platform_fee <= 0
    BY <1>4 DEF Entries, MoneyInv, LedgerInv, EntriesBacked
  <1>8. \A q \in Created : Sold(q) => Sold(q)'
    <2>1. \A q \in Created \ {p} : Sold(q) => Sold(q)'
      BY <1>3, <1>4, <1>6 DEF Sold
    <2>2. Sold(p) => Sold(p)'
      BY <1>3, <1>4, <1>6, <1>7 DEF Sold, RowsKept
    <2> QED BY <2>1, <2>2
  <1>9. payments[p].mode = "atlas_payments" => Sold(p)'
    BY <1>3, <1>4, <1>6, <1>7 DEF Sold, RowsKept
  <1>10. LedgerInv'
    <2>1. \A q \in PaymentIds \ Created' : ledger'[q] = NoEntries
      BY <1>3, <1>6 DEF MoneyInv, LedgerInv
    <2>2. ASSUME NEW q \in Created
          PROVE  /\ EntriesBacked(q)'
                 /\ payments'[q].status = "succeeded" /\ payments'[q].mode = "atlas_payments" => Sold(q)'
      <3>1. CASE q # p
        BY <1>3, <1>4, <1>6, <1>8, <3>1 DEF MoneyInv, LedgerInv, EntriesBacked
      <3>2. CASE q = p
        <4>1. payments'[p].mode = payments[p].mode /\ payments'[p].order = payments[p].order
              /\ payments'[p].commission = payments[p].commission
          BY <1>3 DEF RowsKept
        <4>2. CASE payments[p].mode = "atlas_payments"
          BY <1>4, <1>6, <1>7, <1>8, <1>9, <3>2, <4>1, <4>2
             DEF MoneyInv, LedgerInv, EntriesBacked
        <4>3. CASE payments[p].mode # "atlas_payments"
          BY <1>6, <1>8, <3>2, <4>1, <4>3 DEF MoneyInv, LedgerInv, EntriesBacked
        <4> QED BY <4>2, <4>3
      <3> QED BY <3>1, <3>2
    <2>3. ASSUME NEW v \in Workers, tx'[v].op \in {"studentRefund", "academyRefund"},
                 payments'[tx'[v].payment].mode = "atlas_payments"
          PROVE  Sold(tx[v].payment)'
      <3>1. /\ tx'[v].payment \in Created
            /\ payments[tx'[v].payment].mode = "atlas_payments" => Sold(tx'[v].payment)
        BY <2>3, DoneTx DEF MoneyInv
      <3>2. PICK q \in Created : q = tx'[v].payment
        BY <3>1
      <3>3. Sold(q)'
        BY <1>3, <1>8, <2>3, <3>1, <3>2 DEF RowsKept
      <3> QED BY <3>2, <3>3 DEF Sold
    <2>4. (\A q \in PaymentIds \ Created : ledger[q] = NoEntries)'
      BY <2>1 DEF PaymentIds
    <2>5. (\A q \in Created :
            /\ EntriesBacked(q)
            /\ payments[q].status = "succeeded" /\ payments[q].mode = "atlas_payments" => Sold(q))'
      BY <1>3, <2>2
    <2>6. (\A v \in Workers :
            (/\ tx[v].op \in {"studentRefund", "academyRefund"}
             /\ payments[tx[v].payment].mode = "atlas_payments") => Sold(tx[v].payment))'
      BY <2>3
    <2> QED BY <2>4, <2>5, <2>6 DEF LedgerInv
  <1>11. OrderInv'
    BY <1>1, <1>3, <1>5, OrderKept DEF MoneyInv
  <1>12. SucceededMeansSettled' /\ AccessIsPaidFor'
    <2>1. payments'[p].order = o
      BY <1>1, <1>3 DEF RowsKept
    <2> QED BY <1>3, <1>5, <2>1, SettlementKept DEF MoneyInv
  <1> QED BY <1>10, <1>11, <1>12 DEF MoneyInv

\* A refund: of a payment whose sale was recorded, once per order, and the access it
\* undoes ends in the same transaction.
LEMMA RefundMoney ==
    ASSUME IInv, TypeOK', MoneyInv, NEW w \in Workers, CommitRefund(w)
    PROVE  MoneyInv'
  <1>1. PICK o \in Orders : o = tx[w].order
    BY DEF CommitRefund, IInv, LockInv, TxOrders
  <1>2. PICK p \in Created : p = tx[w].payment /\ payments[p].order = o
    BY <1>1 DEF CommitRefund, IInv, LockInv, TxPayments, PaymentOps
  <1>3. /\ Done(w) /\ LockFree(o, w) /\ refund[o] = 0
        /\ refund' = [refund EXCEPT ![o] = p]
        /\ order' = [order EXCEPT ![o].status = "refunded"]
        /\ enrollment' # "enrolled"
        /\ ledger' = IF payments[p].mode = "atlas_payments"
                     THEN [ledger EXCEPT ![p] = RefundEntries(ledger[p], payments[p].commission)]
                     ELSE ledger
        /\ payments' = payments /\ nPayments' = nPayments
        /\ payments[p].mode = "atlas_payments" => Sold(p)
    BY <1>1, <1>2 DEF CommitRefund, UniqueRefund, RevokedEnrollment, MoneyInv, LedgerInv
  <1>4. RowsKept /\ Created' = Created
    BY <1>3, SameRows
  <1>5. /\ Created \subseteq PaymentIds /\ 0 \notin PaymentIds
        /\ payments[p].commission \in Nat /\ payments[p].mode \in Modes
        /\ ledger[p] \in Entries /\ Price \in Nat
        /\ \A q \in Created : payments[q].order \in Orders
    BY CreatedRows DEF IInv
  <1>6. /\ \A x \in Orders \ {o} : order'[x] = order[x] /\ refund'[x] = refund[x]
        /\ order'[o].status = "refunded" /\ refund'[o] = p
    BY <1>3 DEF IInv, TypeOK
  <1>7. /\ \A q \in PaymentIds \ {p} : ledger'[q] = ledger[q]
        /\ payments[p].mode # "atlas_payments" => ledger'[p] = ledger[p]
        /\ payments[p].mode = "atlas_payments" =>
             /\ ledger'[p].sale = ledger[p].sale
             /\ ledger'[p].platform_fee = ledger[p].platform_fee
             /\ ledger'[p].refund = ledger[p].refund - Price
             /\ ledger'[p].commission_reversal = ledger[p].commission_reversal + payments[p].commission
    BY <1>3, <1>5 DEF IInv, TypeOK, RefundEntries
  <1>8. \A q \in Created : payments[q].order = o =>
          ledger[q].refund = 0 /\ ledger[q].commission_reversal = 0
    BY <1>3, <1>5 DEF MoneyInv, LedgerInv, EntriesBacked
  <1>9. \A q \in Created : Sold(q) => Sold(q)'
    BY <1>3, <1>5, <1>7, ConstantsAssumption DEF Sold, Modes
  <1>10. LedgerInv'
    <2>1. \A q \in PaymentIds \ Created' : ledger'[q] = NoEntries
      BY <1>4, <1>7 DEF MoneyInv, LedgerInv
    <2>2. ASSUME NEW q \in Created
          PROVE  /\ EntriesBacked(q)'
                 /\ payments'[q].status = "succeeded" /\ payments'[q].mode = "atlas_payments" => Sold(q)'
      <3>1. payments'[q].status = "succeeded" /\ payments'[q].mode = "atlas_payments" => Sold(q)'
        BY <1>3, <1>9 DEF MoneyInv, LedgerInv
      <3>2. CASE q # p /\ payments[q].order # o
        BY <1>3, <1>5, <1>6, <1>7, <1>9, <3>2 DEF MoneyInv, LedgerInv, EntriesBacked
      <3>3. CASE q # p /\ payments[q].order = o
        <4>1. /\ ledger'[q] = ledger[q] /\ ledger[q].refund = 0
              /\ ledger[q].commission_reversal = 0 /\ payments'[q] = payments[q]
          BY <1>3, <1>5, <1>7, <1>8, <3>3
        <4>2. /\ ledger[q].sale >= 0 /\ ledger[q].platform_fee <= 0
              /\ payments[q].mode = "academy_manual" => ledger[q] = NoEntries
          BY DEF MoneyInv, LedgerInv, EntriesBacked
        <4> QED BY <3>1, <4>1, <4>2 DEF EntriesBacked
      <3>4. CASE q = p /\ payments[p].mode = "atlas_payments"
        <4>1. ledger'[p].refund = -Price /\ ledger'[p].commission_reversal = payments[p].commission
          BY <1>2, <1>5, <1>7, <1>8, <3>4
        <4>2. Sold(p)'
          BY <1>3, <1>9, <3>4
        <4> QED BY <1>2, <1>3, <1>6, <1>7, <3>1, <3>4, <4>1, <4>2
                DEF MoneyInv, LedgerInv, EntriesBacked
      <3>5. CASE q = p /\ payments[p].mode # "atlas_payments"
        BY <1>2, <1>3, <1>7, <1>8, <3>1, <3>5 DEF MoneyInv, LedgerInv, EntriesBacked
      <3> QED BY <3>1, <3>2, <3>3, <3>4, <3>5
    <2>3. ASSUME NEW v \in Workers, tx'[v].op \in {"studentRefund", "academyRefund"},
                 payments'[tx'[v].payment].mode = "atlas_payments"
          PROVE  Sold(tx[v].payment)'
      <3>1. /\ tx'[v].payment \in Created
            /\ payments[tx'[v].payment].mode = "atlas_payments" => Sold(tx'[v].payment)
        BY <1>3, <2>3, DoneTx DEF MoneyInv
      <3>2. PICK q \in Created : q = tx'[v].payment
        BY <3>1
      <3>3. Sold(q)'
        BY <1>3, <1>9, <2>3, <3>1, <3>2
      <3> QED BY <3>2, <3>3 DEF Sold
    <2>4. (\A q \in PaymentIds \ Created : ledger[q] = NoEntries)'
      BY <2>1 DEF PaymentIds
    <2>5. (\A q \in Created :
            /\ EntriesBacked(q)
            /\ payments[q].status = "succeeded" /\ payments[q].mode = "atlas_payments" => Sold(q))'
      BY <1>4, <2>2
    <2>6. (\A v \in Workers :
            (/\ tx[v].op \in {"studentRefund", "academyRefund"}
             /\ payments[tx[v].payment].mode = "atlas_payments") => Sold(tx[v].payment))'
      BY <2>3
    <2> QED BY <2>4, <2>5, <2>6 DEF LedgerInv
  <1>11. OrderInv'
    BY <1>3, <1>4, <1>6, OrderKept DEF MoneyInv
  <1>12. SucceededMeansSettled' /\ AccessIsPaidFor'
    BY <1>3, <1>4, <1>6, SettlementKept DEF MoneyInv
  <1> QED BY <1>10, <1>11, <1>12 DEF MoneyInv

\* MoneyInv holds before any request.
LEMMA InitMoney == Init => MoneyInv
  <1> SUFFICES ASSUME Init PROVE MoneyInv OBVIOUS
  <1>1. Created = {} BY DEF Init, Created
  <1>2. \A w \in Workers : tx[w].op = "idle" BY DEF Init, Idle
  <1>3. LedgerInv BY <1>1, <1>2 DEF Init, LedgerInv
  <1>4. OrderInv BY <1>1, <1>2 DEF OrderInv
  <1>5. SucceededMeansSettled /\ AccessIsPaidFor
    BY <1>1 DEF Init, SucceededMeansSettled, AccessIsPaidFor
  <1> QED BY <1>3, <1>4, <1>5 DEF MoneyInv

\* Each request keeps MoneyInv.
LEMMA WorkerMoney ==
    ASSUME IInv, IInv', MoneyInv, NEW w \in Workers,
           OrderNext(w) \/ PaymentNext(w) \/ ReviewNext(w) \/ RefundNext(w) \/ Abort(w)
    PROVE  MoneyInv'
  <1> USE DEF Ops, OrderStatus
  <1>0. /\ TypeOK /\ TypeOK'
        /\ Created \subseteq PaymentIds /\ Created \subseteq 0..MaxPayments
        /\ \A p \in Created : payments[p].order \in Orders
        /\ \A o \in Orders : order[o].status \in OrderStatus /\ OpenOf(o) \in SUBSET PaymentIds
        /\ 0 \in 0..MaxPayments
        /\ order \in [Orders -> [status: OrderStatus, lapsed: BOOLEAN]]
    <2>1. Created \subseteq PaymentIds /\ Created \subseteq 0..MaxPayments /\ 0 \in 0..MaxPayments
      BY ConstantsAssumption DEF IInv, TypeOK, Created, PaymentIds
    <2>2. \A p \in Created : payments[p].order \in Orders
      BY <2>1 DEF IInv, TypeOK, Created
    <2> QED BY <2>1, <2>2 DEF IInv, TypeOK, OpenOf
  <1>1. ASSUME NEW k \in Orders, BeginCreateOrder(w, k) PROVE MoneyInv'
    BY <1>0, <1>1, BeginMoney DEF BeginCreateOrder
  <1>2. CASE CommitCreateOrder(w)
    <2>1. PICK k \in Orders : k = tx[w].order
      BY <1>2 DEF CommitCreateOrder, IInv, LockInv, TxOrders
    <2>2. /\ order[k].status = "absent"
          /\ \A o \in Orders : order[o].status # "absent" => order'[o] = order[o]
      BY <1>0, <1>2, <2>1 DEF CommitCreateOrder
    <2>3. /\ Done(w) /\ UNCHANGED <<payments, nPayments, enrollment, refund, ledger>>
      BY <1>2 DEF CommitCreateOrder
    <2>4. RowsKept /\ Created' = Created
      BY <2>3, SameRows
    <2> QED BY <1>0, <2>2, <2>3, <2>4, QuietMoney
  <1>3. ASSUME NEW o \in Orders, BeginAtlasPayment(w, o) PROVE MoneyInv'
    BY <1>0, <1>3, BeginMoney DEF BeginAtlasPayment, NotPayable
  <1>4. CASE CommitAtlasPayment(w) BY <1>0, <1>4, AtlasPaymentMoney
  <1>5. ASSUME NEW o \in Orders, NEW m \in Methods, BeginAcademyPayment(w, o, m) PROVE MoneyInv'
    BY <1>0, <1>5, BeginMoney DEF BeginAcademyPayment, NotPayable
  <1>6. CASE CommitAcademyPayment(w) BY <1>0, <1>6, AcademyPaymentMoney
  <1>7. ASSUME NEW o \in Orders, BeginExpiry(w, o) PROVE MoneyInv'
    BY <1>0, <1>7, BeginMoney DEF BeginExpiry
  <1>8. CASE FinishExpiry(w)
    <2>1. PICK o \in Orders : o = tx[w].order
      BY <1>8 DEF FinishExpiry, IInv, LockInv, TxOrders
    <2>2. /\ LockFree(o, w)
          /\ \A x \in Orders \ {o} : order'[x] = order[x]
          /\ order'[o].status \in {order[o].status, "expired"}
          /\ order[o].status \in {"paid", "refunded"} => order'[o] = order[o]
      BY <1>0, <1>8, <2>1 DEF FinishExpiry
    <2>3. /\ Done(w) /\ UNCHANGED <<payments, nPayments, enrollment, refund, ledger>>
      BY <1>8 DEF FinishExpiry
    <2>4. RowsKept /\ Created' = Created
      BY <2>3, SameRows
    <2> QED BY <1>0, <2>2, <2>3, <2>4, QuietMoney
  <1>9. ASSUME NEW p \in Created, BeginSubmitProof(w, p) PROVE MoneyInv'
    BY <1>0, <1>9, BeginMoney DEF BeginSubmitProof
  <1>10. CASE CommitSubmitProof(w)
    <2>1. PICK p \in Created : p = tx[w].payment
      BY <1>10 DEF CommitSubmitProof, IInv, LockInv, TxPayments, PaymentOps
    <2>2. /\ Done(w) /\ UNCHANGED <<order, nPayments, enrollment, refund, ledger>>
          /\ payments' = [payments EXCEPT ![p].review = "pending"]
      BY <1>10, <2>1 DEF CommitSubmitProof
    <2>3. /\ RowsKept /\ Created' = Created
          /\ \A q \in Created : payments'[q].status = payments[q].status
      <3>1. \A q \in Created : payments'[q].status = payments[q].status
        BY <1>0, <2>2 DEF TypeOK, Payment
      <3> QED BY <1>0, <2>2, <3>1, OneRowKept
    <2> QED BY <1>0, <2>2, <2>3, QuietMoney
  <1>11. ASSUME NEW p \in Created, NEW op \in Ops, BeginAcademyReview(w, p, op) PROVE MoneyInv'
    BY <1>0, <1>11, BeginMoney DEF BeginAcademyReview
  <1>12. CASE CommitAcademyApprove(w)
    <2>1. PICK p \in Created : p = tx[w].payment /\ payments[p].order = tx[w].order
      BY <1>12 DEF CommitAcademyApprove, IInv, LockInv, TxPayments, PaymentOps
    <2> QED BY <1>0, <1>12, <2>1, SuccessMoney DEF CommitAcademyApprove
  <1>13. CASE CommitAcademyReject(w)
    <2>1. PICK p \in Created : p = tx[w].payment
      BY <1>13 DEF CommitAcademyReject, IInv, LockInv, TxPayments, PaymentOps
    <2>2. /\ Done(w) /\ UNCHANGED <<nPayments, enrollment, refund, ledger>>
          /\ payments' = [payments EXCEPT ![p].status = "failed", ![p].review = "rejected"]
      BY <1>13, <2>1 DEF CommitAcademyReject, ApplyFailedPayment
    <2>3. \A o \in Orders : order'[o].status = order[o].status
      BY <1>0, <1>13 DEF CommitAcademyReject
    <2>4. /\ RowsKept /\ Created' = Created
          /\ \A q \in Created : payments'[q].status \in {payments[q].status, "failed"}
      <3>1. \A q \in Created : payments'[q].status \in {payments[q].status, "failed"}
        BY <1>0, <2>2 DEF TypeOK, Payment
      <3> QED BY <1>0, <2>2, <3>1, OneRowKept
    <2> QED BY <1>0, <2>2, <2>3, <2>4, QuietMoney
  <1>14. ASSUME NEW p \in Created, NEW op \in Ops, BeginPlatformReview(w, p, op) PROVE MoneyInv'
    BY <1>0, <1>14, BeginMoney DEF BeginPlatformReview
  <1>15. CASE CommitPlatformApprove(w)
    <2>1. PICK p \in Created : p = tx[w].payment /\ payments[p].order = tx[w].order
      BY <1>15 DEF CommitPlatformApprove, IInv, LockInv, TxPayments, PaymentOps
    <2> QED BY <1>0, <1>15, <2>1, SuccessMoney DEF CommitPlatformApprove
  <1>16. CASE CommitPlatformReject(w)
    <2>1. PICK p \in Created : p = tx[w].payment
      BY <1>16 DEF CommitPlatformReject, IInv, LockInv, TxPayments, PaymentOps
    <2>2. /\ Done(w) /\ UNCHANGED <<order, nPayments, enrollment, refund, ledger>>
          /\ payments' = [payments EXCEPT ![p].status = "failed", ![p].review = "rejected"]
      BY <1>16, <2>1 DEF CommitPlatformReject, ApplyFailedPayment
    <2>3. /\ RowsKept /\ Created' = Created
          /\ \A q \in Created : payments'[q].status \in {payments[q].status, "failed"}
      <3>1. \A q \in Created : payments'[q].status \in {payments[q].status, "failed"}
        BY <1>0, <2>2 DEF TypeOK, Payment
      <3> QED BY <1>0, <2>2, <3>1, OneRowKept
    <2> QED BY <1>0, <2>2, <2>3, QuietMoney
  <1>17. ASSUME NEW o \in Orders, NEW p \in Created, BeginStudentRefund(w, o, p) PROVE MoneyInv'
    <2>1. payments[p].status = "succeeded"
      BY <1>17 DEF BeginStudentRefund, IsLatestSucceeded, Succeeded
    <2>2. payments[p].mode = "atlas_payments" => Sold(p)
      BY <2>1 DEF MoneyInv, LedgerInv
    <2> QED BY <1>0, <1>17, <2>2, BeginMoney DEF BeginStudentRefund
  <1>18. ASSUME NEW p \in Created, BeginAcademyRefund(w, p) PROVE MoneyInv'
    BY <1>0, <1>18, BeginMoney DEF BeginAcademyRefund
  <1>19. CASE CommitRefund(w) BY <1>0, <1>19, RefundMoney
  <1>20. CASE Abort(w)
    <2>1. /\ Done(w) /\ UNCHANGED <<order, payments, nPayments, enrollment, refund, ledger>>
      BY <1>20 DEF Abort
    <2>2. RowsKept /\ Created' = Created
      BY <2>1, SameRows
    <2> QED BY <1>0, <2>1, <2>2, QuietMoney
  <1> QED BY <1>1, <1>2, <1>3, <1>4, <1>5, <1>6, <1>7, <1>8, <1>9, <1>10, <1>11, <1>12, <1>13,
             <1>14, <1>15, <1>16, <1>17, <1>18, <1>19, <1>20
          DEF OrderNext, PaymentNext, ReviewNext, RefundNext

\* A step outside the transactions changes no status.
LEMMA OutsideMoney ==
    ASSUME IInv, IInv', MoneyInv, UNCHANGED <<payments, nPayments, enrollment, refund, ledger, tx>>,
           \A o \in Orders : order'[o].status = order[o].status
    PROVE  MoneyInv'
  <1>1. RowsKept /\ Created' = Created
    BY SameRows
  <1>2. \A p \in Created : payments[p].order \in Orders
    BY CreatedRows DEF IInv
  <1>3. \A v \in Workers : tx[v].op # "idle" => tx[v].order \in Orders
    BY DEF IInv, LockInv, TxOrders
  <1>4. LedgerInv'
    <2>1. \A v \in Workers : tx'[v].op \in {"studentRefund", "academyRefund"}
            => /\ tx'[v].payment \in Created
               /\ payments[tx'[v].payment].mode = "atlas_payments" => Sold(tx'[v].payment)
      BY DEF IInv, LockInv, TxPayments, PaymentOps, MoneyInv, LedgerInv
    <2> QED BY <1>1, <2>1, LedgerKept DEF MoneyInv, IInv
  <1>5. OrderInv'
    BY <1>1, <1>2, <1>3 DEF MoneyInv, OrderInv
  <1>6. SucceededMeansSettled' /\ AccessIsPaidFor'
    BY <1>1, SettlementKept DEF MoneyInv, IInv
  <1> QED BY <1>4, <1>5, <1>6 DEF MoneyInv

\* MoneyInv is inductive together with IInv.
LEMMA NextMoney == IInv /\ MoneyInv /\ [Next]_vars => IInv' /\ MoneyInv'
  <1> SUFFICES ASSUME IInv, MoneyInv, [Next]_vars PROVE IInv' /\ MoneyInv' OBVIOUS
  <1>1. IInv' BY NextIInv
  <1>2. CASE \E w \in Workers : OrderNext(w) \/ PaymentNext(w) \/ ReviewNext(w)
                                \/ RefundNext(w) \/ Abort(w)
    BY <1>1, <1>2, WorkerMoney
  <1>3. ASSUME NEW o \in Orders, Lapse(o) PROVE MoneyInv'
    <2>1. \A x \in Orders : order'[x].status = order[x].status
      BY <1>3 DEF Lapse, IInv, TypeOK
    <2> QED BY <1>1, <1>3, <2>1, OutsideMoney DEF Lapse
  <1>4. CASE SetPaymentMethods
    BY <1>1, <1>4, OutsideMoney DEF SetPaymentMethods
  <1>5. CASE UNCHANGED vars
    BY <1>1, <1>5, OutsideMoney DEF vars
  <1> QED BY <1>1, <1>2, <1>3, <1>4, <1>5 DEF Next

\* The ledger never pays back more than the sale it reverses, refunds an order once, and
\* holds nothing of the money an academy collected, however refunds race reviews.
THEOREM RefundBackedBySaleHolds == Spec => []RefundBackedBySale
  <1>1. IInv /\ MoneyInv => RefundBackedBySale
    <2> SUFFICES ASSUME IInv, MoneyInv, NEW p \in Created
                 PROVE  /\ ledger[p].sale + ledger[p].refund >= 0
                        /\ ledger[p].platform_fee + ledger[p].commission_reversal <= 0
                        /\ payments[p].mode = "academy_manual" => ledger[p] = NoEntries
                        /\ ledger[p].refund # 0 =>
                              /\ refund[payments[p].order] = p
                              /\ ledger[p].refund = -Price
                              /\ ledger[p].commission_reversal = payments[p].commission
      BY DEF RefundBackedBySale
    <2>1. /\ ledger[p].sale \in Int /\ ledger[p].platform_fee \in Int
          /\ payments[p].commission \in Nat /\ Price \in Nat
      BY CreatedRows DEF IInv, Entries
    <2>2. EntriesBacked(p)
      BY DEF MoneyInv, LedgerInv
    <2> QED BY <2>1, <2>2 DEF EntriesBacked, Sold
  <1> QED BY InitIInv, InitMoney, NextMoney, <1>1, PTL DEF Spec

\* A succeeded payment of an order the academy alone collects for is never undone by a
\* request or an expiry that read an older state: the order stays paid, or is refunded.
THEOREM SucceededMeansSettledHolds == Spec => []SucceededMeansSettled
  <1>1. MoneyInv => SucceededMeansSettled BY DEF MoneyInv
  <1> QED BY InitIInv, InitMoney, NextMoney, <1>1, PTL DEF Spec

\* While the academy alone collects, a learner with access has a paid order.
THEOREM AccessIsPaidForHolds == Spec => []AccessIsPaidFor
  <1>1. MoneyInv => AccessIsPaidFor BY DEF MoneyInv
  <1> QED BY InitIInv, InitMoney, NextMoney, <1>1, PTL DEF Spec
=============================================================================
