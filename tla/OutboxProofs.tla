---------------------------- MODULE OutboxProofs ----------------------------
(***************************************************************************)
(* Proofs about Outbox for every set of rows and workers, every provider    *)
(* chain and every bound: type correctness, the double-send guard, the      *)
(* finality of a settled row and the bound on the emails a row can cause.   *)
(*                                                                          *)
(* OneHolder is not inductive.  LeaseInv adds why it holds: a row that a    *)
(* worker holds is not due, so the claim and the sweep pass it by, and a    *)
(* job, a hint or a sweep only ever names a row that was emitted, so emit   *)
(* never makes a held row due.  SettledStaysSettled needs HeldWaits too:    *)
(* outcomes are written by id, so a row must still wait while it is held.   *)
(* ExtraEmailsNeedTrouble needs MailInv: as long as another email for the   *)
(* row may still be sent, every email sent so far is owed to some trouble.  *)
(***************************************************************************)
EXTENDS Outbox, TLAPS

Emitted(r) == row[r].state # "absent"
JobsEmitted ==
    /\ \A r \in hint : Emitted(r)
    /\ \A e \in swept : Emitted(e[1])
    /\ \A j \in queue : Emitted(j.row)
    /\ \A w \in Active : Emitted(RowOf(w))
HeldNotDue == \A r \in Rows : Holders(r) # {} => ~row[r].due
LeaseInv == JobsEmitted /\ HeldNotDue /\ OneHolder
IInv == TypeOK /\ LeaseInv

\* The initial state satisfies the inductive invariant.
LEMMA InitIInv == Init => IInv
<1> SUFFICES ASSUME Init PROVE IInv OBVIOUS
<1>1. TypeOK BY ConstantsAssumption DEF Init, TypeOK, Row, Waiting, Settled
<1>2. Active = {} BY DEF Init, Active
<1>3. LeaseInv BY <1>2 DEF Init, LeaseInv, JobsEmitted, HeldNotDue, OneHolder, Holders
<1> QED BY <1>1, <1>3 DEF IInv

\* A worker is idle or busy, never both: only a busy one has a job.
LEMMA BusyParts ==
    ASSUME TypeOK, NEW w \in Workers, worker[w] # Idle
    PROVE  /\ worker[w] \in Busy /\ worker[w].job \in Job
           /\ RowOf(w) \in Rows /\ worker[w].at \in 1..Len(Chain)
BY ConstantsAssumption DEF TypeOK, Busy, Job, RowOf

\* Two records that differ in pc are different: a busy worker is not idle.
LEMMA BusyIsNotIdle == \A b \in Busy : b # Idle
<1> SUFFICES ASSUME NEW b \in Busy PROVE b # Idle OBVIOUS
<1>1. b.pc # "idle" BY DEF Busy
<1>2. Idle.pc = "idle" BY DEF Idle
<1> QED BY <1>1, <1>2

\* Changing fields of a row or of a job within their types keeps its type.
LEMMA RowEdits ==
    ASSUME NEW x \in Row
    PROVE  /\ \A s \in Waiting \cup Settled : [x EXCEPT !.state = s] \in Row
           /\ \A b \in BOOLEAN : [x EXCEPT !.due = b] \in Row
           /\ \A b \in BOOLEAN : [x EXCEPT !.digest = b] \in Row
           /\ \A n \in Nat : [x EXCEPT !.attempts = n] \in Row
           /\ x.attempts \in Nat
BY DEF Row
\* Likewise for a job.
LEMMA JobEdits ==
    ASSUME NEW j \in Job
    PROVE  /\ [j EXCEPT !.made = @ + 1] \in Job /\ [j EXCEPT !.stalls = @ + 1] \in Job
           /\ JobId(j) \in Rows \X Nat
BY DEF Job, JobId
\* Likewise for a busy worker.
LEMMA BusyEdits ==
    ASSUME NEW b \in Busy
    PROVE  /\ \A s \in {"sending", "sent", "failing", "quota"} : [b EXCEPT !.pc = s] \in Busy
           /\ \A t \in BOOLEAN : [b EXCEPT !.tried = t] \in Busy
           /\ \A i \in DOMAIN Chain : [b EXCEPT !.at = i] \in Busy
BY DEF Busy

\* Throwing or completing leaves the queue and the workers well typed.
LEMMA ThrowType ==
    ASSUME TypeOK, NEW w \in Workers, worker[w] # Idle, Throw(w)
    PROVE  /\ worker' \in [Workers -> Busy \cup {Idle}]
           /\ queue' \subseteq Job /\ dead' \subseteq Rows \X Nat
<1>1. worker[w].job \in Job BY BusyParts
<1> DEFINE j == worker[w].job
<1>2. [j EXCEPT !.made = @ + 1] \in Job /\ JobId(j) \in Rows \X Nat BY <1>1, JobEdits
<1>3. worker' \in [Workers -> Busy \cup {Idle}] BY DEF Throw, TypeOK
<1>4. queue' = queue \/ queue' = queue \cup {[j EXCEPT !.made = @ + 1]} BY DEF Throw
<1>5. dead' = dead \/ dead' = dead \cup {JobId(j)} BY DEF Throw
<1> HIDE DEF j
<1> QED BY <1>2, <1>3, <1>4, <1>5 DEF TypeOK

\* A step of the queue or of a producer keeps the types.
LEMMA ProducerType ==
    ASSUME TypeOK,
           (\E r \in Rows : Produce(r)) \/ SweepRead \/ SweepEnqueue \/ SweepInterrupted
    PROVE  TypeOK'
<1> USE ConstantsAssumption DEF TypeOK, NoFault, NoRefusal, Fault, Refusal
<1>e. ASSUME NEW r \in Rows, NEW k \in Nat, Enqueue(r, k) PROVE queue' \subseteq Job
  BY <1>e DEF Enqueue, Job
<1>1. ASSUME NEW r \in Rows, Produce(r) PROVE TypeOK'
  <2>1. CASE Emit(r) BY <2>1 DEF Emit, Row, Waiting
  <2>2. CASE EnqueueAfterCommit(r) BY <2>2, <1>e DEF EnqueueAfterCommit
  <2>3. CASE LoseHint(r) BY <2>3 DEF LoseHint
  <2>4. CASE Elapse(r) BY <2>4 DEF Elapse, Row
  <2>5. CASE ForgetEntity(r)
    <3> DEFINE s == IF row[r].state \in Waiting THEN "suppressed" ELSE row[r].state
    <3>1. row[r] \in Row BY DEF TypeOK
    <3>2. row[r].state # "absent" BY <2>5 DEF ForgetEntity
    <3>3. s \in Waiting \cup Settled BY <3>1, <3>2 DEF Row, Settled
    <3>4. row' = [row EXCEPT ![r] = [row[r] EXCEPT !.state = s]] BY <2>5 DEF ForgetEntity
    <3> HIDE DEF s
    <3>5. row' \in [Rows -> Row] BY <3>1, <3>3, <3>4, RowEdits
    <3> QED BY <2>5, <3>5 DEF ForgetEntity
  <2> QED BY <1>1, <2>1, <2>2, <2>3, <2>4, <2>5 DEF Produce
<1>2. CASE SweepRead
  <2>1. \A q \in Rows : row[q].attempts \in Nat BY DEF Row
  <2> QED BY <1>2, <2>1 DEF SweepRead
<1>3. CASE SweepEnqueue BY <1>3, <1>e DEF SweepEnqueue
<1>4. CASE SweepInterrupted BY <1>4 DEF SweepInterrupted
<1> QED BY <1>1, <1>2, <1>3, <1>4

\* A step of a worker keeps the types.
LEMMA WorkerType ==
    ASSUME TypeOK, NEW w \in Workers, Take(w) \/ Work(w) \/ Trouble(w)
    PROVE  TypeOK'
<1> USE ConstantsAssumption DEF TypeOK, NoFault, NoRefusal, Fault, Refusal
<1>b. worker[w] # Idle => worker[w] \in Busy /\ worker[w].job \in Job /\ RowOf(w) \in Rows
                          /\ worker[w].at \in 1..Len(Chain)
  BY BusyParts
<1>t. worker[w] # Idle /\ Throw(w) => worker' \in [Workers -> Busy \cup {Idle}]
           /\ queue' \subseteq Job /\ dead' \subseteq Rows \X Nat
  BY ThrowType
<1>r. \A r \in Rows : row[r] \in Row /\ Claimed(r) \in Row
  <2> SUFFICES ASSUME NEW r \in Rows PROVE row[r] \in Row /\ Claimed(r) \in Row OBVIOUS
  <2>1. row[r] \in Row OBVIOUS
  <2>2. row[r].attempts + 1 \in Nat BY <2>1, RowEdits
  <2>3. [row[r] EXCEPT !.attempts = @ + 1] \in Row BY <2>1, <2>2, RowEdits
  <2>4. [[row[r] EXCEPT !.attempts = @ + 1] EXCEPT !.due = FALSE] \in Row BY <2>3, RowEdits
  <2> QED BY <2>1, <2>4 DEF Claimed
<1>s. \A r \in Rows, s \in Waiting \cup Settled, x \in Row : [row EXCEPT ![r] = [x EXCEPT !.state = s]] \in [Rows -> Row]
  BY RowEdits
<1>a. Sending(w) /\ Accepts(w) => keys' \in [Rows -> SUBSET Providers] /\ emails' \in [Rows -> Nat]
  <2> SUFFICES ASSUME Sending(w), Accepts(w)
               PROVE  keys' \in [Rows -> SUBSET Providers] /\ emails' \in [Rows -> Nat]
    OBVIOUS
  <2> DEFINE r == RowOf(w)
             p == Chain[worker[w].at]
  <2>1. r \in Rows /\ p \in Providers BY <1>b DEF Sending, Providers
  <2>2. /\ keys' = [keys EXCEPT ![r] = keys[r] \cup ({p} \cap Idempotent)]
        /\ emails' = [emails EXCEPT ![r] = IF p \in keys[r] THEN emails[r] ELSE emails[r] + 1]
    BY DEF Accepts
  <2> HIDE DEF r, p
  <2>3. keys[r] \in SUBSET Providers /\ emails[r] \in Nat BY <2>1
  <2>4. keys' \in [Rows -> SUBSET Providers] BY <2>1, <2>2, <2>3
  <2>5. emails' \in [Rows -> Nat] BY <2>1, <2>2, <2>3
  <2> QED BY <2>4, <2>5
<1>n. ASSUME Sending(w), NEW t \in BOOLEAN, NextProvider(w, t)
      PROVE  worker' \in [Workers -> Busy \cup {Idle}]
  <2> DEFINE state == worker[w]
             next == [state EXCEPT !.at = @ + 1, !.tried = t]
             out == IF t \/ RowOf(w) \in Security THEN "failing" ELSE "quota"
             last == [state EXCEPT !.tried = t, !.pc = out]
  <2>1. state \in Busy BY <1>n, <1>b DEF Sending
  <2>2. state.at < Len(Chain) => next \in Busy
    <3> SUFFICES ASSUME state.at < Len(Chain) PROVE next \in Busy OBVIOUS
    <3>1. state.at + 1 \in DOMAIN Chain BY <1>n, <1>b DEF Sending
    <3>2. [state EXCEPT !.at = @ + 1] \in Busy BY <2>1, <3>1, BusyEdits
    <3> QED BY <3>2, BusyEdits
  <2>3. last \in Busy
    <3>1. [state EXCEPT !.tried = t] \in Busy BY <2>1, BusyEdits
    <3>2. out \in {"sending", "sent", "failing", "quota"} OBVIOUS
    <3> QED BY <3>1, <3>2, BusyEdits
  <2>4. worker' = [worker EXCEPT ![w] = IF state.at < Len(Chain) THEN next ELSE last]
    BY <1>n DEF NextProvider
  <2> HIDE DEF next, last
  <2> QED BY <2>2, <2>3, <2>4
<1>1. CASE Take(w) BY <1>1 DEF Take, Busy
<1>2. CASE Crash(w)
  <2> DEFINE j == worker[w].job
  <2>1. worker[w] # Idle BY <1>2 DEF Crash, Active
  <2>2. [j EXCEPT !.stalls = @ + 1] \in Job /\ JobId(j) \in Rows \X Nat BY <2>1, <1>b, JobEdits
  <2>3. queue' = queue \/ queue' = queue \cup {[j EXCEPT !.stalls = @ + 1]} BY <1>2 DEF Crash
  <2>4. dead' = dead \/ dead' = dead \cup {JobId(j)} BY <1>2 DEF Crash
  <2> HIDE DEF j
  <2>5. queue' \subseteq Job /\ dead' \subseteq Rows \X Nat BY <2>2, <2>3, <2>4
  <2>6. worker' \in [Workers -> Busy \cup {Idle}] /\ faults' \in 0..MaxFaults BY <1>2 DEF Crash
  <2> QED BY <1>2, <2>5, <2>6 DEF Crash
<1>3. CASE Skip(w) BY <1>3 DEF Skip, Complete
<1>4. CASE DecideSettled(w) BY <1>4, <1>b, <1>r, <1>s DEF DecideSettled, Decides, Complete
<1>5. CASE DecideCooldown(w)
  <2>1. RowOf(w) \in Rows BY <1>5, <1>b DEF DecideCooldown, Decides
  <2>2. [Claimed(RowOf(w)) EXCEPT !.state = "deferred"] \in Row BY <2>1, <1>r, RowEdits DEF Waiting
  <2>3. row' \in [Rows -> Row] BY <1>5, <2>1, <2>2 DEF DecideCooldown
  <2>4. refusals' \in 0..MaxRefusals BY <1>5 DEF DecideCooldown
  <2> QED BY <1>5, <2>3, <2>4 DEF DecideCooldown, Complete
<1>6. CASE DecideDigest(w)
  <2>1. RowOf(w) \in Rows BY <1>6, <1>b DEF DecideDigest, Decides
  <2>2. [Claimed(RowOf(w)) EXCEPT !.state = "deferred"] \in Row BY <2>1, <1>r, RowEdits DEF Waiting
  <2>3. [[Claimed(RowOf(w)) EXCEPT !.state = "deferred"] EXCEPT !.digest = TRUE] \in Row BY <2>2, RowEdits
  <2> QED BY <1>6, <2>3 DEF DecideDigest, Complete
<1>7. CASE DecideSend(w) BY <1>7, <1>b, <1>r DEF DecideSend, Decides, Busy
<1>8. CASE DecideFails(w) BY <1>8, <1>t DEF DecideFails
<1>9. CASE SendAccepted(w) BY <1>9, <1>a, <1>b DEF SendAccepted, Sending, Busy
<1>10. CASE QuotaExhausted(w)
  <2>1. worker[w].tried \in BOOLEAN BY <1>10, <1>b DEF QuotaExhausted, Sending, Busy
  <2> QED BY <1>10, <2>1, <1>n DEF QuotaExhausted
<1>11. CASE SendTransientError(w)
  <2>1. worker' \in [Workers -> Busy \cup {Idle}] BY <1>11, <1>n DEF SendTransientError
  <2>2. keys' \in [Rows -> SUBSET Providers] /\ emails' \in [Rows -> Nat]
    BY <1>11, <1>a DEF SendTransientError
  <2>3. refusals' \in 0..MaxRefusals /\ UNCHANGED <<faults, row, queue, dead, hint, swept, forgotten>>
    BY <1>11 DEF SendTransientError
  <2> QED BY <2>1, <2>2, <2>3
<1>12. CASE SendPermanentError(w)
  <2>1. [worker[w] EXCEPT !.pc = "failing"] \in Busy BY <1>12, <1>b, BusyEdits DEF SendPermanentError, Sending
  <2>2. [[worker[w] EXCEPT !.pc = "failing"] EXCEPT !.tried = TRUE] \in Busy BY <2>1, BusyEdits
  <2>3. worker' = [worker EXCEPT ![w] = [[worker[w] EXCEPT !.pc = "failing"] EXCEPT !.tried = TRUE]]
    BY <1>12 DEF SendPermanentError
  <2> QED BY <1>12, <2>2, <2>3 DEF SendPermanentError
<1>13. CASE RecordSent(w) BY <1>13, <1>b, <1>r DEF RecordSent, Complete, Row, Settled
<1>14. CASE RecordSentFails(w)
  <2>1. [worker[w] EXCEPT !.pc = "failing"] \in Busy BY <1>14, <1>b, BusyEdits DEF RecordSentFails
  <2>2. worker' \in [Workers -> Busy \cup {Idle}] BY <1>14, <2>1 DEF RecordSentFails
  <2>3. faults' \in 0..MaxFaults BY <1>14 DEF RecordSentFails
  <2> QED BY <1>14, <2>2, <2>3 DEF RecordSentFails
<1>15. CASE HandleSendFailure(w)
  <2> DEFINE r == RowOf(w)
             back == [row[r] EXCEPT !.state = "pending", !.due = TRUE]
  <2>0. row[r] \in Row /\ r \in Rows BY <1>15, <1>b, <1>r DEF HandleSendFailure
  <2>2. [row[r] EXCEPT !.state = "pending"] \in Row BY <2>0, RowEdits DEF Waiting
  <2>3. back \in Row BY <2>2, RowEdits
  <2>4. [row[r] EXCEPT !.state = "failed"] \in Row BY <2>0, RowEdits DEF Settled
  <2>5. row' = [row EXCEPT ![r] = [row[r] EXCEPT !.state = "failed"]] \/ row' = [row EXCEPT ![r] = back]
    BY <1>15 DEF HandleSendFailure
  <2>1. row' \in [Rows -> Row]
    <3> HIDE DEF back, r
    <3> QED BY <2>0, <2>3, <2>4, <2>5
  <2> QED BY <1>15, <2>1, <1>t DEF HandleSendFailure
<1>16. CASE DeferForProviderQuota(w)
  <2> DEFINE r == RowOf(w)
             wait == [[row[r] EXCEPT !.state = "deferred"] EXCEPT !.due = FALSE]
             n == IF row[r].attempts > 0 THEN row[r].attempts - 1 ELSE 0
             parked == [wait EXCEPT !.attempts = n]
  <2>0. row[r] \in Row /\ r \in Rows BY <1>16, <1>b, <1>r DEF DeferForProviderQuota
  <2>2. [row[r] EXCEPT !.state = "deferred"] \in Row BY <2>0, RowEdits DEF Waiting
  <2>3. wait \in Row BY <2>2, RowEdits
  <2>5. row' = [row EXCEPT ![r] = parked] BY <1>16 DEF DeferForProviderQuota
  <2>4. parked \in Row
    <3>1. n \in Nat BY <2>0, RowEdits
    <3> HIDE DEF wait, n
    <3> QED BY <2>3, <3>1, RowEdits
  <2> HIDE DEF parked, r
  <2> QED BY <1>16, <2>0, <2>4, <2>5 DEF DeferForProviderQuota, Complete
<1>17. CASE OutcomeLost(w) BY <1>17, <1>t DEF OutcomeLost
<1> QED BY <1>1, <1>2, <1>3, <1>4, <1>5, <1>6, <1>7, <1>8, <1>9, <1>10, <1>11, <1>12,
           <1>13, <1>14, <1>15, <1>16, <1>17 DEF Work, Trouble

-----------------------------------------------------------------------------
(* The lease *)

\* What a worker's own change does to the holders: the others stay as they are.
LEMMA OtherHolders ==
    ASSUME TypeOK, NEW w \in Workers, NEW x \in Busy \cup {Idle},
           worker' = [worker EXCEPT ![w] = x], NEW r \in Rows
    PROVE  /\ \A v \in Workers \ {w} : v \in Holders(r)' <=> v \in Holders(r)
           /\ w \in Holders(r)' <=> (x # Idle /\ x.job.row = r /\ x.pc # "taken")
           /\ \A v \in Workers \ {w} : v \in Active' <=> v \in Active
           /\ w \in Active' <=> x # Idle
           /\ Holders(r) \subseteq Workers /\ Holders(r)' \subseteq Workers
<1>1. worker'[w] = x /\ \A v \in Workers \ {w} : worker'[v] = worker[v] BY DEF TypeOK
<1> QED BY <1>1 DEF Holders, Active, RowOf

\* A step of a producer, or of the clock: the workers do not change, no emitted
\* row disappears, and only a row nobody holds becomes due.
LEMMA ProducerLease ==
    ASSUME IInv, worker' = worker,
           \A r \in Rows : Emitted(r) => Emitted(r)',
           \A r \in Rows : row'[r].due => row[r].due \/ Holders(r) = {},
           hint' \subseteq Rows, \A r \in hint' : Emitted(r)',
           swept' \subseteq Rows \X Nat, \A e \in swept' : Emitted(e[1])',
           queue' \subseteq Job, \A j \in queue' : Emitted(j.row)'
    PROVE  LeaseInv'
<1>1. Active' = Active /\ \A r \in Rows : Holders(r)' = Holders(r) BY DEF Active, Holders, RowOf
<1>2. \A w \in Active : RowOf(w) \in Rows /\ RowOf(w)' = RowOf(w)
  BY BusyParts DEF IInv, Active, RowOf
<1>3. JobsEmitted' BY <1>1, <1>2 DEF IInv, LeaseInv, JobsEmitted
<1>4. HeldNotDue' BY <1>1 DEF IInv, LeaseInv, HeldNotDue
<1>5. OneHolder' BY <1>1 DEF IInv, LeaseInv, OneHolder
<1> QED BY <1>3, <1>4, <1>5 DEF LeaseInv

\* A worker lets its job go: its row may become due, no other row does.
LEMMA ReleaseLease ==
    ASSUME IInv, NEW w \in Workers, worker[w] # Idle,
           worker' = [worker EXCEPT ![w] = Idle],
           \A r \in Rows : Emitted(r) => Emitted(r)',
           \A r \in Rows : row'[r].due => row[r].due \/ (r = RowOf(w) /\ worker[w].pc # "taken"),
           \A j \in queue' : j \in queue \/ j.row = RowOf(w),
           hint' = hint, swept' = swept
    PROVE  LeaseInv'
<1> USE DEF IInv
<1>0. RowOf(w) \in Rows BY BusyParts
<1>1. \A r \in Rows : Holders(r)' = Holders(r) \ {w} BY OtherHolders
<1>2. Active' = Active \ {w} BY DEF Active, TypeOK
<1>3. \A v \in Active' : RowOf(v)' = RowOf(v) /\ RowOf(v) \in Rows /\ v \in Active
  BY <1>2, BusyParts DEF Active, RowOf, TypeOK
<1>4. JobsEmitted'
  <2>1. \A r \in hint' : Emitted(r)' BY DEF LeaseInv, JobsEmitted, TypeOK
  <2>2. \A e \in swept' : Emitted(e[1])'
    <3>1. \A e \in swept : e[1] \in Rows BY DEF TypeOK
    <3> QED BY <3>1 DEF LeaseInv, JobsEmitted
  <2>3. \A j \in queue' : Emitted(j.row)'
    <3>1. \A j \in queue : j.row \in Rows /\ Emitted(j.row) BY DEF LeaseInv, JobsEmitted, TypeOK, Job
    <3>2. Emitted(RowOf(w)) BY DEF LeaseInv, JobsEmitted, Active
    <3> QED BY <1>0, <3>1, <3>2
  <2>4. \A v \in Active' : Emitted(RowOf(v))'
    <3> SUFFICES ASSUME NEW v \in Active' PROVE Emitted(RowOf(v))' OBVIOUS
    <3>1. RowOf(v) \in Rows /\ Emitted(RowOf(v)) BY <1>3 DEF LeaseInv, JobsEmitted
    <3>2. \A r \in Rows : Emitted(r) <=> row[r].state # "absent" BY DEF Emitted
    <3> QED BY <1>3, <3>1 DEF Emitted
  <2> QED BY <2>1, <2>2, <2>3, <2>4 DEF JobsEmitted
<1>5. HeldNotDue'
  <2> SUFFICES ASSUME NEW r \in Rows, Holders(r)' # {}, row'[r].due PROVE FALSE
    BY DEF HeldNotDue
  <2>1. Holders(r) # {} /\ ~row[r].due BY <1>1 DEF LeaseInv, HeldNotDue
  <2>2. r = RowOf(w) /\ worker[w].pc # "taken" BY <2>1
  <2>3. w \in Holders(r) BY <2>2 DEF Holders, Active
  <2>4. Holders(r) = {w} BY <2>3 DEF LeaseInv, OneHolder
  <2> QED BY <1>1, <2>4
<1>6. OneHolder' BY <1>1 DEF LeaseInv, OneHolder
<1> QED BY <1>4, <1>5, <1>6 DEF LeaseInv

\* A worker goes on with its job: nobody else's does, and no row changes unless
\* the worker has just claimed it.
LEMMA ProceedLease ==
    ASSUME IInv, NEW w \in Workers, worker[w] # Idle, NEW x \in Busy,
           worker' = [worker EXCEPT ![w] = x], x.job = worker[w].job, x.pc # "taken",
           \/ row' = row /\ worker[w].pc # "taken"
           \/ Claimable(RowOf(w)) /\ row' = [row EXCEPT ![RowOf(w)] = Claimed(RowOf(w))],
           queue' = queue, hint' = hint, swept' = swept
    PROVE  LeaseInv'
<1> USE DEF IInv
<1>0. RowOf(w) \in Rows /\ x # Idle /\ x.job.row = RowOf(w)
  BY BusyParts, BusyIsNotIdle DEF RowOf
<1>q. PICK q \in Rows : q = RowOf(w) BY <1>0
<1>o. ASSUME NEW r \in Rows
      PROVE  /\ \A v \in Workers \ {w} : v \in Holders(r)' <=> v \in Holders(r)
             /\ w \in Holders(r)' <=> r = q
             /\ Holders(r) \subseteq Workers /\ Holders(r)' \subseteq Workers
  BY <1>0, <1>q, OtherHolders
<1>4. Holders(q) \subseteq {w}
  <2>1. CASE worker[w].pc # "taken" BY <1>0, <1>q, <2>1 DEF LeaseInv, OneHolder, Holders, Active
  <2>2. CASE Claimable(RowOf(w)) BY <1>0, <1>q, <2>2 DEF LeaseInv, HeldNotDue, Claimable
  <2> QED BY <2>1, <2>2
<1>1. \A r \in Rows \ {q} : Holders(r)' = Holders(r)
  <2> SUFFICES ASSUME NEW r \in Rows \ {q} PROVE Holders(r)' = Holders(r) OBVIOUS
  <2>1. w \notin Holders(r) BY <1>q DEF Holders
  <2>2. w \notin Holders(r)' BY <1>o
  <2>3. \A v \in Workers \ {w} : v \in Holders(r)' <=> v \in Holders(r) BY <1>o
  <2>4. Holders(r) \subseteq Workers /\ Holders(r)' \subseteq Workers BY <1>o
  <2> QED BY <2>1, <2>2, <2>3, <2>4
<1>5. Holders(q)' = {w} BY <1>o, <1>4
<1>6. Active' = Active /\ \A v \in Active : RowOf(v)' = RowOf(v) /\ RowOf(v) \in Rows
  BY <1>0, BusyParts DEF Active, RowOf, TypeOK
<1>7. \A r \in Rows : (Emitted(r) <=> Emitted(r)') /\ (r # RowOf(w) => row'[r].due = row[r].due)
  <2>1. CASE row' = row BY <2>1 DEF Emitted
  <2>2. CASE row' = [row EXCEPT ![RowOf(w)] = Claimed(RowOf(w))]
    <3>1. Claimed(RowOf(w)).state = row[RowOf(w)].state BY <1>0 DEF Claimed, TypeOK, Row
    <3> QED BY <1>0, <2>2, <3>1 DEF Emitted, TypeOK
  <2> QED BY <2>1, <2>2
<1>8. ~row'[RowOf(w)].due
  <2>1. CASE row' = row /\ worker[w].pc # "taken"
    <3>1. w \in Holders(RowOf(w)) BY <2>1 DEF Holders, Active
    <3> QED BY <1>0, <2>1, <3>1 DEF LeaseInv, HeldNotDue
  <2>2. CASE row' = [row EXCEPT ![RowOf(w)] = Claimed(RowOf(w))]
    <3>1. ~Claimed(RowOf(w)).due BY <1>0 DEF Claimed, TypeOK, Row
    <3> QED BY <1>0, <2>2, <3>1 DEF TypeOK
  <2> QED BY <2>1, <2>2
<1>9. JobsEmitted'
  <2>1. \A r \in hint' : Emitted(r)' BY <1>7 DEF LeaseInv, JobsEmitted, TypeOK
  <2>2. \A e \in swept' : Emitted(e[1])'
    <3>1. \A e \in swept : e[1] \in Rows BY DEF TypeOK
    <3> QED BY <1>7, <3>1 DEF LeaseInv, JobsEmitted
  <2>3. \A j \in queue' : Emitted(j.row)'
    <3>1. \A j \in queue : j.row \in Rows BY DEF TypeOK, Job
    <3> QED BY <1>7, <3>1 DEF LeaseInv, JobsEmitted
  <2>4. \A v \in Active' : Emitted(RowOf(v))'
    <3> SUFFICES ASSUME NEW v \in Active' PROVE Emitted(RowOf(v))' OBVIOUS
    <3>1. RowOf(v) \in Rows /\ Emitted(RowOf(v)) BY <1>6 DEF LeaseInv, JobsEmitted
    <3> QED BY <1>6, <1>7, <3>1 DEF Emitted
  <2> QED BY <2>1, <2>2, <2>3, <2>4 DEF JobsEmitted
<1>10. HeldNotDue' BY <1>1, <1>7, <1>8, <1>q DEF LeaseInv, HeldNotDue
<1>11. OneHolder' BY <1>1, <1>5 DEF LeaseInv, OneHolder
<1> QED BY <1>9, <1>10, <1>11 DEF LeaseInv

\* A step of a producer, of the sweep or of the clock keeps the lease invariant.
LEMMA ProducerStep ==
    ASSUME IInv, TypeOK',
           (\E r \in Rows : Produce(r)) \/ SweepRead \/ SweepEnqueue \/ SweepInterrupted
    PROVE  LeaseInv'
<1> USE DEF IInv
<1>h. \A r \in hint : r \in Rows /\ Emitted(r) BY DEF LeaseInv, JobsEmitted, TypeOK
<1>s. \A e \in swept : e[1] \in Rows /\ Emitted(e[1]) BY DEF LeaseInv, JobsEmitted, TypeOK
<1>j. \A j \in queue : j.row \in Rows /\ Emitted(j.row) BY DEF LeaseInv, JobsEmitted, TypeOK, Job
<1>t. hint' \subseteq Rows /\ swept' \subseteq Rows \X Nat /\ queue' \subseteq Job BY DEF TypeOK
<1>q. ASSUME NEW r \in Rows, NEW k, Emitted(r), Enqueue(r, k), row' = row
      PROVE  \A j \in queue' : Emitted(j.row)'
  <2>1. \A j \in queue' : j \in queue \/ j.row = r BY <1>q DEF Enqueue
  <2> QED BY <1>q, <1>j, <2>1 DEF Emitted
<1>1. ASSUME NEW r \in Rows, Produce(r) PROVE LeaseInv'
  <2>1. CASE Emit(r)
    <3>1. Emitted(r)' /\ \A q \in Rows \ {r} : row'[q] = row[q] BY <2>1 DEF Emit, Emitted, TypeOK
    <3>2. Holders(r) = {} BY <2>1 DEF Emit, LeaseInv, JobsEmitted, Holders, Emitted
    <3>3. worker' = worker /\ swept' = swept /\ queue' = queue /\ hint' = hint \cup {r} BY <2>1 DEF Emit
    <3>4. \A q \in Rows : Emitted(q) => Emitted(q)' BY <3>1 DEF Emitted
    <3>5. \A q \in Rows : row'[q].due => row[q].due \/ Holders(q) = {} BY <3>1, <3>2
    <3> QED BY <1>h, <1>s, <1>j, <1>t, <3>1, <3>3, <3>4, <3>5, ProducerLease
  <2>2. CASE EnqueueAfterCommit(r)
    <3>1. row' = row /\ worker' = worker /\ swept' = swept /\ hint' \subseteq hint
      BY <2>2 DEF EnqueueAfterCommit
    <3>2. \A j \in queue' : Emitted(j.row)' BY <2>2, <3>1, <1>h, <1>q DEF EnqueueAfterCommit
    <3> QED BY <1>h, <1>s, <1>t, <3>1, <3>2, ProducerLease DEF Emitted
  <2>3. CASE LoseHint(r)
    <3>1. row' = row /\ worker' = worker /\ swept' = swept /\ queue' = queue /\ hint' \subseteq hint
      BY <2>3 DEF LoseHint
    <3> QED BY <1>h, <1>s, <1>j, <1>t, <3>1, ProducerLease DEF Emitted
  <2>4. CASE Elapse(r)
    <3>1. worker' = worker /\ swept' = swept /\ queue' = queue /\ hint' = hint BY <2>4 DEF Elapse
    <3>2. row'[r].state = row[r].state /\ \A q \in Rows \ {r} : row'[q] = row[q]
      BY <2>4 DEF Elapse, TypeOK, Row
    <3>3. \A q \in Rows : Emitted(q) <=> Emitted(q)' BY <3>2 DEF Emitted
    <3>4. \A q \in Rows : row'[q].due => row[q].due \/ Holders(q) = {} BY <2>4, <3>2 DEF Elapse
    <3> QED BY <1>h, <1>s, <1>j, <1>t, <3>1, <3>3, <3>4, ProducerLease
  <2>5. CASE ForgetEntity(r)
    <3>1. worker' = worker /\ swept' = swept /\ queue' = queue /\ hint' = hint BY <2>5 DEF ForgetEntity
    <3>2. row'[r].due = row[r].due /\ row'[r].state # "absent" /\ \A q \in Rows \ {r} : row'[q] = row[q]
      BY <2>5 DEF ForgetEntity, TypeOK, Row
    <3>3. \A q \in Rows : Emitted(q) => Emitted(q)' BY <3>2 DEF Emitted
    <3>4. \A q \in Rows : row'[q].due => row[q].due BY <3>2
    <3> QED BY <1>h, <1>s, <1>j, <1>t, <3>1, <3>3, <3>4, ProducerLease
  <2> QED BY <1>1, <2>1, <2>2, <2>3, <2>4, <2>5 DEF Produce
<1>2. CASE SweepRead
  <2>1. row' = row /\ worker' = worker /\ hint' = hint /\ queue' = queue BY <1>2 DEF SweepRead
  <2>2. \A e \in swept' : \E q \in Rows : e[1] = q /\ Claimable(q) BY <1>2 DEF SweepRead
  <2>3. \A e \in swept' : Emitted(e[1])' BY <2>1, <2>2 DEF Claimable, Emitted, Waiting
  <2> QED BY <1>h, <1>j, <1>t, <2>1, <2>3, ProducerLease DEF Emitted
<1>3. CASE SweepEnqueue
  <2>1. row' = row /\ worker' = worker /\ hint' = hint /\ swept' \subseteq swept BY <1>3 DEF SweepEnqueue
  <2>2. \A j \in queue' : Emitted(j.row)' BY <1>3, <2>1, <1>s, <1>q DEF SweepEnqueue
  <2> QED BY <1>h, <1>s, <1>t, <2>1, <2>2, ProducerLease DEF Emitted
<1>4. CASE SweepInterrupted
  <2>1. row' = row /\ worker' = worker /\ hint' = hint /\ queue' = queue /\ swept' = {}
    BY <1>4 DEF SweepInterrupted
  <2> QED BY <1>h, <1>j, <1>t, <2>1, ProducerLease DEF Emitted
<1> QED BY <1>1, <1>2, <1>3, <1>4

\* A step of a worker keeps the lease invariant.
LEMMA WorkerStep ==
    ASSUME IInv, TypeOK', NEW w \in Workers, Take(w) \/ Work(w) \/ Trouble(w)
    PROVE  LeaseInv'
<1> USE DEF IInv
<1>b. worker[w] # Idle => RowOf(w) \in Rows /\ worker[w] \in Busy /\ row[RowOf(w)] \in Row
  BY BusyParts DEF TypeOK
<1>j. worker[w] # Idle /\ Throw(w) => \A j \in queue' : j \in queue \/ j.row = RowOf(w)
  <2> SUFFICES ASSUME worker[w] # Idle, Throw(w), NEW j \in queue' \ queue PROVE j.row = RowOf(w)
    OBVIOUS
  <2>1. worker[w].job \in Job BY BusyParts
  <2>2. j = [worker[w].job EXCEPT !.made = @ + 1] BY DEF Throw
  <2> QED BY <2>1, <2>2 DEF Job, RowOf
<1>i. Complete(w) \/ Throw(w) => worker' = [worker EXCEPT ![w] = Idle] BY DEF Complete, Throw
<1>u. row' = row => /\ \A r \in Rows : Emitted(r) => Emitted(r)'
                    /\ \A r \in Rows : row'[r].due => row[r].due
  BY DEF Emitted
\* The row is claimed and settled or deferred in the same transaction.
<1>c. ASSUME Decides(w), NEW x \in Row, row' = [row EXCEPT ![RowOf(w)] = x],
             x.state # "absent", ~x.due, Complete(w), hint' = hint, swept' = swept
      PROVE  LeaseInv'
  <2>1. worker[w] # Idle /\ RowOf(w) \in Rows BY <1>b, <1>c DEF Decides
  <2>2. row'[RowOf(w)] = x /\ \A r \in Rows \ {RowOf(w)} : row'[r] = row[r] BY <1>c, <2>1 DEF TypeOK
  <2>3. \A r \in Rows : Emitted(r) => Emitted(r)' BY <1>c, <2>2 DEF Emitted
  <2>4. \A r \in Rows : row'[r].due => row[r].due BY <1>c, <2>2
  <2>5. queue' = queue BY <1>c DEF Complete
  <2> QED BY <1>c, <1>i, <2>1, <2>3, <2>4, <2>5, ReleaseLease
<1>l. Decides(w) => Claimed(RowOf(w)) \in Row /\ ~Claimed(RowOf(w)).due
  <2> SUFFICES ASSUME Decides(w) PROVE Claimed(RowOf(w)) \in Row /\ ~Claimed(RowOf(w)).due OBVIOUS
  <2>1. row[RowOf(w)] \in Row BY <1>b DEF Decides
  <2>2. row[RowOf(w)].attempts + 1 \in Nat BY <2>1, RowEdits
  <2>3. [row[RowOf(w)] EXCEPT !.attempts = @ + 1] \in Row BY <2>1, <2>2, RowEdits
  <2>4. [[row[RowOf(w)] EXCEPT !.attempts = @ + 1] EXCEPT !.due = FALSE] \in Row BY <2>3, RowEdits
  <2>5. ~Claimed(RowOf(w)).due BY <2>1 DEF Claimed, Row
  <2> QED BY <2>4, <2>5 DEF Claimed
\* The outcome of a claimed row is written.
<1>w. ASSUME worker[w] # Idle, worker[w].pc # "taken", NEW x,
             row' = [row EXCEPT ![RowOf(w)] = x], x.state # "absent",
             worker' = [worker EXCEPT ![w] = Idle],
             \A j \in queue' : j \in queue \/ j.row = RowOf(w), hint' = hint, swept' = swept
      PROVE  LeaseInv'
  <2>1. RowOf(w) \in Rows BY <1>b, <1>w
  <2>2. row'[RowOf(w)] = x /\ \A r \in Rows \ {RowOf(w)} : row'[r] = row[r] BY <1>w, <2>1 DEF TypeOK
  <2>3. \A r \in Rows : Emitted(r) => Emitted(r)' BY <1>w, <2>2 DEF Emitted
  <2>4. \A r \in Rows : row'[r].due => row[r].due \/ r = RowOf(w) BY <2>2
  <2> QED BY <1>w, <2>3, <2>4, ReleaseLease
<1>1. CASE Take(w)
  <2> PICK j \in queue : /\ queue' = queue \ {j}
                         /\ worker' = [worker EXCEPT ![w] = [pc |-> "taken", job |-> j, at |-> 1, tried |-> FALSE]]
    BY <1>1 DEF Take
  <2> DEFINE x == [pc |-> "taken", job |-> j, at |-> 1, tried |-> FALSE]
  <2>1. x \in Busy /\ x.job = j /\ x.pc = "taken" BY ConstantsAssumption DEF Busy, TypeOK
  <2>2. row' = row /\ hint' = hint /\ swept' = swept /\ worker[w] = Idle BY <1>1 DEF Take
  <2>3. j.row \in Rows /\ Emitted(j.row) BY DEF LeaseInv, JobsEmitted, TypeOK, Job
  <2>5. worker' = [worker EXCEPT ![w] = x] OBVIOUS
  <2> HIDE DEF x
  <2>4. \A r \in Rows : Holders(r)' = Holders(r)
    <3> SUFFICES ASSUME NEW r \in Rows PROVE Holders(r)' = Holders(r) OBVIOUS
    <3>1. w \notin Holders(r) BY <2>2 DEF Holders, Active
    <3>2. w \notin Holders(r)' BY <2>1, <2>5, OtherHolders
    <3>3. \A v \in Workers \ {w} : v \in Holders(r)' <=> v \in Holders(r) BY <2>1, <2>5, OtherHolders
    <3>4. Holders(r) \subseteq Workers /\ Holders(r)' \subseteq Workers BY <2>1, <2>5, OtherHolders
    <3> QED BY <3>1, <3>2, <3>3, <3>4
  <2>6. \A v \in Active' : Emitted(RowOf(v))'
    <3> SUFFICES ASSUME NEW v \in Active' PROVE Emitted(RowOf(v))' OBVIOUS
    <3>1. CASE v = w BY <3>1, <2>1, <2>2, <2>3, <2>5 DEF RowOf, Emitted, TypeOK
    <3>2. CASE v # w
      <4>1. v \in Active /\ worker'[v] = worker[v] BY <3>2, <2>5 DEF Active, TypeOK
      <4> QED BY <4>1, <2>2 DEF LeaseInv, JobsEmitted, RowOf, Emitted
    <3> QED BY <3>1, <3>2
  <2>7. JobsEmitted' BY <2>2, <2>6 DEF LeaseInv, JobsEmitted, Emitted
  <2>8. HeldNotDue' BY <2>2, <2>4 DEF LeaseInv, HeldNotDue
  <2>9. OneHolder' BY <2>4 DEF LeaseInv, OneHolder
  <2> QED BY <2>7, <2>8, <2>9 DEF LeaseInv
<1>2. CASE Crash(w)
  <2>1. worker[w] # Idle /\ worker' = [worker EXCEPT ![w] = Idle] /\ row' = row /\ hint' = hint /\ swept' = swept
    BY <1>2 DEF Crash, Active
  <2>2. worker[w].job \in Job BY <2>1, BusyParts
  <2>3. \A j \in queue' : j \in queue \/ j = [worker[w].job EXCEPT !.stalls = @ + 1] BY <1>2 DEF Crash
  <2>4. \A j \in queue' : j \in queue \/ j.row = RowOf(w) BY <2>2, <2>3 DEF Job, RowOf
  <2> QED BY <2>1, <2>4, <1>u, ReleaseLease
<1>3. CASE Skip(w)
  <2>1. worker[w] # Idle /\ row' = row /\ hint' = hint /\ swept' = swept /\ queue' = queue
    BY <1>3 DEF Skip, Complete
  <2> QED BY <1>3, <2>1, <1>i, <1>u, ReleaseLease DEF Skip
<1>4. CASE DecideSettled(w)
  <2>1. PICK s \in Settled : row' = [row EXCEPT ![RowOf(w)] = [Claimed(RowOf(w)) EXCEPT !.state = s]]
    BY <1>4 DEF DecideSettled
  <2>2. Decides(w) /\ Complete(w) /\ hint' = hint /\ swept' = swept BY <1>4 DEF DecideSettled
  <2> DEFINE x == [Claimed(RowOf(w)) EXCEPT !.state = s]
  <2>3. x \in Row BY <2>2, <1>l, RowEdits
  <2>4. x.state = s /\ ~x.due BY <2>2, <1>l DEF Row
  <2>5. s # "absent" BY DEF Settled
  <2> HIDE DEF x
  <2> QED BY <2>1, <2>2, <2>3, <2>4, <2>5, <1>c DEF x
<1>5. CASE DecideCooldown(w)
  <2>2. Decides(w) /\ Complete(w) /\ hint' = hint /\ swept' = swept BY <1>5 DEF DecideCooldown
  <2> DEFINE x == [Claimed(RowOf(w)) EXCEPT !.state = "deferred"]
  <2>3. x \in Row BY <2>2, <1>l, RowEdits DEF Waiting
  <2>4. x.state = "deferred" /\ ~x.due BY <2>2, <1>l DEF Row
  <2>5. row' = [row EXCEPT ![RowOf(w)] = x] BY <1>5 DEF DecideCooldown
  <2> HIDE DEF x
  <2> QED BY <2>2, <2>3, <2>4, <2>5, <1>c
<1>6. CASE DecideDigest(w)
  <2>2. Decides(w) /\ Complete(w) /\ hint' = hint /\ swept' = swept BY <1>6 DEF DecideDigest
  <2> DEFINE y == [Claimed(RowOf(w)) EXCEPT !.state = "deferred"]
             x == [y EXCEPT !.digest = TRUE]
  <2>3. y \in Row BY <2>2, <1>l, RowEdits DEF Waiting
  <2>4. y.state = "deferred" /\ ~y.due BY <2>2, <1>l DEF Row
  <2>5. row' = [row EXCEPT ![RowOf(w)] = x] BY <1>6 DEF DecideDigest
  <2> HIDE DEF y
  <2>6. x \in Row BY <2>3, RowEdits
  <2>7. x.state = "deferred" /\ ~x.due BY <2>3, <2>4 DEF Row
  <2> HIDE DEF x
  <2> QED BY <2>2, <2>5, <2>6, <2>7, <1>c
<1>7. CASE DecideSend(w)
  <2>1. worker[w] # Idle /\ Claimable(RowOf(w)) BY <1>7 DEF DecideSend, Decides
  <2> DEFINE x == [worker[w] EXCEPT !.pc = "sending"]
  <2>2. x \in Busy BY <2>1, <1>b, BusyEdits
  <2>3. x.job = worker[w].job /\ x.pc = "sending" BY <2>1, <1>b DEF Busy
  <2>4. /\ row' = [row EXCEPT ![RowOf(w)] = Claimed(RowOf(w))] /\ worker' = [worker EXCEPT ![w] = x]
        /\ queue' = queue /\ hint' = hint /\ swept' = swept
    BY <1>7 DEF DecideSend
  <2> HIDE DEF x
  <2> QED BY <2>1, <2>2, <2>3, <2>4, ProceedLease
<1>8. CASE DecideFails(w)
  <2>1. worker[w] # Idle /\ Throw(w) /\ row' = row /\ hint' = hint /\ swept' = swept BY <1>8 DEF DecideFails
  <2> QED BY <2>1, <1>i, <1>j, <1>u, ReleaseLease
\* Between two provider calls only the worker's own progress changes.
<1>p. ASSUME worker[w] # Idle, worker[w].pc # "taken", row' = row, queue' = queue, hint' = hint, swept' = swept,
             NEW x \in Busy, x.job = worker[w].job, x.pc # "taken", worker' = [worker EXCEPT ![w] = x]
      PROVE  LeaseInv'
  BY <1>p, ProceedLease
<1>n. ASSUME Sending(w), NEW t \in BOOLEAN, NextProvider(w, t), row' = row, queue' = queue, hint' = hint, swept' = swept
      PROVE  LeaseInv'
  <2> DEFINE out == IF t \/ RowOf(w) \in Security THEN "failing" ELSE "quota"
             x == IF worker[w].at < Len(Chain) THEN [worker[w] EXCEPT !.at = @ + 1, !.tried = t]
                  ELSE [worker[w] EXCEPT !.tried = t, !.pc = out]
  <2>0. worker[w] \in Busy /\ worker[w] # Idle /\ worker[w].pc = "sending" BY <1>n, <1>b DEF Sending
  <2>1. worker' = [worker EXCEPT ![w] = x] BY <1>n DEF NextProvider
  <2>2. x.job = worker[w].job /\ x.pc # "taken" BY <2>0 DEF Busy
  <2> HIDE DEF x
  <2>3. worker'[w] = x /\ worker'[w] \in Busy \cup {Idle} BY <2>1 DEF TypeOK
  <2>4. x # Idle
    <3>1. x.job \in Job BY <2>0, <2>2 DEF Busy
    <3>2. x.pc # "idle" BY <2>0 DEF x, Busy
    <3> QED BY <3>2 DEF Idle
  <2> QED BY <1>n, <1>p, <2>0, <2>1, <2>2, <2>3, <2>4
<1>9. CASE SendAccepted(w)
  <2>1. worker[w] # Idle /\ worker[w].pc = "sending" BY <1>9 DEF SendAccepted, Sending
  <2> DEFINE x == [worker[w] EXCEPT !.pc = "sent"]
  <2>2. x \in Busy BY <2>1, <1>b, BusyEdits
  <2>3. x.job = worker[w].job /\ x.pc = "sent" BY <2>1, <1>b DEF Busy
  <2>4. worker' = [worker EXCEPT ![w] = x] /\ UNCHANGED <<row, queue, hint, swept>> BY <1>9 DEF SendAccepted
  <2> HIDE DEF x
  <2> QED BY <2>1, <2>2, <2>3, <2>4, <1>p
<1>10. CASE QuotaExhausted(w)
  <2>1. worker[w].tried \in BOOLEAN BY <1>10, <1>b DEF QuotaExhausted, Sending, Busy
  <2> QED BY <1>10, <2>1, <1>n DEF QuotaExhausted
<1>11. CASE SendTransientError(w) BY <1>11, <1>n DEF SendTransientError
<1>12. CASE SendPermanentError(w)
  <2>1. worker[w] # Idle /\ worker[w].pc = "sending" BY <1>12 DEF SendPermanentError, Sending
  <2> DEFINE y == [worker[w] EXCEPT !.pc = "failing"]
             x == [y EXCEPT !.tried = TRUE]
  <2>2. y \in Busy /\ y.job = worker[w].job /\ y.pc = "failing" BY <2>1, <1>b, BusyEdits DEF Busy
  <2>3. worker' = [worker EXCEPT ![w] = x] /\ UNCHANGED <<row, queue, hint, swept>> BY <1>12 DEF SendPermanentError
  <2> HIDE DEF y
  <2>4. x \in Busy BY <2>2, BusyEdits
  <2>5. x.job = worker[w].job /\ x.pc = "failing" BY <2>2 DEF Busy
  <2> HIDE DEF x
  <2> QED BY <2>1, <2>3, <2>4, <2>5, <1>p
<1>13. CASE RecordSent(w)
  <2>1. worker[w] # Idle /\ worker[w].pc = "sent" /\ hint' = hint /\ swept' = swept /\ queue' = queue
    BY <1>13 DEF RecordSent, Complete
  <2> DEFINE x == [row[RowOf(w)] EXCEPT !.state = "dispatched"]
  <2>2. x.state = "dispatched" BY <2>1, <1>b DEF Row
  <2>3. row' = [row EXCEPT ![RowOf(w)] = x] BY <1>13 DEF RecordSent
  <2>4. worker' = [worker EXCEPT ![w] = Idle] BY <1>13, <1>i DEF RecordSent
  <2> HIDE DEF x
  <2> QED BY <2>1, <2>2, <2>3, <2>4, <1>w
<1>14. CASE RecordSentFails(w)
  <2>1. worker[w] # Idle /\ worker[w].pc = "sent" BY <1>14 DEF RecordSentFails
  <2> DEFINE x == [worker[w] EXCEPT !.pc = "failing"]
  <2>2. x \in Busy BY <2>1, <1>b, BusyEdits
  <2>3. x.job = worker[w].job /\ x.pc = "failing" BY <2>1, <1>b DEF Busy
  <2>4. worker' = [worker EXCEPT ![w] = x] /\ UNCHANGED <<row, queue, hint, swept>> BY <1>14 DEF RecordSentFails
  <2> HIDE DEF x
  <2> QED BY <2>1, <2>2, <2>3, <2>4, <1>p
<1>15. CASE HandleSendFailure(w)
  <2>1. worker[w] # Idle /\ worker[w].pc = "failing" /\ Throw(w) /\ hint' = hint /\ swept' = swept
    BY <1>15 DEF HandleSendFailure
  <2> DEFINE r == RowOf(w)
             x == IF worker[w].job.made + 1 >= MaxAttempts THEN [row[r] EXCEPT !.state = "failed"]
                  ELSE [row[r] EXCEPT !.state = "pending", !.due = TRUE]
  <2>2. row' = [row EXCEPT ![RowOf(w)] = x] BY <1>15 DEF HandleSendFailure
  <2>3. x.state # "absent" BY <2>1, <1>b DEF Row
  <2> HIDE DEF x
  <2> QED BY <2>1, <2>2, <2>3, <1>i, <1>j, <1>w
<1>16. CASE DeferForProviderQuota(w)
  <2>1. worker[w] # Idle /\ worker[w].pc = "quota" /\ hint' = hint /\ swept' = swept /\ queue' = queue
    BY <1>16 DEF DeferForProviderQuota, Complete
  <2> DEFINE r == RowOf(w)
             n == IF row[r].attempts > 0 THEN row[r].attempts - 1 ELSE 0
             x == [row[r] EXCEPT !.state = "deferred", !.due = FALSE, !.attempts = n]
  <2>2. row' = [row EXCEPT ![RowOf(w)] = x] BY <1>16 DEF DeferForProviderQuota
  <2>3. x.state # "absent" BY <2>1, <1>b DEF Row
  <2>4. worker' = [worker EXCEPT ![w] = Idle] BY <1>16, <1>i DEF DeferForProviderQuota
  <2> HIDE DEF x
  <2> QED BY <2>1, <2>2, <2>3, <2>4, <1>w
<1>17. CASE OutcomeLost(w)
  <2>1. worker[w] # Idle /\ Throw(w) /\ row' = row /\ hint' = hint /\ swept' = swept BY <1>17 DEF OutcomeLost
  <2> QED BY <2>1, <1>i, <1>j, <1>u, ReleaseLease
<1> QED BY <1>1, <1>2, <1>3, <1>4, <1>5, <1>6, <1>7, <1>8, <1>9, <1>10, <1>11, <1>12,
           <1>13, <1>14, <1>15, <1>16, <1>17 DEF Work, Trouble

\* Every step keeps the inductive invariant.
LEMMA NextIInv == IInv /\ [Next]_vars => IInv'
<1> SUFFICES ASSUME IInv, [Next]_vars PROVE IInv' OBVIOUS
<1>1. CASE (\E r \in Rows : Produce(r)) \/ SweepRead \/ SweepEnqueue \/ SweepInterrupted
  <2>1. TypeOK' BY <1>1, ProducerType DEF IInv
  <2> QED BY <1>1, <2>1, ProducerStep DEF IInv
<1>2. CASE \E w \in Workers : Take(w) \/ Work(w) \/ Trouble(w)
  <2>1. PICK w \in Workers : Take(w) \/ Work(w) \/ Trouble(w) BY <1>2
  <2>2. TypeOK' BY <2>1, WorkerType DEF IInv
  <2> QED BY <2>1, <2>2, WorkerStep DEF IInv
<1>3. CASE UNCHANGED vars
  BY <1>3 DEF vars, IInv, TypeOK, LeaseInv, JobsEmitted, HeldNotDue, OneHolder, Holders, Active, RowOf, Emitted
<1> QED BY <1>1, <1>2, <1>3 DEF Next

\* communication_outbox, its jobs and its workers always have their types.
THEOREM TypeCorrect == Spec => []TypeOK
<1>1. IInv => TypeOK BY DEF IInv
<1> QED BY <1>1, InitIInv, NextIInv, PTL DEF Spec

\* The double-send guard: for any number of rows, jobs, sweeps, crashes and
\* workers, at most one live worker holds a row between claim and outcome.
THEOREM OneHolderAlways == Spec => []OneHolder
<1>1. IInv => OneHolder BY DEF IInv, LeaseInv
<1> QED BY <1>1, InitIInv, NextIInv, PTL DEF Spec
-----------------------------------------------------------------------------
\* A row that a worker holds is not settled, unless forgetEntity settled it.
HeldWaits == \A r \in Rows \ forgotten : Holders(r) # {} => row[r].state \in Waiting
\* What one step may do to row r: leave its state, or take a row that was not
\* settled to a state it waits in or to one nobody holds it in.
StateMove(r) ==
    \/ row'[r].state = row[r].state
    \/ /\ row[r].state \notin Settled
       /\ row'[r].state \in Waiting \/ Holders(r)' = {} \/ r \in forgotten'
\* A step that makes a worker a holder of row r leaves r waiting.
HolderMove(r) == Holders(r)' \subseteq Holders(r) \/ row'[r].state \in Waiting

\* The workers do not change, so neither do the holders.
LEMMA SameHolders ==
    ASSUME worker' = worker, NEW r PROVE Holders(r)' = Holders(r)
BY DEF Holders, Active, RowOf

\* A worker that becomes idle, takes a job or goes on with the one it holds
\* does not become a holder; one that becomes idle is none.
LEMMA FewerHolders ==
    ASSUME TypeOK, NEW w \in Workers, NEW x, worker' = [worker EXCEPT ![w] = x],
           \/ x = Idle \/ x.pc = "taken"
           \/ worker[w] # Idle /\ worker[w].pc # "taken" /\ x.job = worker[w].job,
           NEW r
    PROVE  Holders(r)' \subseteq Holders(r) /\ (x = Idle => w \notin Holders(r)')
<1>1. worker'[w] = x /\ \A v \in Workers \ {w} : worker'[v] = worker[v] BY DEF TypeOK
<1> QED BY <1>1 DEF Holders, Active, RowOf

\* A step that changes no row and makes no holder.
LEMMA QuietMove ==
    ASSUME row' = row, forgotten' = forgotten, \A r \in Rows : Holders(r)' \subseteq Holders(r)
    PROVE  forgotten \subseteq forgotten' /\ \A r \in Rows \ forgotten : StateMove(r) /\ HolderMove(r)
BY DEF StateMove, HolderMove

\* The steps of the producers, of the sweep and of the clock.
LEMMA ProducerMoves ==
    ASSUME IInv,
           (\E r \in Rows : Produce(r)) \/ SweepRead \/ SweepEnqueue \/ SweepInterrupted
    PROVE  forgotten \subseteq forgotten' /\ \A r \in Rows \ forgotten : StateMove(r) /\ HolderMove(r)
<1> USE DEF IInv
<1>w. worker' = worker
  BY DEF Produce, Emit, EnqueueAfterCommit, LoseHint, Elapse, ForgetEntity, SweepRead, SweepEnqueue,
         SweepInterrupted
<1>h. \A r \in Rows : Holders(r)' = Holders(r) BY <1>w, SameHolders
<1>1. ASSUME NEW q \in Rows, Emit(q)
      PROVE  forgotten \subseteq forgotten' /\ \A r \in Rows \ forgotten : StateMove(r) /\ HolderMove(r)
  <2>1. row[q].state = "absent" /\ forgotten' = forgotten BY <1>1 DEF Emit
  <2>2. row'[q].state = "pending" /\ \A r \in Rows \ {q} : row'[r] = row[r] BY <1>1 DEF Emit, TypeOK
  <2> QED BY <1>h, <2>1, <2>2 DEF StateMove, HolderMove, Waiting, Settled
<1>2. ASSUME NEW q \in Rows, Elapse(q)
      PROVE  forgotten \subseteq forgotten' /\ \A r \in Rows \ forgotten : StateMove(r) /\ HolderMove(r)
  <2>1. forgotten' = forgotten /\ row[q] \in Row BY <1>2 DEF Elapse, TypeOK
  <2>2. row'[q].state = row[q].state /\ \A r \in Rows \ {q} : row'[r] = row[r]
    BY <1>2, <2>1 DEF Elapse, TypeOK, Row
  <2> QED BY <1>h, <2>1, <2>2 DEF StateMove, HolderMove
<1>3. ASSUME NEW q \in Rows, ForgetEntity(q)
      PROVE  forgotten \subseteq forgotten' /\ \A r \in Rows \ forgotten : StateMove(r) /\ HolderMove(r)
  <2>1. forgotten' = forgotten \cup {q} /\ row[q] \in Row BY <1>3 DEF ForgetEntity, TypeOK
  <2>2. \A r \in Rows \ {q} : row'[r] = row[r] BY <1>3 DEF ForgetEntity, TypeOK
  <2>3. row[q].state \in Waiting \/ row'[q].state = row[q].state
    BY <1>3, <2>1 DEF ForgetEntity, TypeOK, Row
  <2> QED BY <1>h, <2>1, <2>2, <2>3 DEF StateMove, HolderMove, Waiting, Settled
<1>4. CASE \/ \E q \in Rows : EnqueueAfterCommit(q) \/ LoseHint(q)
           \/ SweepRead \/ SweepEnqueue \/ SweepInterrupted
  <2>1. row' = row /\ forgotten' = forgotten
    BY <1>4 DEF EnqueueAfterCommit, LoseHint, SweepRead, SweepEnqueue, SweepInterrupted
  <2> QED BY <1>h, <2>1, QuietMove
<1> QED BY <1>1, <1>2, <1>3, <1>4 DEF Produce

\* The steps of a worker.  A decision finds the row due, so nobody holds it;
\* an outcome is written by the row's only holder, which lets it go.
LEMMA WorkerMoves ==
    ASSUME IInv, HeldWaits, NEW w \in Workers, Take(w) \/ Work(w) \/ Trouble(w)
    PROVE  forgotten \subseteq forgotten' /\ \A r \in Rows \ forgotten : StateMove(r) /\ HolderMove(r)
<1> USE DEF IInv
<1>b. worker[w] # Idle => RowOf(w) \in Rows /\ worker[w] \in Busy /\ row[RowOf(w)] \in Row
  BY BusyParts DEF TypeOK
<1>f. forgotten' = forgotten
  BY DEF Take, Work, Trouble, Skip, DecideSettled, DecideDigest, DecideSend, SendAccepted, RecordSent,
         HandleSendFailure, DeferForProviderQuota, Crash, DecideFails, DecideCooldown, QuotaExhausted,
         SendTransientError, SendPermanentError, RecordSentFails, OutcomeLost
<1>i. Complete(w) \/ Throw(w) => worker' = [worker EXCEPT ![w] = Idle] BY DEF Complete, Throw
\* The worker lets its job go and writes nothing.
<1>g. ASSUME worker' = [worker EXCEPT ![w] = Idle], row' = row
      PROVE  forgotten \subseteq forgotten' /\ \A r \in Rows \ forgotten : StateMove(r) /\ HolderMove(r)
  <2>1. \A r \in Rows : Holders(r)' \subseteq Holders(r) BY <1>g, FewerHolders
  <2> QED BY <1>f, <1>g, <2>1, QuietMove
\* The worker lets its job go and writes its row x.
<1>x. ASSUME worker' = [worker EXCEPT ![w] = Idle], worker[w] # Idle, NEW x,
             row' = [row EXCEPT ![RowOf(w)] = x],
             \/ Claimable(RowOf(w)) \/ worker[w].pc # "taken"
      PROVE  forgotten \subseteq forgotten' /\ \A r \in Rows \ forgotten : StateMove(r) /\ HolderMove(r)
  <2> PICK q \in Rows : q = RowOf(w) BY <1>b, <1>x
  <2>1. row'[q] = x /\ \A r \in Rows \ {q} : row'[r] = row[r] BY <1>x DEF TypeOK
  <2>2. \A r \in Rows : Holders(r)' \subseteq Holders(r) /\ w \notin Holders(r)' BY <1>x, FewerHolders
  <2>3. Holders(q) \subseteq {w}
    <3>1. CASE Claimable(q) BY <3>1 DEF LeaseInv, HeldNotDue, Claimable
    <3>2. CASE worker[w].pc # "taken"
      <4>1. w \in Holders(q) BY <1>x, <3>2 DEF Holders, Active
      <4> QED BY <4>1 DEF LeaseInv, OneHolder
    <3> QED BY <1>x, <3>1, <3>2
  <2>4. Holders(q)' = {} BY <2>2, <2>3
  <2>5. q \notin forgotten => row[q].state \in Waiting
    <3>1. CASE Claimable(q) BY <3>1 DEF Claimable
    <3>2. CASE worker[w].pc # "taken"
      <4>1. w \in Holders(q) BY <1>x, <3>2 DEF Holders, Active
      <4> QED BY <4>1 DEF HeldWaits
    <3> QED BY <1>x, <3>1, <3>2
  <2> QED BY <1>f, <2>1, <2>2, <2>4, <2>5 DEF StateMove, HolderMove, Waiting, Settled
\* The worker goes on with the row it holds.
<1>p. ASSUME NEW x, worker' = [worker EXCEPT ![w] = x], row' = row,
             x.pc = "taken" \/ (worker[w] # Idle /\ worker[w].pc # "taken" /\ x.job = worker[w].job)
      PROVE  forgotten \subseteq forgotten' /\ \A r \in Rows \ forgotten : StateMove(r) /\ HolderMove(r)
  <2>1. \A r \in Rows : Holders(r)' \subseteq Holders(r) BY <1>p, FewerHolders
  <2> QED BY <1>f, <1>p, <2>1, QuietMove
<1>n. ASSUME Sending(w), NEW t, NextProvider(w, t), row' = row
      PROVE  forgotten \subseteq forgotten' /\ \A r \in Rows \ forgotten : StateMove(r) /\ HolderMove(r)
  <2> DEFINE out == IF t \/ RowOf(w) \in Security THEN "failing" ELSE "quota"
             x == IF worker[w].at < Len(Chain) THEN [worker[w] EXCEPT !.at = @ + 1, !.tried = t]
                  ELSE [worker[w] EXCEPT !.tried = t, !.pc = out]
  <2>1. worker[w] \in Busy /\ worker[w] # Idle /\ worker[w].pc = "sending" BY <1>n, <1>b DEF Sending
  <2>2. worker' = [worker EXCEPT ![w] = x] BY <1>n DEF NextProvider
  <2>3. x.job = worker[w].job BY <2>1 DEF Busy
  <2> HIDE DEF x
  <2> QED BY <1>n, <1>p, <2>1, <2>2, <2>3
<1>1. CASE Take(w)
  <2> PICK j \in queue :
        worker' = [worker EXCEPT ![w] = [pc |-> "taken", job |-> j, at |-> 1, tried |-> FALSE]]
    BY <1>1 DEF Take
  <2> DEFINE x == [pc |-> "taken", job |-> j, at |-> 1, tried |-> FALSE]
  <2>1. x.pc = "taken" /\ worker' = [worker EXCEPT ![w] = x] /\ row' = row BY <1>1 DEF Take
  <2> HIDE DEF x
  <2> QED BY <1>p, <2>1
<1>2. CASE Crash(w) \/ Skip(w) \/ DecideFails(w) \/ OutcomeLost(w)
  <2>1. row' = row /\ worker' = [worker EXCEPT ![w] = Idle]
    BY <1>2, <1>i DEF Crash, Skip, DecideFails, OutcomeLost
  <2> QED BY <2>1, <1>g
<1>3. CASE DecideSettled(w)
  <2>1. PICK s \in Settled : row' = [row EXCEPT ![RowOf(w)] = [Claimed(RowOf(w)) EXCEPT !.state = s]]
    BY <1>3 DEF DecideSettled
  <2>2. worker[w] # Idle /\ Claimable(RowOf(w)) /\ worker' = [worker EXCEPT ![w] = Idle]
    BY <1>3, <1>i DEF DecideSettled, Decides
  <2> QED BY <2>1, <2>2, <1>x
<1>4. CASE DecideCooldown(w) \/ DecideDigest(w)
  <2>1. PICK x : row' = [row EXCEPT ![RowOf(w)] = x] BY <1>4 DEF DecideCooldown, DecideDigest
  <2>2. worker[w] # Idle /\ Claimable(RowOf(w)) /\ worker' = [worker EXCEPT ![w] = Idle]
    BY <1>4, <1>i DEF DecideCooldown, DecideDigest, Decides
  <2> QED BY <2>1, <2>2, <1>x
<1>5. CASE DecideSend(w)
  <2>1. worker[w] # Idle /\ Claimable(RowOf(w)) BY <1>5 DEF DecideSend, Decides
  <2> PICK q \in Rows : q = RowOf(w) BY <1>b, <2>1
  <2>2. row' = [row EXCEPT ![q] = Claimed(q)] BY <1>5 DEF DecideSend
  <2>3. row[q] \in Row /\ row[q].state \in Waiting BY <2>1, <1>b DEF Claimable
  <2>4. Claimed(q).state = row[q].state BY <2>3 DEF Claimed, Row
  <2>5. row'[q].state = row[q].state /\ \A r \in Rows \ {q} : row'[r] = row[r] BY <2>2, <2>4 DEF TypeOK
  <2> DEFINE x == [worker[w] EXCEPT !.pc = "sending"]
  <2>6. x \in Busy /\ x.job = worker[w].job BY <2>1, <1>b, BusyEdits DEF Busy
  <2>7. worker' = [worker EXCEPT ![w] = x] BY <1>5 DEF DecideSend
  <2> HIDE DEF x
  <2>8. \A r \in Rows \ {q} : Holders(r)' \subseteq Holders(r)
    <3>1. worker'[w] = x /\ \A v \in Workers \ {w} : worker'[v] = worker[v] BY <2>7 DEF TypeOK
    <3>2. x.job.row = q BY <2>6 DEF RowOf
    <3> QED BY <3>1, <3>2 DEF Holders, Active, RowOf
  <2> QED BY <1>f, <2>3, <2>5, <2>8 DEF StateMove, HolderMove
<1>6. CASE SendAccepted(w) \/ RecordSentFails(w) \/ SendPermanentError(w)
  <2>1. worker[w] # Idle /\ worker[w].pc # "taken" /\ row' = row
    BY <1>6 DEF SendAccepted, RecordSentFails, SendPermanentError, Sending
  <2>2. worker[w] \in Busy BY <2>1, <1>b
  <2>3. PICK x : worker' = [worker EXCEPT ![w] = x] /\ x.job = worker[w].job
    <3>1. CASE SendAccepted(w)
      <4>1. worker' = [worker EXCEPT ![w] = [worker[w] EXCEPT !.pc = "sent"]] BY <3>1 DEF SendAccepted
      <4>2. [worker[w] EXCEPT !.pc = "sent"].job = worker[w].job BY <2>2 DEF Busy
      <4> QED BY <4>1, <4>2
    <3>2. CASE RecordSentFails(w)
      <4>1. worker' = [worker EXCEPT ![w] = [worker[w] EXCEPT !.pc = "failing"]] BY <3>2 DEF RecordSentFails
      <4>2. [worker[w] EXCEPT !.pc = "failing"].job = worker[w].job BY <2>2 DEF Busy
      <4> QED BY <4>1, <4>2
    <3>3. CASE SendPermanentError(w)
      <4>1. worker' = [worker EXCEPT ![w] = [worker[w] EXCEPT !.pc = "failing", !.tried = TRUE]]
        BY <3>3 DEF SendPermanentError
      <4>2. [worker[w] EXCEPT !.pc = "failing", !.tried = TRUE].job = worker[w].job BY <2>2 DEF Busy
      <4> QED BY <4>1, <4>2
    <3> QED BY <1>6, <3>1, <3>2, <3>3
  <2> QED BY <2>1, <2>3, <1>p
<1>7. CASE QuotaExhausted(w) BY <1>7, <1>n DEF QuotaExhausted
<1>8. CASE SendTransientError(w) BY <1>8, <1>n DEF SendTransientError
<1>9. CASE RecordSent(w) \/ HandleSendFailure(w) \/ DeferForProviderQuota(w)
  <2>1. worker[w] # Idle /\ worker[w].pc # "taken" /\ worker' = [worker EXCEPT ![w] = Idle]
    BY <1>9, <1>i DEF RecordSent, HandleSendFailure, DeferForProviderQuota
  <2>2. PICK x : row' = [row EXCEPT ![RowOf(w)] = x]
    BY <1>9 DEF RecordSent, HandleSendFailure, DeferForProviderQuota
  <2> QED BY <2>1, <2>2, <1>x
<1> QED BY <1>1, <1>2, <1>3, <1>4, <1>5, <1>6, <1>7, <1>8, <1>9 DEF Work, Trouble

\* Every step keeps held rows waiting and settled rows settled.
LEMMA SettledStep ==
    ASSUME IInv, HeldWaits, [Next]_vars
    PROVE  /\ HeldWaits'
           /\ \A r \in Rows \ forgotten : row[r].state \in Settled => row'[r].state = row[r].state
<1>1. forgotten \subseteq forgotten' /\ \A r \in Rows \ forgotten : StateMove(r) /\ HolderMove(r)
  <2>1. CASE (\E r \in Rows : Produce(r)) \/ SweepRead \/ SweepEnqueue \/ SweepInterrupted
    BY <2>1, ProducerMoves
  <2>2. CASE \E w \in Workers : Take(w) \/ Work(w) \/ Trouble(w) BY <2>2, WorkerMoves
  <2>3. CASE UNCHANGED vars
    <3>1. row' = row /\ worker' = worker /\ forgotten' = forgotten BY <2>3 DEF vars
    <3> QED BY <3>1, SameHolders, QuietMove
  <2> QED BY <2>1, <2>2, <2>3 DEF Next
<1>2. HeldWaits' BY <1>1 DEF HeldWaits, StateMove, HolderMove
<1> QED BY <1>1, <1>2 DEF StateMove

\* A dispatched, suppressed or failed row is final: no late outcome, retry or
\* sweep reopens it, for any number of rows, jobs, crashes and workers.
THEOREM SettledStaysSettledAlways == Spec => SettledStaysSettled
<1>1. Init => HeldWaits BY DEF Init, HeldWaits, Holders, Active
<1>2. IInv /\ HeldWaits /\ [Next]_vars => HeldWaits' BY SettledStep
<1>3. IInv /\ HeldWaits /\ [Next]_vars =>
        [\A r \in Rows \ forgotten : row[r].state \in Settled => row'[r].state = row[r].state]_vars
  BY SettledStep
<1> QED BY <1>1, <1>2, <1>3, InitIInv, NextIInv, PTL DEF Spec, SettledStaysSettled
-----------------------------------------------------------------------------
(* How often a row is emailed *)

\* Another email for row r may be sent: a worker holds the row and no provider
\* has taken its message yet, or nobody holds the row and it is not settled.
Room(r) ==
    \/ \E w \in Holders(r) : worker[w].pc # "sent"
    \/ Holders(r) = {} /\ row[r].state \notin Settled
Troubles == faults + refusals
MailInv ==
    \A r \in Rows : /\ emails[r] <= Troubles + 1
                    /\ Room(r) => emails[r] <= Troubles
\* What one step may do for row r: leave the emails and make no room, or leave
\* them and count a trouble, or use the room for one more.
MailMove(r) ==
    \/ emails'[r] = emails[r] /\ (Room(r)' => Room(r))
    \/ emails'[r] = emails[r] /\ Troubles' = Troubles + 1
    \/ /\ Room(r) /\ emails'[r] \in {emails[r], emails[r] + 1}
       /\ ~Room(r)' \/ Troubles' = Troubles + 1

\* A step that moves every row's emails that way keeps MailInv.
LEMMA MailMovesKeep ==
    ASSUME TypeOK, TypeOK', Troubles \in Int, Troubles' \in Int, Troubles' >= Troubles, MailInv,
           \A r \in Rows : MailMove(r)
    PROVE  MailInv'
<1> SUFFICES ASSUME NEW r \in Rows
             PROVE  emails'[r] <= Troubles' + 1 /\ (Room(r)' => emails'[r] <= Troubles')
  BY DEF MailInv
<1>1. emails[r] \in Int /\ emails'[r] \in Int BY DEF TypeOK
<1>2. emails[r] <= Troubles + 1 /\ (Room(r) => emails[r] <= Troubles) BY DEF MailInv
<1>3. \/ emails'[r] = emails[r] /\ (Room(r)' => Room(r))
      \/ emails'[r] = emails[r] /\ Troubles' = Troubles + 1
      \/ Room(r) /\ emails'[r] \in {emails[r], emails[r] + 1} /\ (~Room(r)' \/ Troubles' = Troubles + 1)
  BY DEF MailMove
<1> QED BY <1>1, <1>2, <1>3

\* The other holders of a row, and what they are doing, are as before.
LEMMA RoomOf ==
    ASSUME TypeOK, NEW w \in Workers, NEW x, worker' = [worker EXCEPT ![w] = x], NEW r \in Rows,
           x # Idle /\ x.job.row = r /\ x.pc # "taken" => x.pc = "sent"
    PROVE  Room(r)' <=> \/ \E v \in Holders(r) \ {w} : worker[v].pc # "sent"
                        \/ Holders(r)' = {} /\ row'[r].state \notin Settled
<1>1. worker'[w] = x /\ \A v \in Workers \ {w} : worker'[v] = worker[v] BY DEF TypeOK
<1>2. \A v \in Workers \ {w} : v \in Holders(r)' <=> v \in Holders(r) BY <1>1 DEF Holders, Active, RowOf
<1>3. w \in Holders(r)' => worker'[w].pc = "sent" BY <1>1 DEF Holders, Active, RowOf
<1>4. Holders(r) \subseteq Workers /\ Holders(r)' \subseteq Workers BY DEF Holders, Active
<1> QED BY <1>1, <1>2, <1>3, <1>4 DEF Room

\* A step that counts a trouble and sends nothing.
LEMMA TroubleMove ==
    ASSUME TypeOK, emails' = emails, (Fault /\ NoRefusal) \/ (NoFault /\ Refusal)
    PROVE  \A r \in Rows : MailMove(r)
<1>1. faults \in Int /\ refusals \in Int BY ConstantsAssumption DEF TypeOK
<1>2. Troubles' = Troubles + 1 BY <1>1 DEF Troubles, Fault, NoFault, Refusal, NoRefusal
<1> QED BY <1>2 DEF MailMove

\* The steps of the producers, of the sweep and of the clock.
LEMMA ProducerMail ==
    ASSUME IInv,
           (\E r \in Rows : Produce(r)) \/ SweepRead \/ SweepEnqueue \/ SweepInterrupted
    PROVE  \A r \in Rows : MailMove(r)
<1> USE DEF IInv
<1>w. worker' = worker /\ emails' = emails
  BY DEF Produce, Emit, EnqueueAfterCommit, LoseHint, Elapse, ForgetEntity, SweepRead, SweepEnqueue,
         SweepInterrupted
<1>h. \A r \in Rows : Holders(r)' = Holders(r) BY <1>w, SameHolders
\* It is enough that no settled row is unsettled.
<1>s. ASSUME \A r \in Rows : row[r].state \in Settled => row'[r].state \in Settled
      PROVE  \A r \in Rows : MailMove(r)
  BY <1>w, <1>h, <1>s DEF MailMove, Room
<1>1. ASSUME NEW q \in Rows, Emit(q) PROVE \A r \in Rows : MailMove(r)
  <2>1. row[q].state = "absent" /\ \A r \in Rows \ {q} : row'[r] = row[r] BY <1>1 DEF Emit, TypeOK
  <2> QED BY <1>s, <2>1 DEF Settled
<1>2. ASSUME NEW q \in Rows, Elapse(q) PROVE \A r \in Rows : MailMove(r)
  <2>1. row[q].state \in Waiting /\ \A r \in Rows \ {q} : row'[r] = row[r] BY <1>2 DEF Elapse, TypeOK
  <2> QED BY <1>s, <2>1 DEF Waiting, Settled
<1>3. ASSUME NEW q \in Rows, ForgetEntity(q) PROVE \A r \in Rows : MailMove(r)
  <2>1. row[q] \in Row /\ \A r \in Rows \ {q} : row'[r] = row[r] BY <1>3 DEF ForgetEntity, TypeOK
  <2>2. row'[q].state = row[q].state \/ row'[q].state = "suppressed"
    BY <1>3, <2>1 DEF ForgetEntity, TypeOK, Row
  <2> QED BY <1>s, <2>1, <2>2 DEF Settled
<1>4. CASE (\E q \in Rows : EnqueueAfterCommit(q)) \/ SweepRead \/ SweepEnqueue
  BY <1>4, <1>s DEF EnqueueAfterCommit, SweepRead, SweepEnqueue
<1>5. CASE (\E q \in Rows : LoseHint(q)) \/ SweepInterrupted
  BY <1>5, <1>w, TroubleMove DEF LoseHint, SweepInterrupted
<1> QED BY <1>1, <1>2, <1>3, <1>4, <1>5 DEF Produce

\* The steps of a worker.  Only a worker that holds the row and is still
\* sending adds an email, and afterwards it is done sending or has met trouble.
LEMMA WorkerMail ==
    ASSUME IInv, NEW w \in Workers, Take(w) \/ Work(w) \/ Trouble(w)
    PROVE  \A r \in Rows : MailMove(r)
<1> USE DEF IInv
<1>b. worker[w] # Idle => RowOf(w) \in Rows /\ worker[w] \in Busy /\ row[RowOf(w)] \in Row
  BY BusyParts DEF TypeOK
<1>i. Complete(w) \/ Throw(w) => worker' = [worker EXCEPT ![w] = Idle] BY DEF Complete, Throw
<1>o. \A r \in Rows : \A v \in Holders(r) : w \in Holders(r) => v = w BY DEF LeaseInv, OneHolder
\* The worker becomes idle; every row it leaves unsettled had room before.
<1>g. ASSUME worker' = [worker EXCEPT ![w] = Idle], emails' = emails, worker[w] # Idle,
             \A r \in Rows \ {RowOf(w)} : row'[r] = row[r],
             \A r \in Rows : r = RowOf(w) => row'[r].state \in Settled \/ Room(r)
                                             \/ (row' = row /\ worker[w].pc = "taken")
      PROVE  \A r \in Rows : MailMove(r)
  <2> SUFFICES ASSUME NEW r \in Rows, Room(r)' PROVE Room(r) BY <1>g DEF MailMove
  <2>1. \/ \E v \in Holders(r) \ {w} : worker[v].pc # "sent"
        \/ Holders(r)' = {} /\ row'[r].state \notin Settled
    BY <1>g, RoomOf
  <2>2. CASE \E v \in Holders(r) \ {w} : worker[v].pc # "sent" BY <2>2 DEF Room
  <2>3. CASE Holders(r)' = {} /\ row'[r].state \notin Settled
    <3>1. worker'[w] = Idle /\ \A v \in Workers \ {w} : worker'[v] = worker[v] BY <1>g DEF TypeOK
    <3>2. Holders(r) \subseteq {w} BY <2>3, <3>1 DEF Holders, Active, RowOf
    <3>3. r # RowOf(w) \/ worker[w].pc = "taken" => Holders(r) = {} BY <3>2 DEF Holders
    <3>4. CASE r # RowOf(w)
      <4>1. row'[r] = row[r] BY <1>g, <3>4
      <4> QED BY <2>3, <3>3, <3>4, <4>1 DEF Room
    <3>5. CASE r = RowOf(w) BY <1>g, <2>3, <3>3, <3>5 DEF Room
    <3> QED BY <3>4, <3>5
  <2> QED BY <2>1, <2>2, <2>3
\* A claim finds room: the row is due, so nobody holds it.
<1>c. worker[w] # Idle /\ Claimable(RowOf(w)) => Room(RowOf(w)) /\ Holders(RowOf(w)) = {}
  BY <1>b DEF Claimable, LeaseInv, HeldNotDue, Room, Waiting, Settled
\* So does a worker that holds the row and has not sent.
<1>d. worker[w] # Idle /\ worker[w].pc \notin {"taken", "sent"} =>
        Room(RowOf(w)) /\ w \in Holders(RowOf(w))
  BY DEF Room, Holders, Active
<1>1. CASE Take(w)
  <2>1. worker[w] = Idle /\ row' = row /\ emails' = emails BY <1>1 DEF Take
  <2> PICK j \in queue :
        worker' = [worker EXCEPT ![w] = [pc |-> "taken", job |-> j, at |-> 1, tried |-> FALSE]]
    BY <1>1 DEF Take
  <2> DEFINE x == [pc |-> "taken", job |-> j, at |-> 1, tried |-> FALSE]
  <2>2. x.pc = "taken" /\ worker' = [worker EXCEPT ![w] = x] OBVIOUS
  <2> HIDE DEF x
  <2>3. worker'[w] = x /\ \A v \in Workers \ {w} : worker'[v] = worker[v] BY <2>2 DEF TypeOK
  <2>4. \A r \in Rows : Holders(r)' = Holders(r) BY <2>1, <2>2, <2>3 DEF Holders, Active, RowOf
  <2>5. \A r \in Rows : w \notin Holders(r) /\ Holders(r) \subseteq Workers BY <2>1 DEF Holders, Active
  <2> QED BY <2>1, <2>3, <2>4, <2>5 DEF MailMove, Room
<1>2. CASE Skip(w)
  <2>1. worker[w] # Idle /\ worker[w].pc = "taken" /\ row' = row /\ emails' = emails
        /\ worker' = [worker EXCEPT ![w] = Idle]
    BY <1>2, <1>i DEF Skip
  <2> QED BY <2>1, <1>g
<1>3. CASE DecideSettled(w) \/ DecideDigest(w)
  <2>1. worker[w] # Idle /\ Claimable(RowOf(w)) /\ emails' = emails
        /\ worker' = [worker EXCEPT ![w] = Idle]
    BY <1>3, <1>i DEF DecideSettled, DecideDigest, Decides
  <2>2. \A r \in Rows \ {RowOf(w)} : row'[r] = row[r] BY <1>3 DEF DecideSettled, DecideDigest, TypeOK
  <2>3. Room(RowOf(w)) BY <1>c, <2>1
  <2> QED BY <2>1, <2>2, <2>3, <1>g
<1>4. CASE DecideSend(w)
  <2>1. worker[w] # Idle /\ Claimable(RowOf(w)) /\ emails' = emails BY <1>4 DEF DecideSend, Decides
  <2> PICK q \in Rows : q = RowOf(w) BY <1>b, <2>1
  <2>2. Room(q) BY <1>c, <2>1
  <2>3. \A r \in Rows \ {q} : row'[r] = row[r] BY <1>4 DEF DecideSend, TypeOK
  <2> DEFINE x == [worker[w] EXCEPT !.pc = "sending"]
  <2>4. worker' = [worker EXCEPT ![w] = x] BY <1>4 DEF DecideSend
  <2>5. x.job = worker[w].job BY <2>1, <1>b DEF Busy
  <2> HIDE DEF x
  <2>6. \A r \in Rows \ {q} : Room(r)' => Room(r)
    <3>1. worker'[w] = x /\ \A v \in Workers \ {w} : worker'[v] = worker[v] BY <2>4 DEF TypeOK
    <3>2. x.job.row = q BY <2>5 DEF RowOf
    <3>3. \A r \in Rows \ {q} : Holders(r)' = Holders(r) /\ w \notin Holders(r) /\ Holders(r) \subseteq Workers
      BY <3>1, <3>2 DEF Holders, Active, RowOf
    <3> QED BY <2>3, <3>1, <3>3 DEF Room
  <2> QED BY <2>1, <2>2, <2>6 DEF MailMove
<1>5. CASE SendAccepted(w)
  <2>1. worker[w] # Idle /\ worker[w].pc = "sending" /\ Accepts(w) BY <1>5 DEF SendAccepted, Sending
  <2> PICK q \in Rows : q = RowOf(w) BY <1>b, <2>1
  <2>2. Room(q) /\ w \in Holders(q) BY <1>d, <2>1
  <2>3. emails'[q] \in {emails[q], emails[q] + 1} /\ \A r \in Rows \ {q} : emails'[r] = emails[r]
    BY <2>1 DEF Accepts, TypeOK
  <2> DEFINE x == [worker[w] EXCEPT !.pc = "sent"]
  <2>4. worker' = [worker EXCEPT ![w] = x] /\ row' = row BY <1>5 DEF SendAccepted
  <2>5. x \in Busy /\ x.job = worker[w].job /\ x.pc = "sent" BY <2>1, <1>b, BusyEdits DEF Busy
  <2> HIDE DEF x
  <2>6. x # Idle BY <2>5, BusyIsNotIdle
  <2>7. worker'[w] = x /\ \A v \in Workers \ {w} : worker'[v] = worker[v] BY <2>4 DEF TypeOK
  <2>8. \A r \in Rows : Holders(r)' = Holders(r) BY <2>1, <2>5, <2>6, <2>7 DEF Holders, Active, RowOf
  <2>9. ~Room(q)' BY <1>o, <2>2, <2>5, <2>7, <2>8 DEF Room
  <2>10. \A r \in Rows \ {q} : w \notin Holders(r) /\ Holders(r) \subseteq Workers BY DEF Holders, Active
  <2>11. \A r \in Rows \ {q} : Room(r)' => Room(r) BY <2>4, <2>7, <2>8, <2>10 DEF Room
  <2> QED BY <2>2, <2>3, <2>9, <2>11 DEF MailMove
<1>6. CASE SendTransientError(w)
  <2>1. worker[w] # Idle /\ worker[w].pc = "sending" BY <1>6 DEF SendTransientError, Sending
  <2> PICK q \in Rows : q = RowOf(w) BY <1>b, <2>1
  <2>2. Room(q) BY <1>d, <2>1
  <2>3. emails'[q] \in {emails[q], emails[q] + 1} /\ \A r \in Rows \ {q} : emails'[r] = emails[r]
    BY <1>6 DEF SendTransientError, Accepts, TypeOK
  <2>4. faults \in Int /\ refusals \in Int BY ConstantsAssumption DEF TypeOK
  <2>5. Troubles' = Troubles + 1 BY <1>6, <2>4 DEF Troubles, SendTransientError, NoFault, Refusal
  <2> QED BY <2>2, <2>3, <2>5 DEF MailMove
<1>7. CASE RecordSent(w)
  <2>1. worker[w] # Idle /\ emails' = emails /\ worker' = [worker EXCEPT ![w] = Idle]
    BY <1>7, <1>i DEF RecordSent
  <2> PICK q \in Rows : q = RowOf(w) /\ row[q] \in Row BY <1>b, <2>1
  <2>2. row' = [row EXCEPT ![q].state = "dispatched"] BY <1>7 DEF RecordSent
  <2>3. row'[q].state = "dispatched" /\ \A r \in Rows \ {q} : row'[r] = row[r] BY <2>2 DEF TypeOK, Row
  <2> QED BY <2>1, <2>3, <1>g DEF Settled
<1>8. CASE HandleSendFailure(w) \/ DeferForProviderQuota(w)
  <2>1. worker[w] # Idle /\ worker[w].pc \notin {"taken", "sent"} /\ emails' = emails
        /\ worker' = [worker EXCEPT ![w] = Idle]
    BY <1>8, <1>i DEF HandleSendFailure, DeferForProviderQuota
  <2>2. \A r \in Rows \ {RowOf(w)} : row'[r] = row[r]
    BY <1>8 DEF HandleSendFailure, DeferForProviderQuota, TypeOK
  <2>3. Room(RowOf(w)) BY <1>d, <2>1
  <2> QED BY <2>1, <2>2, <2>3, <1>g
<1>9. CASE \/ Crash(w) \/ DecideFails(w) \/ DecideCooldown(w) \/ QuotaExhausted(w)
           \/ SendPermanentError(w) \/ RecordSentFails(w) \/ OutcomeLost(w)
  <2>1. emails' = emails /\ ((Fault /\ NoRefusal) \/ (NoFault /\ Refusal))
    BY <1>9 DEF Crash, DecideFails, DecideCooldown, QuotaExhausted, SendPermanentError, RecordSentFails,
               OutcomeLost
  <2> QED BY <2>1, TroubleMove
<1> QED BY <1>1, <1>2, <1>3, <1>4, <1>5, <1>6, <1>7, <1>8, <1>9 DEF Work, Trouble

\* Every step keeps MailInv: troubles are only ever counted up.
LEMMA MailStep ==
    ASSUME IInv, IInv', MailInv, [Next]_vars PROVE MailInv'
<1>t. TypeOK /\ TypeOK' BY DEF IInv
<1>1. \A r \in Rows : MailMove(r)
  <2>1. CASE (\E r \in Rows : Produce(r)) \/ SweepRead \/ SweepEnqueue \/ SweepInterrupted
    BY <2>1, ProducerMail
  <2>2. CASE \E w \in Workers : Take(w) \/ Work(w) \/ Trouble(w) BY <2>2, WorkerMail
  <2>3. CASE UNCHANGED vars
    <3>1. row' = row /\ worker' = worker /\ emails' = emails BY <2>3 DEF vars
    <3>2. \A r \in Rows : Holders(r)' = Holders(r) BY <3>1, SameHolders
    <3> QED BY <3>1, <3>2 DEF MailMove, Room
  <2> QED BY <2>1, <2>2, <2>3 DEF Next
<1>2. Troubles \in Int /\ Troubles' \in Int /\ Troubles' >= Troubles
  <2>1. faults \in Int /\ refusals \in Int BY <1>t, ConstantsAssumption DEF TypeOK
  <2>2. (Fault \/ NoFault) /\ (Refusal \/ NoRefusal)
    <3>1. CASE \E r \in Rows : Produce(r)
      BY <3>1 DEF Produce, Emit, EnqueueAfterCommit, LoseHint, Elapse, ForgetEntity
    <3>2. CASE SweepRead \/ SweepEnqueue \/ SweepInterrupted
      BY <3>2 DEF SweepRead, SweepEnqueue, SweepInterrupted
    <3>3. CASE \E w \in Workers : Take(w) \/ Work(w)
      BY <3>3 DEF Take, Work, Skip, DecideSettled, DecideDigest, DecideSend, SendAccepted, RecordSent,
                  HandleSendFailure, DeferForProviderQuota
    <3>4. CASE \E w \in Workers : Trouble(w)
      BY <3>4 DEF Trouble, Crash, DecideFails, DecideCooldown, QuotaExhausted, SendTransientError,
                  SendPermanentError, RecordSentFails, OutcomeLost
    <3>5. CASE UNCHANGED vars BY <3>5 DEF vars, NoFault, NoRefusal
    <3> QED BY <3>1, <3>2, <3>3, <3>4, <3>5 DEF Next
  <2> QED BY <2>1, <2>2 DEF Troubles, Fault, NoFault, Refusal, NoRefusal
<1> QED BY <1>t, <1>1, <1>2, MailMovesKeep

\* Whatever the providers do with the idempotency key, a row is emailed at most
\* once more than there were crashes, lost writes and provider errors: no
\* interleaving of hints, retries, sweeps and workers sends it twice by itself.
THEOREM ExtraEmailsNeedTroubleAlways == Spec => []ExtraEmailsNeedTrouble
<1>1. Init => MailInv BY DEF Init, MailInv, Troubles
<1>2. IInv /\ IInv' /\ MailInv /\ [Next]_vars => MailInv' BY MailStep
<1>3. IInv /\ MailInv => ExtraEmailsNeedTrouble
  BY ConstantsAssumption DEF IInv, TypeOK, MailInv, Troubles, ExtraEmailsNeedTrouble
<1> QED BY <1>1, <1>2, <1>3, InitIInv, NextIInv, PTL DEF Spec
=============================================================================
