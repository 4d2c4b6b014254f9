------------------------------- MODULE Outbox -------------------------------
(***************************************************************************)
(* The transactional outbox of src/communications: emit writes a row inside *)
(* the caller's transaction, a BullMQ job (hinted after the commit, or      *)
(* re-created by the 60 s sweep) claims the row, sends the email outside    *)
(* any transaction and records the outcome in a second one.                 *)
(*                                                                          *)
(* Each action is one transaction, one queue operation or one provider      *)
(* call; a worker can die between any two of them.  Time is the flag due    *)
(* (available_at <= now): Elapse lets a lease or a deferral run out.        *)
(*                                                                          *)
(* The queue is BullMQ as the producer and the processor use it: a job id   *)
(* is (row, attempts), adding an id that exists does nothing, a completed   *)
(* job is removed, a failed one is kept (removeOnFail: false).              *)
(***************************************************************************)
EXTENDS Integers, Sequences, FiniteSets

CONSTANTS
    Rows,          \* outbox rows, named by (recipient, dedupeKey)
    Security,      \* rows of the security category
    Forgettable,   \* rows whose source record may be deleted
    Workers,       \* processor slots
    Chain,         \* EMAIL_PROVIDERS, in fallback order
    Idempotent,    \* providers that honour the idempotencyKey
    MaxAttempts,   \* COMMUNICATION_DISPATCH_ATTEMPTS
    MaxStalls,     \* BullMQ's maxStalledCount
    MaxFaults,     \* bound on crashes and database or Redis errors
    MaxRefusals    \* bound on provider errors and deferrals

ASSUME ConstantsAssumption ==
    /\ Security \subseteq Rows /\ Forgettable \subseteq Rows
    /\ Len(Chain) \in Nat \ {0} /\ DOMAIN Chain = 1..Len(Chain)
    /\ MaxAttempts \in Nat \ {0}
    /\ MaxStalls \in Nat /\ MaxFaults \in Nat /\ MaxRefusals \in Nat

VARIABLES
    row,         \* communication_outbox
    queue,       \* jobs waiting or delayed
    dead,        \* ids of the jobs kept in the failed set
    worker,      \* what each processor slot is doing, with its active job
    hint,        \* rows whose enqueueAfterCommit has not run yet
    swept,       \* what the running sweep read and has not enqueued yet
    keys,        \* providers that keep idempotency keys and have seen the row's
    emails,      \* emails sent for a row: messages accepted and not dropped
    forgotten,   \* rows forgetEntity has been called for
    faults, refusals   \* how much of the two bounds is used

vars == <<row, queue, dead, worker, hint, swept, keys, emails, forgotten, faults, refusals>>

Providers == {Chain[i] : i \in DOMAIN Chain}
Waiting == {"pending", "deferred"}
Settled == {"dispatched", "suppressed", "failed"}
Row == [state: {"absent"} \cup Waiting \cup Settled, due: BOOLEAN,
        digest: BOOLEAN, attempts: Nat]
Job == [row: Rows, key: Nat, made: Nat, stalls: Nat]
Busy == [pc: {"taken", "sending", "sent", "failing", "quota"}, job: Job,
         at: DOMAIN Chain, tried: BOOLEAN]
Idle == [pc |-> "idle"]

JobId(j) == <<j.row, j.key>>
Active == {w \in Workers : worker[w] # Idle}
RowOf(w) == worker[w].job.row
\* Workers between the claim of r and its outcome.
Holders(r) == {w \in Active : RowOf(w) = r /\ worker[w].pc # "taken"}

Fault == faults < MaxFaults /\ faults' = faults + 1
NoFault == UNCHANGED faults
Refusal == refusals < MaxRefusals /\ refusals' = refusals + 1
NoRefusal == UNCHANGED refusals

-----------------------------------------------------------------------------
(* The queue *)

\* queue.add: an id the queue still knows is ignored.
Enqueue(r, k) ==
    LET known == {JobId(j) : j \in queue} \cup {JobId(worker[w].job) : w \in Active} \cup dead
    IN  queue' = IF <<r, k>> \in known THEN queue
                 ELSE queue \cup {[row |-> r, key |-> k, made |-> 0, stalls |-> 0]}

\* A worker slot picks a job up.
Take(w) ==
    /\ worker[w] = Idle
    /\ \E j \in queue :
          /\ queue' = queue \ {j}
          /\ worker' = [worker EXCEPT ![w] = [pc |-> "taken", job |-> j, at |-> 1, tried |-> FALSE]]
    /\ NoFault /\ NoRefusal
    /\ UNCHANGED <<row, dead, hint, swept, keys, emails, forgotten>>

\* The processor returned: the job is complete and removed.
Complete(w) ==
    /\ worker' = [worker EXCEPT ![w] = Idle]
    /\ UNCHANGED <<queue, dead>>

\* The processor threw: retried with backoff until the attempts are used up.
Throw(w) ==
    LET j == worker[w].job IN
    /\ worker' = [worker EXCEPT ![w] = Idle]
    /\ IF j.made + 1 < MaxAttempts
       THEN queue' = queue \cup {[j EXCEPT !.made = @ + 1]} /\ UNCHANGED dead
       ELSE dead' = dead \cup {JobId(j)} /\ UNCHANGED queue

\* The process dies; BullMQ finds the job stalled and re-queues or fails it.
Crash(w) ==
    LET j == worker[w].job IN
    /\ w \in Active
    /\ Fault /\ NoRefusal
    /\ worker' = [worker EXCEPT ![w] = Idle]
    /\ IF j.stalls < MaxStalls
       THEN queue' = queue \cup {[j EXCEPT !.stalls = @ + 1]} /\ UNCHANGED dead
       ELSE dead' = dead \cup {JobId(j)} /\ UNCHANGED queue
    /\ UNCHANGED <<row, hint, swept, keys, emails, forgotten>>

-----------------------------------------------------------------------------
(* Producers: emit, the hint after its commit, the sweep, forgetEntity *)

\* emit or emitToAddress commits with its caller; a cooldown or notBefore may
\* hold the row back.  A repeated emit meets the unique dedupe key: no change.
Emit(r) ==
    /\ row[r].state = "absent"
    /\ \E now \in BOOLEAN :
          row' = [row EXCEPT ![r] = [state |-> "pending", due |-> now, digest |-> FALSE, attempts |-> 0]]
    /\ hint' = hint \cup {r}
    /\ NoFault /\ NoRefusal
    /\ UNCHANGED <<queue, dead, worker, swept, keys, emails, forgotten>>

EnqueueAfterCommit(r) ==
    /\ r \in hint
    /\ hint' = hint \ {r}
    /\ Enqueue(r, 0)
    /\ NoFault /\ NoRefusal
    /\ UNCHANGED <<row, dead, worker, swept, keys, emails, forgotten>>

\* The caller dies after its commit, or Redis refuses: enqueueDispatch never throws.
LoseHint(r) ==
    /\ r \in hint
    /\ hint' = hint \ {r}
    /\ Fault /\ NoRefusal
    /\ UNCHANGED <<row, queue, dead, worker, swept, keys, emails, forgotten>>

\* available_at passes.  A lease (10 min) outlasts every live holder: each
\* provider call is cut off after 10 s and each transaction after 5 s.
Elapse(r) ==
    /\ row[r].state \in Waiting /\ ~row[r].due /\ ~row[r].digest
    /\ Holders(r) = {}
    /\ row' = [row EXCEPT ![r].due = TRUE]
    /\ NoFault /\ NoRefusal
    /\ UNCHANGED <<queue, dead, worker, hint, swept, keys, emails, forgotten>>

ClaimableIgnoringLease(r) ==
    row[r].state \in Waiting /\ ~row[r].digest
\* The WHERE of the claim and of the sweep.
Claimable(r) ==
    row[r].state \in Waiting /\ ~row[r].digest /\ row[r].due

SweepPendingOnly ==
    /\ swept = {}
    /\ \E r \in Rows : Claimable(r) /\ row[r].state = "pending"
    /\ swept' = {<<r, row[r].attempts>> : r \in {q \in Rows : Claimable(q) /\ row[q].state = "pending"}}
    /\ NoFault /\ NoRefusal
    /\ UNCHANGED <<row, queue, dead, worker, hint, keys, emails, forgotten>>
\* sweep: reads the due rows in one transaction, then enqueues them one by one.
SweepRead ==
    /\ swept = {}
    /\ \E r \in Rows : Claimable(r)
    /\ swept' = {<<r, row[r].attempts>> : r \in {q \in Rows : Claimable(q)}}
    /\ NoFault /\ NoRefusal
    /\ UNCHANGED <<row, queue, dead, worker, hint, keys, emails, forgotten>>

SweepEnqueue ==
    /\ \E e \in swept : swept' = swept \ {e} /\ Enqueue(e[1], e[2])
    /\ NoFault /\ NoRefusal
    /\ UNCHANGED <<row, dead, worker, hint, keys, emails, forgotten>>

\* The sweep dies, or Redis refuses what is left.
SweepInterrupted ==
    /\ swept # {}
    /\ swept' = {}
    /\ Fault /\ NoRefusal
    /\ UNCHANGED <<row, queue, dead, worker, hint, keys, emails, forgotten>>

\* The source record is deleted: a waiting row is settled as suppressed.
ForgetEntity(r) ==
    /\ r \in Forgettable \ forgotten /\ row[r].state # "absent"
    /\ forgotten' = forgotten \cup {r}
    /\ row' = [row EXCEPT ![r].state = IF @ \in Waiting THEN "suppressed" ELSE @]
    /\ NoFault /\ NoRefusal
    /\ UNCHANGED <<queue, dead, worker, hint, swept, keys, emails>>

-----------------------------------------------------------------------------
(* dispatch, first transaction: the claim and every decision before the send *)

\* The claim updates 0 rows: another worker has the row, or it is settled.
Skip(w) ==
    /\ worker[w] # Idle /\ worker[w].pc = "taken"
    /\ ~Claimable(RowOf(w))
    /\ Complete(w)
    /\ NoFault /\ NoRefusal
    /\ UNCHANGED <<row, hint, swept, keys, emails, forgotten>>

\* The claim: one more attempt, and a lease during which the row is not due.
Claimed(r) == [row[r] EXCEPT !.attempts = @ + 1, !.due = FALSE]

Decides(w) == worker[w] # Idle /\ worker[w].pc = "taken" /\ Claimable(RowOf(w))

\* Nothing to email: no recipient, unknown key, cancelled campaign, email off,
\* stale, silenced, on the suppression list, over the cap with digests off.
DecideSettled(w) ==
    /\ Decides(w)
    /\ \E s \in Settled : row' = [row EXCEPT ![RowOf(w)] = [Claimed(RowOf(w)) EXCEPT !.state = s]]
    /\ Complete(w)
    /\ NoFault /\ NoRefusal
    /\ UNCHANGED <<hint, swept, keys, emails, forgotten>>

\* The cooldown of the key still runs.
DecideCooldown(w) ==
    /\ Decides(w)
    /\ row' = [row EXCEPT ![RowOf(w)] = [Claimed(RowOf(w)) EXCEPT !.state = "deferred"]]
    /\ Complete(w)
    /\ NoFault /\ Refusal
    /\ UNCHANGED <<hint, swept, keys, emails, forgotten>>

\* A digest preference or the daily cap: attachToDigest.
DecideDigest(w) ==
    /\ Decides(w)
    /\ RowOf(w) \notin Security
    /\ row' = [row EXCEPT ![RowOf(w)] = [Claimed(RowOf(w)) EXCEPT !.state = "deferred", !.digest = TRUE]]
    /\ Complete(w)
    /\ NoFault /\ NoRefusal
    /\ UNCHANGED <<hint, swept, keys, emails, forgotten>>

DecideSend(w) ==
    /\ Decides(w)
    /\ row' = [row EXCEPT ![RowOf(w)] = Claimed(RowOf(w))]
    /\ worker' = [worker EXCEPT ![w].pc = "sending"]
    /\ NoFault /\ NoRefusal
    /\ UNCHANGED <<queue, dead, hint, swept, keys, emails, forgotten>>

\* The transaction (a query, the rendering) throws: the claim is rolled back.
DecideFails(w) ==
    /\ worker[w] # Idle /\ worker[w].pc = "taken"
    /\ Throw(w)
    /\ Fault /\ NoRefusal
    /\ UNCHANGED <<row, hint, swept, keys, emails, forgotten>>

-----------------------------------------------------------------------------
(* EmailProviderRegistry.send: the providers of the chain in order *)

Sending(w) == worker[w] # Idle /\ worker[w].pc = "sending"

\* The provider takes the message; a repeated key is dropped if it keeps them.
Accepts(w) ==
    LET r == RowOf(w)
        p == Chain[worker[w].at]
    IN
    /\ emails' = [emails EXCEPT ![r] = IF p \in keys[r] THEN @ ELSE @ + 1]
    /\ keys' = [keys EXCEPT ![r] = @ \cup ({p} \cap Idempotent)]

SendAccepted(w) ==
    /\ Sending(w)
    /\ Accepts(w)
    /\ worker' = [worker EXCEPT ![w].pc = "sent"]
    /\ NoFault /\ NoRefusal
    /\ UNCHANGED <<row, queue, dead, hint, swept, forgotten>>

NextProviderOffByOne(w, tried) ==
    LET state == worker[w] IN
    worker' = [worker EXCEPT ![w] =
        IF state.at <= Len(Chain) THEN [state EXCEPT !.at = @ + 1, !.tried = tried]
        ELSE [state EXCEPT !.tried = tried,
                           !.pc = IF tried \/ RowOf(w) \in Security THEN "failing" ELSE "quota"]]
\* On to the next provider, or out of the loop: the last error is thrown, or a
\* quota error if no provider was tried (security mail treats it as a failure).
NextProvider(w, tried) ==
    LET state == worker[w] IN
    worker' = [worker EXCEPT ![w] =
        IF state.at < Len(Chain) THEN [state EXCEPT !.at = @ + 1, !.tried = tried]
        ELSE [state EXCEPT !.tried = tried,
                           !.pc = IF tried \/ RowOf(w) \in Security THEN "failing" ELSE "quota"]]

QuotaExhausted(w) ==
    /\ Sending(w)
    /\ NextProvider(w, worker[w].tried)
    /\ NoFault /\ Refusal
    /\ UNCHANGED <<row, queue, dead, hint, swept, keys, emails, forgotten>>

\* A transient error; a timeout may come after the provider took the message.
SendTransientError(w) ==
    /\ Sending(w)
    /\ Accepts(w) \/ UNCHANGED <<keys, emails>>
    /\ NextProvider(w, TRUE)
    /\ NoFault /\ Refusal
    /\ UNCHANGED <<row, queue, dead, hint, swept, forgotten>>

SendPermanentError(w) ==
    /\ Sending(w)
    /\ worker' = [worker EXCEPT ![w].pc = "failing", ![w].tried = TRUE]
    /\ NoFault /\ Refusal
    /\ UNCHANGED <<row, queue, dead, hint, swept, keys, emails, forgotten>>

-----------------------------------------------------------------------------
(* dispatch, second transaction: the outcome, written by id *)

DeliveryOnly(w) ==
    /\ worker[w] # Idle /\ worker[w].pc = "sent"
    /\ Complete(w)
    /\ NoFault /\ NoRefusal
    /\ UNCHANGED <<row, hint, swept, keys, emails, forgotten>>
RecordSent(w) ==
    /\ worker[w] # Idle /\ worker[w].pc = "sent"
    /\ row' = [row EXCEPT ![RowOf(w)].state = "dispatched"]
    /\ Complete(w)
    /\ NoFault /\ NoRefusal
    /\ UNCHANGED <<hint, swept, keys, emails, forgotten>>

\* The outcome's transaction throws inside the try: treated as a failed send.
RecordSentFails(w) ==
    /\ worker[w] # Idle /\ worker[w].pc = "sent"
    /\ worker' = [worker EXCEPT ![w].pc = "failing"]
    /\ Fault /\ NoRefusal
    /\ UNCHANGED <<row, queue, dead, hint, swept, keys, emails, forgotten>>

\* handleSendFailure: failed for good on the job's last attempt, otherwise
\* handed back; the error is rethrown either way.
HandleSendFailure(w) ==
    /\ worker[w] # Idle /\ worker[w].pc = "failing"
    /\ row' = [row EXCEPT ![RowOf(w)] =
          IF worker[w].job.made + 1 >= MaxAttempts THEN [@ EXCEPT !.state = "failed"]
          ELSE [@ EXCEPT !.state = "pending", !.due = TRUE]]
    /\ Throw(w)
    /\ NoFault /\ NoRefusal
    /\ UNCHANGED <<hint, swept, keys, emails, forgotten>>

\* deferForProviderQuota: parked until the reset, the attempt handed back.
DeferForProviderQuota(w) ==
    LET r == RowOf(w)
        handedBack == IF row[r].attempts > 0 THEN row[r].attempts - 1 ELSE 0
    IN
    /\ worker[w] # Idle /\ worker[w].pc = "quota"
    /\ row' = [row EXCEPT ![r] = [@ EXCEPT !.state = "deferred", !.due = FALSE,
                                           !.attempts = handedBack]]
    /\ Complete(w)
    /\ NoFault /\ NoRefusal
    /\ UNCHANGED <<hint, swept, keys, emails, forgotten>>

\* Either of these two transactions throws: nothing is written, the lease stands.
OutcomeLost(w) ==
    /\ worker[w] # Idle /\ worker[w].pc \in {"failing", "quota"}
    /\ Throw(w)
    /\ Fault /\ NoRefusal
    /\ UNCHANGED <<row, hint, swept, keys, emails, forgotten>>

-----------------------------------------------------------------------------
Init ==
    /\ row = [r \in Rows |-> [state |-> "absent", due |-> FALSE, digest |-> FALSE, attempts |-> 0]]
    /\ queue = {} /\ dead = {} /\ hint = {} /\ swept = {} /\ forgotten = {}
    /\ worker = [w \in Workers |-> Idle]
    /\ keys = [r \in Rows |-> {}] /\ emails = [r \in Rows |-> 0]
    /\ faults = 0 /\ refusals = 0

\* What the worker does when nothing goes wrong outside it.
Work(w) ==
    \/ Skip(w) \/ DecideSettled(w) \/ DecideDigest(w) \/ DecideSend(w)
    \/ SendAccepted(w)
    \/ RecordSent(w) \/ HandleSendFailure(w) \/ DeferForProviderQuota(w)

Trouble(w) ==
    \/ Crash(w) \/ DecideFails(w) \/ DecideCooldown(w)
    \/ QuotaExhausted(w) \/ SendTransientError(w) \/ SendPermanentError(w)
    \/ RecordSentFails(w) \/ OutcomeLost(w)

Produce(r) == Emit(r) \/ EnqueueAfterCommit(r) \/ LoseHint(r) \/ Elapse(r) \/ ForgetEntity(r)

Next ==
    \/ \E r \in Rows : Produce(r)
    \/ SweepRead \/ SweepEnqueue \/ SweepInterrupted
    \/ \E w \in Workers : Take(w) \/ Work(w) \/ Trouble(w)

\* The clock runs, the 60 s sweep recurs and a worker keeps running.
Fairness ==
    /\ \A r \in Rows : WF_vars(Elapse(r))
    /\ WF_vars(SweepRead) /\ WF_vars(SweepEnqueue)
    /\ \A w \in Workers : WF_vars(Take(w)) /\ WF_vars(Work(w))

Spec == Init /\ [][Next]_vars /\ Fairness

-----------------------------------------------------------------------------
(* Properties *)

\* Every variable keeps its type: the states of communication_outbox_state,
\* a job per queue entry, and a worker inside the provider chain.
TypeOK ==
    /\ row \in [Rows -> Row]
    /\ queue \subseteq Job
    /\ dead \subseteq Rows \X Nat
    /\ worker \in [Workers -> Busy \cup {Idle}]
    /\ hint \subseteq Rows
    /\ swept \subseteq Rows \X Nat
    /\ keys \in [Rows -> SUBSET Providers]
    /\ emails \in [Rows -> Nat]
    /\ forgotten \subseteq Rows
    /\ faults \in 0..MaxFaults /\ refusals \in 0..MaxRefusals

\* The double-send guard of dispatch: whatever jobs exist for a row (hints,
\* retries, sweeps, stalled jobs), at most one live worker is between the
\* claim of the row and its outcome.
OneHolder == \A r \in Rows : \A v, w \in Holders(r) : v = w

\* Even with providers that ignore the idempotency key, interleaving alone
\* never sends a row twice: every email after the first is owed to a crash, a
\* lost write or a provider error that came after the provider had accepted.
ExtraEmailsNeedTrouble == \A r \in Rows : emails[r] <= 1 + faults + refusals

\* A dispatched, suppressed or failed row is final: no late worker, retry or
\* sweep reopens it or changes its verdict, although outcomes are written by id.
\* (A row settled by forgetEntity is the exception: a send in flight writes over it.)
SettledStaysSettled ==
    [][\A r \in Rows \ forgotten : row[r].state \in Settled => row'[r].state = row[r].state]_vars

\* Every emitted row is settled or handed to a digest in the end, although the
\* hint, the sweep's enqueue, a worker or a provider may fail on the way.
Settles ==
    \A r \in Rows : row[r].state = "pending" ~> (row[r].state \in Settled \/ row[r].digest)
=============================================================================
