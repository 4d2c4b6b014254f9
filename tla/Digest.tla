------------------------------- MODULE Digest -------------------------------
(***************************************************************************)
(* The digest windows of src/communications for one recipient and kind:     *)
(* dispatch attaches rows to a window that ends at the next local 08:00,    *)
(* the hourly job turns every window past its end into one email.           *)
(*                                                                          *)
(* Window d ends when the clock reaches d; window clock + 1 is the one that *)
(* nextLocalHour gives at the current instant.  attachToDigest runs inside  *)
(* the dispatch transaction and is two steps (what it read, what it         *)
(* commits); the plan transaction of sendDigest is one step, because its    *)
(* claim holds the window's row lock until it commits.  sent_at on an open  *)
(* window is the claim; Expire is its 10 min lease running out.             *)
(***************************************************************************)
EXTENDS Integers, FiniteSets

CONSTANTS
    Items,        \* outbox rows dispatch decides to batch
    Forgettable,  \* items whose source record may be deleted
    MaxWindow,    \* bound on the windows
    Senders,      \* processor slots running the hourly job
    MaxFaults     \* bound on crashes and provider errors

ASSUME ConstantsAssumption ==
    /\ Forgettable \subseteq Items
    /\ MaxWindow \in Nat \ {0} /\ MaxFaults \in Nat

VARIABLES
    clock,      \* number of windows that have ended
    onEnd,      \* now is the very instant at which window clock ends
    digest,     \* communication_digests, by window
    item,       \* the outbox rows: state and digest_id (0 = NULL)
    attach,     \* dispatch transactions inside attachToDigest: item and window read
    sender,     \* what each sender is doing
    emailed,    \* items in the emails providers accepted for each window
    sends,      \* how many emails they accepted for it
    late,       \* items whose transaction committed when their window had ended
    faults

vars == <<clock, onEnd, digest, item, attach, sender, emailed, sends, late, faults>>
time == <<clock, onEnd>>
mail == <<emailed, sends>>

Windows == 1..MaxWindow
Settled == {"dispatched", "suppressed", "failed"}
Window == [state: {"absent", "open", "sent", "empty"}, claim: {"none", "held", "expired"}]
Item == [state: {"pending", "deferred"} \cup Settled, window: 0..MaxWindow]
Sender == [pc: {"idle", "sending", "sent", "refused"}, window: 0..MaxWindow, items: SUBSET Items]
Idle == [pc |-> "idle", window |-> 0, items |-> {}]

Deferred(d) == {i \in Items : item[i].window = d /\ item[i].state = "deferred"}
Fault == faults < MaxFaults /\ faults' = faults + 1

-----------------------------------------------------------------------------
(* Time *)

Tick ==
    /\ clock < MaxWindow
    /\ clock' = clock + 1 /\ onEnd' = TRUE
    /\ UNCHANGED <<digest, item, attach, sender, mail, late, faults>>

\* ... and the instant itself passes.
EndPasses ==
    /\ onEnd
    /\ onEnd' = FALSE
    /\ UNCHANGED <<clock, digest, item, attach, sender, mail, late, faults>>

\* The lease of a claim whose sender is gone: a live one is done within it.
Expire(d) ==
    /\ digest[d].state = "open" /\ digest[d].claim = "held"
    /\ \A s \in Senders : sender[s].window # d
    /\ digest' = [digest EXCEPT ![d].claim = "expired"]
    /\ UNCHANGED <<time, item, attach, sender, mail, late, faults>>

-----------------------------------------------------------------------------
(* attachToDigest *)

Attaching(i) == \E a \in attach : a.item = i

SkippedWindow == clock + 2
\* The window the current instant belongs to (nextLocalHour).
CurrentWindow == clock + 1

\* The oldest open window that has not ended or ends at this instant, when it
\* is already due; else the current one is created.
AttachTo ==
    LET open == {d \in Windows : /\ digest[d].state = "open"
                                 /\ d > clock \/ (d = clock /\ onEnd)}
    IN  IF open = {} THEN {CurrentWindow} ELSE {d \in open : \A e \in open : d <= e}

AttachAgain(i) ==
    /\ item[i].state \in {"pending", "deferred"} /\ ~Attaching(i) /\ clock < MaxWindow
    /\ \E d \in AttachTo : attach' = attach \cup {[item |-> i, window |-> d]}
    /\ UNCHANGED <<time, digest, item, sender, mail, late, faults>>
\* The claim admits a row that is in no window, and locks it.
AttachRead(i) ==
    /\ item[i].state = "pending" /\ ~Attaching(i) /\ clock < MaxWindow
    /\ \E d \in AttachTo : attach' = attach \cup {[item |-> i, window |-> d]}
    /\ UNCHANGED <<time, digest, item, sender, mail, late, faults>>

\* The create (a lost race on the unique window_start adopts the winner, in
\* whatever state it is), the row and the item count are written.
AttachCommit(a) ==
    /\ digest' = IF digest[a.window].state = "absent"
                 THEN [digest EXCEPT ![a.window] = [state |-> "open", claim |-> "none"]] ELSE digest
    /\ item' = [item EXCEPT ![a.item] = [state |-> "deferred", window |-> a.window]]
    /\ attach' = attach \ {a}
    /\ late' = IF a.window <= clock THEN late \cup {a.item} ELSE late
    /\ UNCHANGED <<time, sender, mail, faults>>

\* forgetEntity, digest windows included.
ForgetEntity(i) ==
    /\ i \in Forgettable /\ item[i].state \in {"pending", "deferred"} /\ ~Attaching(i)
    /\ item' = [item EXCEPT ![i].state = "suppressed"]
    /\ UNCHANGED <<time, digest, attach, sender, mail, late, faults>>

-----------------------------------------------------------------------------
(* sendDigest *)

AnyOpen(d) == digest[d].state = "open"
NeverReclaimed(d) == digest[d].state = "open" /\ digest[d].claim = "none"
\* claimDigest: the window is open and no live claim holds it.
Claimable(d) == digest[d].state = "open" /\ digest[d].claim # "held"

Due(s, d) == sender[s] = Idle /\ d <= clock /\ Claimable(d)

Settle(S, state) == [i \in Items |-> IF i \in S THEN [item[i] EXCEPT !.state = state] ELSE item[i]]

ClosedEmpty(d) == [digest EXCEPT ![d] = [state |-> "empty", claim |-> "none"]]

CloseOnly(s, d) ==
    /\ Due(s, d)
    /\ digest' = ClosedEmpty(d)
    /\ UNCHANGED <<time, item, attach, sender, mail, late, faults>>
\* Nothing to send: no items left, or the recipient is gone or suppressed.
PlanEmpty(s, d) ==
    /\ Due(s, d)
    /\ item' = Settle(Deferred(d), "suppressed")
    /\ digest' = ClosedEmpty(d)
    /\ UNCHANGED <<time, attach, sender, mail, late, faults>>

\* Unknown keys fail, silenced items become in-app only, the rest is sent.
PlanSend(s, d) ==
    /\ Due(s, d)
    /\ \E unknown \in SUBSET Deferred(d) : \E silenced \in SUBSET (Deferred(d) \ unknown) :
          LET included == Deferred(d) \ (unknown \cup silenced) IN
          /\ item' = [i \in Items |-> CASE i \in unknown  -> [item[i] EXCEPT !.state = "failed"]
                                        [] i \in silenced -> [item[i] EXCEPT !.state = "dispatched"]
                                        [] OTHER          -> item[i]]
          /\ IF included = {}
             THEN digest' = ClosedEmpty(d) /\ UNCHANGED sender
             ELSE /\ digest' = [digest EXCEPT ![d].claim = "held"]
                  /\ sender' = [sender EXCEPT ![s] = [pc |-> "sending", window |-> d, items |-> included]]
    /\ UNCHANGED <<time, attach, mail, late, faults>>

\* A provider takes an email with these items of window d.  A retry of the
\* window repeats its key; a provider without idempotency delivers each email.
Accept(d, S) ==
    /\ emailed' = [emailed EXCEPT ![d] = @ \cup S]
    /\ sends' = [sends EXCEPT ![d] = @ + 1]

Send(s) ==
    /\ sender[s].pc = "sending"
    /\ Accept(sender[s].window, sender[s].items)
    /\ sender' = [sender EXCEPT ![s].pc = "sent"]
    /\ UNCHANGED <<time, digest, item, attach, late, faults>>

\* The call throws, possibly after the provider had accepted.
SendError(s) ==
    /\ sender[s].pc = "sending"
    /\ Fault
    /\ Accept(sender[s].window, sender[s].items) \/ UNCHANGED mail
    /\ sender' = [sender EXCEPT ![s].pc = "refused"]
    /\ UNCHANGED <<time, digest, item, attach, late>>

CloseAnyway(s) ==
    /\ sender[s].pc = "refused"
    /\ digest' = [digest EXCEPT ![sender[s].window] = [state |-> "sent", claim |-> "none"]]
    /\ sender' = [sender EXCEPT ![s] = Idle]
    /\ UNCHANGED <<time, item, attach, mail, late, faults>>
\* releaseDigestClaim: the next hourly run retries the window.
ReleaseDigestClaim(s) ==
    LET d == sender[s].window IN
    /\ sender[s].pc = "refused"
    /\ digest' = IF digest[d].state = "open" THEN [digest EXCEPT ![d].claim = "none"] ELSE digest
    /\ sender' = [sender EXCEPT ![s] = Idle]
    /\ UNCHANGED <<time, item, attach, mail, late, faults>>

\* The second transaction: deliveries, items dispatched by id, window sent.
RecordSent(s) ==
    /\ sender[s].pc = "sent"
    /\ item' = Settle(sender[s].items, "dispatched")
    /\ digest' = [digest EXCEPT ![sender[s].window] = [state |-> "sent", claim |-> "none"]]
    /\ sender' = [sender EXCEPT ![s] = Idle]
    /\ UNCHANGED <<time, attach, mail, late, faults>>

\* The process dies, or a write of the second transaction fails.
Crash(s) ==
    /\ sender[s] # Idle
    /\ Fault
    /\ sender' = [sender EXCEPT ![s] = Idle]
    /\ UNCHANGED <<time, digest, item, attach, mail, late>>

-----------------------------------------------------------------------------
Init ==
    /\ clock = 0 /\ onEnd = FALSE
    /\ digest = [d \in Windows |-> [state |-> "absent", claim |-> "none"]]
    /\ item = [i \in Items |-> [state |-> "pending", window |-> 0]]
    /\ attach = {}
    /\ sender = [s \in Senders |-> Idle]
    /\ emailed = [d \in Windows |-> {}]
    /\ sends = [d \in Windows |-> 0]
    /\ late = {}
    /\ faults = 0

HourlyRun(s) == \E d \in Windows : PlanEmpty(s, d) \/ PlanSend(s, d)
Finish(s) == Send(s) \/ ReleaseDigestClaim(s) \/ RecordSent(s)

Next ==
    \/ Tick
    \/ EndPasses
    \/ \E a \in attach : AttachCommit(a)
    \/ \E d \in Windows : Expire(d)
    \/ \E i \in Items : AttachRead(i) \/ ForgetEntity(i)
    \/ \E s \in Senders : HourlyRun(s) \/ Finish(s) \/ SendError(s) \/ Crash(s)

\* Windows end, transactions commit, the hourly job recurs, leases run out.
Fairness ==
    /\ WF_vars(Tick) /\ WF_vars(EndPasses) /\ WF_vars(\E a \in attach : AttachCommit(a))
    /\ \A d \in Windows : WF_vars(Expire(d))
    /\ \A s \in Senders : WF_vars(HourlyRun(s)) /\ WF_vars(Finish(s))

Spec == Init /\ [][Next]_vars /\ Fairness

-----------------------------------------------------------------------------
(* Properties *)

\* Every variable keeps its type; a sender only works on an existing window.
TypeOK ==
    /\ clock \in 0..MaxWindow /\ onEnd \in BOOLEAN
    /\ digest \in [Windows -> Window]
    /\ item \in [Items -> Item]
    /\ attach \subseteq [item: Items, window: Windows]
    /\ sender \in [Senders -> Sender]
    /\ emailed \in [Windows -> SUBSET Items]
    /\ sends \in [Windows -> Nat]
    /\ late \subseteq Items
    /\ faults \in 0..MaxFaults

\* claimDigest: two runs of the hourly job, a retry or a reclaim after a crash
\* never have two live senders on one window.
OneSender ==
    \A s, t \in Senders : sender[s].window # 0 /\ sender[s].window = sender[t].window => s = t

\* No item reaches the recipient in the digests of two windows, and a window's
\* email is given to a provider again only after a crash or an error: two jobs,
\* a reclaim or a late attach never repeat it by themselves.
InOneEmail ==
    /\ \A c, d \in Windows : c # d => emailed[c] \cap emailed[d] = {}
    /\ \A d \in Windows : sends[d] <= 1 + faults

\* A window is closed as sent only after the provider took its email: an error,
\* a release or a reclaim after a crash never closes it as sent.
SentMeansEmailed == \A d \in Windows : digest[d].state = "sent" => emailed[d] # {}

\* An item over the cap "goes into the open digest window instead of being
\* dropped" (decide): no row waits in a window that is already closed, where
\* neither the sweep (digest_id set) nor the hourly job (state open) looks.  Only
\* a transaction that commits when its window has ended can leave one there.
NothingLeftBehind ==
    \A d \in Windows : digest[d].state \in {"sent", "empty"} => Deferred(d) \subseteq late

\* Every batched row that was committed before its window's end is settled,
\* whatever crashes or is retried.
ItemsSettle ==
    \A i \in Items : item[i].state = "deferred" ~> (item[i].state \in Settled \/ i \in late)
=============================================================================
