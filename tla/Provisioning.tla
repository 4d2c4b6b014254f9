----------------------------- MODULE Provisioning -----------------------------
(***************************************************************************)
(* Building an academy: the provisioning requests of one organization for  *)
(* one address, the BullMQ job that drives each of them, the               *)
(* orchestrator's resumable steps, and the owner who creates, cancels and  *)
(* retries.                                                                *)
(*                                                                         *)
(* A worker runs a step in several transactions (read the request, read    *)
(* the step's row, mark it running, do the work, commit the outcome), each *)
(* an action here.  What it read at the start is kept in its copy; the     *)
(* outcome is written by id, whatever the row has become.  A worker may    *)
(* die between any two of them, and a job whose worker is only slow is     *)
(* handed to a second worker while the first goes on.                      *)
(***************************************************************************)
EXTENDS Naturals

CONSTANTS
  Requests,    \* requests of one organization, all for the same address
  Workers,     \* queue workers
  Last,        \* number of steps of PROVISIONING_STEP_ORDER
  Academy,     \* position of the academy step
  Branding,    \* position of the branding step, the one that never blocks
  Threshold,   \* PROVISIONING_AUTO_SUPPORT_CASE_FAILURE_THRESHOLD
  Attempts,    \* BullMQ attempts of a job
  MaxTrouble,  \* bound on failing steps, crashes, lost enqueues, expired locks
  None         \* no request

ASSUME StepsAreNat ==
  /\ Last \in Nat /\ Academy \in 1..Last /\ Branding \in 1..Last
  /\ Academy < Branding /\ Branding < Last
ASSUME LimitsAreNat ==
  /\ Threshold \in Nat \ {0} /\ Attempts \in Nat \ {0}
  /\ MaxTrouble \in Nat
ASSUME NoneIsNothing == None \notin Requests /\ None \notin Workers

VARIABLES
  req,         \* req[r]: the provisioning_requests row
  rows,        \* rows[r][k]: provisioning_steps.status
  academy,     \* the request the academy of the address was made for, or None
  job,         \* job[r]: the queue's job for r and the worker holding its lock
  worker,      \* worker[w]: what the worker is doing, and its copy of the request
  calls,       \* calls[r]: the owner's calls that are between two of their steps
  done,        \* done[r]: steps whose work was done for r
  tickets,     \* tickets[r]: support cases opened for r
  quit,        \* quit[r]: how r was cancelled, if ever
  overlap,     \* requests that two workers ran at once
  trouble      \* number of failing steps, crashes, lost enqueues, expired locks

vars == <<req, rows, academy, job, worker, calls, done, tickets, quit, overlap,
          trouble>>
----------------------------------------------------------------------------
Steps == 1..Last
Live == {"building", "failed"}
Abandoned == {"ready", "cancelled"}
Terminal == {"ready", "failed", "cancelled"}
NoCopy == [step |-> 1, linked |-> FALSE, attempts |-> 0, ticket |-> FALSE]
IdleWorker == [pc |-> "idle", r |-> None, copy |-> NoCopy, out |-> "none"]
InStep == {"check", "advance", "mark", "exec", "link", "adopt", "commit"}

Request == [status : {"none", "building"} \cup Terminal, step : Steps,
            linked : BOOLEAN, attempts : Nat, ticket : BOOLEAN]
StepStatus == {"pending", "running", "completed", "skipped", "failed"}
Job == [state : {"none", "queued", "active", "failed"}, tries : 0..Attempts,
        lock : Workers \cup {None}]
Copy == [step : Steps, linked : BOOLEAN, attempts : Nat, ticket : BOOLEAN]
Worker == [pc : {"idle", "start", "read", "ticket", "ticketed"} \cup InStep,
           r : Requests \cup {None}, copy : Copy,
           out : {"none", "completed", "skipped", "failed"}]
TypeOK ==
  /\ req \in [Requests -> Request]
  /\ rows \in [Requests -> [Steps -> StepStatus]]
  /\ academy \in Requests \cup {None}
  /\ job \in [Requests -> Job]
  /\ worker \in [Workers -> Worker]
  /\ calls \in [Requests -> SUBSET {"enqueue", "cancel", "branding"}]
  /\ done \in [Requests -> SUBSET Steps]
  /\ tickets \in [Requests -> Nat]
  /\ quit \in [Requests -> {"no", "at rest", "mid step"}]
  /\ overlap \subseteq Requests
  /\ trouble \in 0..MaxTrouble

NoJob == [state |-> "none", tries |-> 0, lock |-> None]

Init ==
  /\ req = [r \in Requests |-> [status |-> "none", step |-> 1, linked |-> FALSE,
                                attempts |-> 0, ticket |-> FALSE]]
  /\ rows = [r \in Requests |-> [k \in Steps |-> "pending"]]
  /\ academy = None
  /\ job = [r \in Requests |-> NoJob]
  /\ worker = [w \in Workers |-> IdleWorker]
  /\ calls = [r \in Requests |-> {}]
  /\ done = [r \in Requests |-> {}]
  /\ tickets = [r \in Requests |-> 0]
  /\ quit = [r \in Requests |-> "no"]
  /\ overlap = {}
  /\ trouble = 0
----------------------------------------------------------------------------
Trouble == trouble < MaxTrouble /\ trouble' = trouble + 1
Running(r) == {w \in Workers : worker[w].r = r}
MidStep(r) == \E w \in Running(r) : worker[w].pc \in InStep
Begin(r, call) == calls' = [calls EXCEPT ![r] = @ \cup {call}]
End(r, call) == call \in calls[r] /\ calls' = [calls EXCEPT ![r] = @ \ {call}]

(* createRequest: serialized per address, refused while another request of *)
(* the organization holds the address (findActiveBySubdomain).  That no    *)
(* academy has the address is read before the transaction and may be stale *)
(* by then, so it is no guard: an academy that a cancelled request left    *)
(* behind may be there.                                                    *)
CreateRequest(r) ==
  /\ req[r].status = "none"
  /\ \A q \in Requests : req[q].status \in {"none", "cancelled"}
  /\ req' = [req EXCEPT ![r].status = "building"]
  /\ Begin(r, "enqueue")
  /\ UNCHANGED <<rows, academy, job, worker, done, tickets, quit, overlap, trouble>>

(* Mutant: a job that used up its attempts still answers for its id. *)
HeldForEver(r) == job[r].state # "none"

(* A job of this id that is waiting or running swallows the enqueue; a     *)
(* finished one is removed first.                                          *)
AlreadyQueued(r) == job[r].state \in {"queued", "active"}

(* ProvisioningProducer.enqueue. *)
Enqueue(r) ==
  job' = IF AlreadyQueued(r) THEN job
         ELSE [job EXCEPT ![r] = [NoJob EXCEPT !.state = "queued"]]

Post(r) ==
  /\ End(r, "enqueue")
  /\ Enqueue(r)
  /\ UNCHANGED <<req, rows, academy, worker, done, tickets, quit, overlap, trouble>>

(* The API process dies after the commit: no job, and no sweep looks for   *)
(* such a request.                                                         *)
PostLost(r) ==
  /\ End(r, "enqueue")
  /\ Trouble
  /\ UNCHANGED <<req, rows, academy, job, worker, done, tickets, quit, overlap>>

(* retryAuthorizedRequest on anything but ready or cancelled; the same     *)
(* enqueue serves a replayed create of a request still in flight.          *)
Retry(r) ==
  /\ req[r].status \in Live /\ "enqueue" \notin calls[r]
  /\ ~AlreadyQueued(r)
  /\ Enqueue(r)
  /\ UNCHANGED <<req, rows, academy, worker, calls, done, tickets, quit, overlap,
                 trouble>>

(* retryBrandingStep of a request that is ready: the row is marked running *)
(* and then given the outcome of the second try.                           *)
RetryBranding(r) ==
  /\ req[r].status = "ready" /\ rows[r][Branding] = "failed"
  /\ "branding" \notin calls[r]
  /\ rows' = [rows EXCEPT ![r][Branding] = "running"]
  /\ Begin(r, "branding")
  /\ UNCHANGED <<req, academy, job, worker, done, tickets, quit, overlap, trouble>>

RebrandingDone(r) ==
  /\ End(r, "branding")
  /\ \E out \in {"completed", "skipped", "failed"} :
       /\ rows' = [rows EXCEPT ![r][Branding] = out]
       /\ done' = IF out = "failed" THEN done
                  ELSE [done EXCEPT ![r] = @ \cup {Branding}]
  /\ UNCHANGED <<req, academy, job, worker, tickets, quit, overlap, trouble>>

(* cancelAuthorizedRequest reads the status and then writes by id. *)
CancelRead(r) ==
  /\ req[r].status \notin Terminal \cup {"none"}
  /\ "cancel" \notin calls[r]
  /\ Begin(r, "cancel")
  /\ UNCHANGED <<req, rows, academy, job, worker, done, tickets, quit, overlap,
                 trouble>>

CancelWrite(r) ==
  /\ End(r, "cancel")
  /\ req' = [req EXCEPT ![r].status = "cancelled"]
  /\ quit' = [quit EXCEPT ![r] = IF MidStep(r) \/ @ = "mid step" THEN "mid step"
                                 ELSE "at rest"]
  /\ UNCHANGED <<rows, academy, job, worker, done, tickets, overlap, trouble>>
----------------------------------------------------------------------------
Become(w, pc) == [worker EXCEPT ![w].pc = pc]

(* On to the next step, which starts from a fresh read. *)
Continue(w) == [worker EXCEPT ![w] = [IdleWorker EXCEPT !.pc = "read",
                                                       !.r = worker[w].r]]

(* The handler returns: the worker that holds the lock completes the job,  *)
(* and removeOnComplete frees its id.                                      *)
Return(w) ==
  /\ worker' = [worker EXCEPT ![w] = IdleWorker]
  /\ job' = IF job[worker[w].r].lock = w
            THEN [job EXCEPT ![worker[w].r] = NoJob] ELSE job

Take(w, r) ==
  /\ worker[w].pc = "idle" /\ job[r].state = "queued"
  /\ job' = [job EXCEPT ![r].state = "active", ![r].lock = w]
  /\ worker' = [worker EXCEPT ![w] = [IdleWorker EXCEPT !.pc = "start", !.r = r]]
  /\ UNCHANGED <<req, rows, academy, calls, done, tickets, quit,
                 overlap, trouble>>

(* The lock of a slow worker expires and the queue hands the job on. *)
HandOver(w, r) ==
  /\ worker[w].pc = "idle" /\ job[r].state = "active" /\ job[r].lock # w
  /\ Running(r) # {}
  /\ Trouble
  /\ job' = [job EXCEPT ![r].lock = w]
  /\ worker' = [worker EXCEPT ![w] = [IdleWorker EXCEPT !.pc = "start", !.r = r]]
  /\ overlap' = overlap \cup {r}
  /\ UNCHANGED <<req, rows, academy, calls, done, tickets, quit>>

(* A worker dies, or an error outside executeStep ends the attempt. *)
Crash(w) ==
  /\ worker[w].pc # "idle"
  /\ Trouble
  /\ worker' = [worker EXCEPT ![w] = IdleWorker]
  /\ LET r == worker[w].r IN
       job' = IF job[r].lock # w THEN job
              ELSE [job EXCEPT ![r] =
                [state |-> IF @.tries + 1 < Attempts THEN "queued" ELSE "failed",
                 tries |-> @.tries + 1, lock |-> None]]
  /\ UNCHANGED <<req, rows, academy, calls, done, tickets, quit,
                 overlap>>

(* Mutant: only a ready request is left alone. *)
AbandonedIfReady(r) == req[r].status = "ready"

(* isAbandoned. *)
IsAbandoned(r) == req[r].status \in Abandoned

(* runToCompletion counts the attempt. *)
Start(w) ==
  LET r == worker[w].r IN
  /\ worker[w].pc = "start"
  /\ IF IsAbandoned(r) THEN Return(w) /\ UNCHANGED req
     ELSE /\ req' = [req EXCEPT ![r].attempts =
                       IF @ < Threshold THEN @ + 1 ELSE @]
          /\ worker' = Become(w, "read")
          /\ UNCHANGED job
  /\ UNCHANGED <<rows, academy, calls, done, tickets, quit, overlap, trouble>>

(* runOneStep reads the request ... *)
ReadRequest(w) ==
  LET r == worker[w].r IN
  /\ worker[w].pc = "read"
  /\ IF IsAbandoned(r) THEN Return(w)
     ELSE /\ worker' = [worker EXCEPT ![w].pc = "check",
                        ![w].copy = [step |-> req[r].step, linked |-> req[r].linked,
                                     attempts |-> req[r].attempts,
                                     ticket |-> req[r].ticket]]
          /\ UNCHANGED job
  /\ UNCHANGED <<req, rows, academy, calls, done, tickets, quit,
                 overlap, trouble>>

(* ... and then the row of its current step. *)
CheckStep(w) ==
  /\ worker[w].pc = "check"
  /\ worker' = Become(w, IF rows[worker[w].r][worker[w].copy.step]
                              \in {"completed", "skipped"}
                         THEN "advance" ELSE "mark")
  /\ UNCHANGED <<req, rows, academy, job, calls, done, tickets, quit,
                 overlap, trouble>>

MarkRunning(w) ==
  /\ worker[w].pc = "mark"
  /\ rows' = [rows EXCEPT ![worker[w].r][worker[w].copy.step] = "running"]
  /\ worker' = Become(w, "exec")
  /\ UNCHANGED <<req, academy, job, calls, done, tickets, quit,
                 overlap, trouble>>
----------------------------------------------------------------------------
Outcome(w, out) == [worker EXCEPT ![w].pc = "commit", ![w].out = out]

Worked(w) == done' = [done EXCEPT ![worker[w].r] = @ \cup {worker[w].copy.step}]

(* executeStep, every step but the academy's: idempotent work that is done *)
(* or, for branding, may have nothing to do.                               *)
ExecuteStep(w) ==
  /\ worker[w].pc = "exec" /\ worker[w].copy.step # Academy
  /\ \/ worker' = Outcome(w, "completed")
     \/ worker[w].copy.step = Branding /\ worker' = Outcome(w, "skipped")
  /\ Worked(w)
  /\ UNCHANGED <<req, rows, academy, job, calls, tickets, quit,
                 overlap, trouble>>

(* The step throws: a plan limit, a name, an unreachable service. *)
StepThrows(w) ==
  /\ worker[w].pc = "exec"
  /\ Trouble
  /\ worker' = Outcome(w, "failed")
  /\ UNCHANGED <<req, rows, academy, job, calls, done, tickets, quit,
                 overlap>>

(* executeAcademyStep: nothing to do, create, or find the slug taken.      *)
(* AcademiesService.create also allocates the subdomain.                   *)
CreateAcademy(w) ==
  /\ worker[w].pc = "exec" /\ worker[w].copy.step = Academy
  /\ \/ /\ worker[w].copy.linked
        /\ worker' = Outcome(w, "completed") /\ Worked(w)
        /\ UNCHANGED academy
     \/ /\ ~worker[w].copy.linked /\ academy = None
        /\ academy' = worker[w].r
        /\ worker' = Become(w, "link")
        /\ UNCHANGED done
     \/ /\ ~worker[w].copy.linked /\ academy # None
        /\ worker' = Become(w, "adopt")
        /\ UNCHANGED <<academy, done>>
  /\ UNCHANGED <<req, rows, job, calls, tickets, quit, overlap, trouble>>

(* provisioning_requests.academy_id is unique. *)
LinkedElsewhere(r) == \E q \in Requests \ {r} : req[q].linked

Link(r) == req' = [req EXCEPT ![r].linked = TRUE]

(* The new academy's id is stored; if another request has it by now, the   *)
(* unique violation is handled like a taken slug.                          *)
LinkAcademy(w) ==
  LET r == worker[w].r IN
  /\ worker[w].pc = "link"
  /\ IF LinkedElsewhere(r)
     THEN worker' = Become(w, "adopt") /\ UNCHANGED <<req, done>>
     ELSE Link(r) /\ worker' = Outcome(w, "completed") /\ Worked(w)
  /\ UNCHANGED <<rows, academy, job, calls, tickets, quit, overlap, trouble>>

(* tryAdoptExistingAcademy.  A request linked between its check and its    *)
(* write makes the write fail, which ends the step like the check does.    *)
AdoptAcademy(w) ==
  LET r == worker[w].r IN
  /\ worker[w].pc = "adopt"
  /\ IF LinkedElsewhere(r)
     THEN worker' = Outcome(w, "failed") /\ UNCHANGED <<req, done>>
     ELSE Link(r) /\ worker' = Outcome(w, "completed") /\ Worked(w)
  /\ UNCHANGED <<rows, academy, job, calls, tickets, quit, overlap, trouble>>
----------------------------------------------------------------------------
(* Mutant: it moves the request on from wherever it stands. *)
AdvanceFromRow(r, k) ==
  [req EXCEPT ![r].status = IF req[r].step = Last THEN "ready" ELSE "building",
              ![r].step = IF @ < Last THEN @ + 1 ELSE @]

(* Mutant: the last step has a successor too. *)
AdvancePastEnd(r, k) ==
  [req EXCEPT ![r].status = IF k = Last THEN "ready" ELSE "building",
              ![r].step = k + 1]

(* advanceRequestAfterStep: from the step this worker ran. *)
AdvanceAfter(r, k) ==
  [req EXCEPT ![r].status = IF k = Last THEN "ready" ELSE "building",
              ![r].step = IF k < Last THEN k + 1 ELSE k]

(* advancePastStep. *)
AdvancePast(w) ==
  LET r == worker[w].r
      k == worker[w].copy.step
  IN
  /\ worker[w].pc = "advance"
  /\ req' = AdvanceAfter(r, k)
  /\ IF k = Last THEN Return(w) ELSE worker' = Continue(w) /\ UNCHANGED job
  /\ UNCHANGED <<rows, academy, calls, done, tickets, quit, overlap, trouble>>

(* The outcome is written.  A blocking failure ends the run, and the       *)
(* second failed attempt asks for a support case.                          *)
CommitStep(w) ==
  LET r == worker[w].r
      k == worker[w].copy.step
      out == worker[w].out
  IN
  /\ worker[w].pc = "commit"
  /\ rows' = [rows EXCEPT ![r][k] = out]
  /\ IF out = "failed" /\ k # Branding
     THEN /\ req' = [req EXCEPT ![r].status = "failed"]
          /\ IF worker[w].copy.attempts >= Threshold /\ ~worker[w].copy.ticket
             THEN worker' = [Continue(w) EXCEPT ![w].pc = "ticket"] /\ UNCHANGED job
             ELSE Return(w)
     ELSE /\ req' = AdvanceAfter(r, k)
          /\ IF k = Last THEN Return(w)
             ELSE worker' = Continue(w) /\ UNCHANGED job
  /\ UNCHANGED <<academy, calls, done, tickets, quit, overlap, trouble>>

(* createAutoSupportCase reads the request again ... *)
CheckTicket(w) ==
  /\ worker[w].pc = "ticket"
  /\ IF req[worker[w].r].ticket THEN Return(w)
     ELSE worker' = Become(w, "ticketed") /\ UNCHANGED job
  /\ UNCHANGED <<req, rows, academy, calls, done, tickets, quit,
                 overlap, trouble>>

(* Mutant: the case is opened, and the request does not remember it. *)
TicketForgotten(r) == req

TicketStored(r) == [req EXCEPT ![r].ticket = TRUE]

(* ... opens the case and stores its id. *)
OpenTicket(w) ==
  LET r == worker[w].r IN
  /\ worker[w].pc = "ticketed"
  /\ tickets' = [tickets EXCEPT ![r] = @ + 1]
  /\ req' = TicketStored(r)
  /\ Return(w)
  /\ UNCHANGED <<rows, academy, calls, done, quit, overlap, trouble>>

(* Opening it fails: the error is logged and swallowed, and the job ends   *)
(* like any other.                                                         *)
TicketFails(w) ==
  /\ worker[w].pc = "ticketed"
  /\ Trouble
  /\ Return(w)
  /\ UNCHANGED <<req, rows, academy, calls, done, tickets, quit, overlap>>

Run(w) ==
  \/ Start(w) \/ ReadRequest(w) \/ CheckStep(w) \/ MarkRunning(w)
  \/ ExecuteStep(w) \/ CreateAcademy(w) \/ LinkAcademy(w) \/ AdoptAcademy(w)
  \/ AdvancePast(w) \/ CommitStep(w) \/ CheckTicket(w) \/ OpenTicket(w)

Next ==
  \/ \E r \in Requests :
       \/ CreateRequest(r) \/ Post(r) \/ PostLost(r) \/ Retry(r)
       \/ RetryBranding(r) \/ RebrandingDone(r) \/ CancelRead(r) \/ CancelWrite(r)
  \/ \E w \in Workers :
       \/ Run(w) \/ StepThrows(w) \/ TicketFails(w) \/ Crash(w)
       \/ \E r \in Requests : Take(w, r) \/ HandOver(w, r)

(* Workers go on with what they took, the queue hands out its jobs in      *)
(* order, and a call's own steps end.  Nobody is obliged to create, cancel *)
(* or retry.                                                               *)
Fairness ==
  /\ \A w \in Workers : WF_vars(Run(w))
  /\ \A r \in Requests :
       /\ SF_vars(\E w \in Workers : Take(w, r))
       /\ WF_vars(Post(r)) /\ WF_vars(CancelWrite(r)) /\ WF_vars(RebrandingDone(r))
Spec == Init /\ [][Next]_vars /\ Fairness
----------------------------------------------------------------------------
(* A request is ready only when it owns its academy and every step's work  *)
(* was done for it (branding alone may have failed), however many workers  *)
(* ran it, died in it or wrote over each other's progress.                 *)
ReadyMeansBuilt ==
  \A r \in Requests : req[r].status = "ready" =>
    req[r].linked /\ Steps \ {Branding} \subseteq done[r]

(* A cancellation that meets no step in progress is final, whatever job is *)
(* still queued, handed over or retried.                                   *)
RestingCancelHolds ==
  \A r \in Requests : quit[r] = "at rest" => req[r].status = "cancelled"

(* However often a request fails and is retried, one support case is       *)
(* opened for it, as long as no two workers ran it at once.                *)
OneTicket == \A r \in Requests : tickets[r] > 1 => r \in overlap

(* Retry works: an owner who retries a build that nothing drives any more  *)
(* (its enqueue was lost, or its job used up its attempts) gets it settled. *)
RetriedBuildSettles ==
  \A r \in Requests :
    WF_vars(Retry(r)) =>
      (req[r].status = "building" ~> req[r].status \in Terminal)

(* What the orchestrator's header says of a concurrent cancel: once        *)
(* committed, every execution respects it.                                 *)
CancelIsRespected ==
  \A r \in Requests : quit[r] # "no" => req[r].status = "cancelled"
=============================================================================
