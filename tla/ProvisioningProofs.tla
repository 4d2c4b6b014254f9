------------------------- MODULE ProvisioningProofs -------------------------
(***************************************************************************)
(* Proofs about Provisioning, for every number of requests, workers and    *)
(* failures.                                                               *)
(***************************************************************************)
EXTENDS Provisioning, TLAPS

(* A worker that is not idle runs a request, and has an outcome to commit. *)
Fit(x) ==
  /\ IF x.pc = "idle" THEN x.r = None ELSE x.r \in Requests
  /\ x.pc = "commit" => x.out # "none"
Busy == \A w \in Workers : Fit(worker[w])

(* A job that still runs has an attempt left, and only an active one is    *)
(* locked.                                                                 *)
GoodJob == {j \in Job : /\ j.state \in {"queued", "active"} => j.tries < Attempts
                        /\ j.lock # None => j.state = "active"}
Typed == TypeOK /\ Busy /\ job \in [Requests -> GoodJob]

LEMMA StepsFacts ==
  /\ Steps \subseteq Nat /\ 1 \in Steps /\ Last \in Steps
  /\ Academy \in Steps /\ Branding \in Steps
  /\ Academy # Branding /\ Branding # Last
  /\ \A k \in Steps : k < Last => k + 1 \in Steps
BY StepsAreNat DEF Steps

LEMMA NewWorkerTyped ==
  ASSUME NEW r \in Requests \cup {None}, NEW pc \in {"idle", "start", "read", "ticket"}
  PROVE [IdleWorker EXCEPT !.pc = pc, !.r = r] \in Worker
BY StepsFacts DEF IdleWorker, NoCopy, Worker, Copy, InStep

LEMMA IdleWorkerTyped == IdleWorker \in Worker
BY StepsFacts DEF IdleWorker, NoCopy, Worker, Copy, InStep

LEMMA GoodJobs == \A f : f \in [Requests -> GoodJob] => f \in [Requests -> Job]
BY DEF GoodJob

LEMMA NoJobTyped == NoJob \in GoodJob
BY LimitsAreNat DEF NoJob, Job, GoodJob

LEMMA InitTyped == Init => Typed
<1> SUFFICES ASSUME Init PROVE Typed
  OBVIOUS
<1>1. req \in [Requests -> Request]
  BY StepsFacts DEF Init, Request
<1>2. rows \in [Requests -> [Steps -> StepStatus]]
  BY DEF Init, StepStatus
<1>3. worker \in [Workers -> Worker] /\ job \in [Requests -> GoodJob]
  BY IdleWorkerTyped, NoJobTyped DEF Init
<1>4. Busy
  BY DEF Init, Busy, Fit, IdleWorker
<1> QED
  BY <1>1, <1>2, <1>3, <1>4, LimitsAreNat DEF Init, Typed, TypeOK, GoodJob

(* A worker's record replaced by a well-formed one. *)
Sound(x) == x \in Worker /\ Fit(x)

LEMMA WorkerWrite ==
  ASSUME Typed, NEW w \in Workers, NEW x, Sound(x),
         worker' = [worker EXCEPT ![w] = x]
  PROVE worker' \in [Workers -> Worker] /\ Busy'
<1>1. \A v \in Workers : worker'[v] = IF v = w THEN x ELSE worker[v]
  BY DEF Typed, TypeOK
<1>2. worker' \in [Workers -> Worker]
  BY DEF Typed, TypeOK, Sound
<1>3. Busy'
  BY <1>1 DEF Typed, Busy, Sound
<1> QED
  BY <1>2, <1>3

LEMMA JobWrite ==
  ASSUME Typed, NEW r, NEW x \in GoodJob, job' = [job EXCEPT ![r] = x]
  PROVE job' \in [Requests -> GoodJob]
BY DEF Typed, TypeOK

LEMMA IdleSound == Sound(IdleWorker)
BY IdleWorkerTyped DEF Sound, Fit, IdleWorker

LEMMA NewSound ==
  ASSUME NEW r \in Requests, NEW pc \in {"start", "read", "ticket"}
  PROVE Sound([IdleWorker EXCEPT !.pc = pc, !.r = r])
BY NewWorkerTyped DEF Sound, Fit, IdleWorker

(* A worker that goes on keeps its request. *)
LEMMA GoOnSound ==
  ASSUME Typed, NEW w \in Workers, worker[w].pc # "idle",
         NEW pc \in (InStep \ {"commit"}) \cup {"read", "ticketed"},
         NEW copy \in Copy, NEW out \in {"completed", "skipped", "failed"}
  PROVE /\ worker[w].r \in Requests
        /\ Sound([worker[w] EXCEPT !.pc = pc])
        /\ Sound([worker[w] EXCEPT !.pc = pc, !.copy = copy])
        /\ Sound([worker[w] EXCEPT !.pc = "commit", !.out = out])
<1>1. worker[w] \in Worker /\ worker[w].r \in Requests
  BY DEF Typed, TypeOK, Busy, Fit
<1>2. pc # "idle" /\ pc # "commit"
  BY DEF InStep
<1> QED
  BY <1>1, <1>2 DEF Sound, Fit, Worker, InStep

LEMMA ReturnTyped ==
  ASSUME Typed, NEW w \in Workers, Return(w)
  PROVE worker' \in [Workers -> Worker] /\ Busy' /\ job' \in [Requests -> GoodJob]
<1>1. worker' = [worker EXCEPT ![w] = IdleWorker]
  BY DEF Return
<1>2. job' = job \/ job' = [job EXCEPT ![worker[w].r] = NoJob]
  BY DEF Return
<1>3. job' \in [Requests -> GoodJob]
  BY <1>2, NoJobTyped, JobWrite DEF Typed, TypeOK
<1> QED
  BY <1>1, <1>3, WorkerWrite, IdleSound
(* What a step does to the worker that takes it. *)
LEMMA MovesTyped ==
  ASSUME Typed, NEW w \in Workers, worker[w].pc # "idle"
  PROVE /\ \A pc \in (InStep \ {"commit"}) \cup {"read", "ticketed"} :
             worker' = Become(w, pc) => worker' \in [Workers -> Worker] /\ Busy'
        /\ \A out \in {"completed", "skipped", "failed"} :
             worker' = Outcome(w, out) => worker' \in [Workers -> Worker] /\ Busy'
        /\ worker' = Continue(w) => worker' \in [Workers -> Worker] /\ Busy'
        /\ worker' = [Continue(w) EXCEPT ![w].pc = "ticket"]
             => worker' \in [Workers -> Worker] /\ Busy'
<1>0. worker \in [Workers -> Worker] /\ worker[w].r \in Requests
  BY DEF Typed, TypeOK, Busy, Fit
<1>1. ASSUME NEW pc \in (InStep \ {"commit"}) \cup {"read", "ticketed"},
             worker' = Become(w, pc)
      PROVE worker' \in [Workers -> Worker] /\ Busy'
  <2>1. worker' = [worker EXCEPT ![w] = [worker[w] EXCEPT !.pc = pc]]
    BY <1>0, <1>1 DEF Become
  <2> QED
    BY <2>1, WorkerWrite, GoOnSound, <1>0, Zenon DEF Worker
<1>2. ASSUME NEW out \in {"completed", "skipped", "failed"}, worker' = Outcome(w, out)
      PROVE worker' \in [Workers -> Worker] /\ Busy'
  <2>1. worker' = [worker EXCEPT ![w] = [worker[w] EXCEPT !.pc = "commit", !.out = out]]
    BY <1>0, <1>2 DEF Outcome
  <2>2. Sound([worker[w] EXCEPT !.pc = "commit", !.out = out])
    BY <1>0, GoOnSound DEF InStep, Worker
  <2> QED
    BY <2>1, <2>2, WorkerWrite
<1>3. ASSUME worker' = Continue(w) PROVE worker' \in [Workers -> Worker] /\ Busy'
  BY <1>3, <1>0, WorkerWrite, NewSound DEF Continue
<1>4. ASSUME worker' = [Continue(w) EXCEPT ![w].pc = "ticket"]
      PROVE worker' \in [Workers -> Worker] /\ Busy'
  <2>1. worker' = [worker EXCEPT ![w] = [IdleWorker EXCEPT !.pc = "ticket",
                                                           !.r = worker[w].r]]
    BY <1>4, <1>0 DEF Continue, IdleWorker
  <2> QED
    BY <2>1, <1>0, WorkerWrite, NewSound
<1> QED
  BY <1>1, <1>2, <1>3, <1>4

(* What a step does to the row of a request. *)
LEMMA RequestTyped ==
  ASSUME Typed, NEW r, NEW k \in Steps
  PROVE /\ AdvanceAfter(r, k) \in [Requests -> Request]
        /\ TicketStored(r) \in [Requests -> Request]
        /\ [req EXCEPT ![r].linked = TRUE] \in [Requests -> Request]
        /\ \A st \in {"building"} \cup Terminal :
             [req EXCEPT ![r].status = st] \in [Requests -> Request]
<1>1. req \in [Requests -> Request]
  BY DEF Typed, TypeOK
<1>2. AdvanceAfter(r, k) \in [Requests -> Request]
  <2> DEFINE st == IF k = Last THEN "ready" ELSE "building"
             n == IF k < Last THEN k + 1 ELSE k
  <2>1. st \in {"none", "building"} \cup Terminal /\ n \in Steps
    BY StepsFacts DEF Terminal
  <2>2. AdvanceAfter(r, k) = [req EXCEPT ![r].status = st, ![r].step = n]
    BY DEF AdvanceAfter
  <2> HIDE DEF st, n
  <2> QED
    BY <1>1, <2>1, <2>2 DEF Request
<1>3. [req EXCEPT ![r].linked = TRUE] \in [Requests -> Request]
  BY <1>1 DEF Request
<1>4. TicketStored(r) \in [Requests -> Request]
  BY <1>1 DEF Request, TicketStored
<1>5. ASSUME NEW st \in {"building"} \cup Terminal
      PROVE [req EXCEPT ![r].status = st] \in [Requests -> Request]
  BY <1>1, <1>5 DEF Request
<1> QED
  BY <1>2, <1>3, <1>4, <1>5

(* What the remaining variables become. *)
LEMMA OthersTyped ==
  ASSUME Typed, NEW r \in Requests
  PROVE /\ worker' = worker => worker' \in [Workers -> Worker] /\ Busy'
        /\ \A c \in {"enqueue", "cancel", "branding"} : Begin(r, c) \/ End(r, c)
             => calls' \in [Requests -> SUBSET {"enqueue", "cancel", "branding"}]
        /\ Trouble => trouble' \in 0..MaxTrouble
        /\ Enqueue(r) => job' \in [Requests -> GoodJob]
        /\ \A k \in Steps : \A st \in StepStatus :
             [rows EXCEPT ![r][k] = st] \in [Requests -> [Steps -> StepStatus]]
        /\ \A k \in Steps :
             [done EXCEPT ![r] = @ \cup {k}] \in [Requests -> SUBSET Steps]
<1>1. worker' = worker => worker' \in [Workers -> Worker] /\ Busy'
  BY DEF Typed, TypeOK, Busy, Fit
<1>2. ASSUME NEW c \in {"enqueue", "cancel", "branding"}, Begin(r, c) \/ End(r, c)
      PROVE calls' \in [Requests -> SUBSET {"enqueue", "cancel", "branding"}]
  <2>1. calls \in [Requests -> SUBSET {"enqueue", "cancel", "branding"}]
    BY DEF Typed, TypeOK
  <2>2. CASE Begin(r, c)
    BY <2>1, <2>2 DEF Begin
  <2>3. CASE End(r, c)
    BY <2>1, <2>3 DEF End
  <2> QED
    BY <1>2, <2>2, <2>3
<1>3. Trouble => trouble' \in 0..MaxTrouble
  <2>1. trouble \in 0..MaxTrouble
    BY DEF Typed, TypeOK
  <2> QED
    BY <2>1, LimitsAreNat DEF Trouble
<1>4. Enqueue(r) => job' \in [Requests -> GoodJob]
  <2>1. [NoJob EXCEPT !.state = "queued"] \in GoodJob
    BY LimitsAreNat DEF NoJob, Job, GoodJob
  <2> QED
    BY <2>1 DEF Enqueue, Typed, TypeOK
<1>5. \A k \in Steps : \A st \in StepStatus :
        [rows EXCEPT ![r][k] = st] \in [Requests -> [Steps -> StepStatus]]
  <2>1. rows \in [Requests -> [Steps -> StepStatus]]
    BY DEF Typed, TypeOK
  <2> QED
    BY <2>1
<1>6. \A k \in Steps :
        [done EXCEPT ![r] = @ \cup {k}] \in [Requests -> SUBSET Steps]
  BY DEF Typed, TypeOK
<1> QED
  BY <1>1, <1>2, <1>3, <1>4, <1>5, <1>6

(* The fields of a worker that runs a request. *)
LEMMA WorkerFacts ==
  ASSUME Typed, NEW w \in Workers, worker[w].pc # "idle"
  PROVE /\ worker[w].r \in Requests /\ worker[w].copy \in Copy
        /\ worker[w].copy.step \in Steps
        /\ worker[w].out \in {"none", "completed", "skipped", "failed"}
        /\ worker[w].pc = "commit" => worker[w].out \in StepStatus
<1>1. worker[w] \in Worker /\ Fit(worker[w])
  BY DEF Typed, TypeOK, Busy
<1> QED
  BY <1>1 DEF Fit, Worker, Copy, StepStatus

(* The owner's calls keep the types. *)
LEMMA TypedCall ==
  ASSUME Typed, NEW r \in Requests,
         CreateRequest(r) \/ Post(r) \/ PostLost(r) \/ Retry(r) \/ RetryBranding(r)
         \/ RebrandingDone(r) \/ CancelRead(r) \/ CancelWrite(r)
  PROVE Typed'
<1>0. Branding \in Steps /\ 1 \in Steps
  BY StepsFacts
<1>1. CASE CreateRequest(r)
  <2>1. req' \in [Requests -> Request]
    BY <1>0, <1>1, RequestTyped DEF CreateRequest
  <2> QED
    BY <1>1, <2>1, OthersTyped DEF CreateRequest, Typed, TypeOK
<1>2. CASE Post(r) \/ PostLost(r) \/ Retry(r)
  <2>1. job' \in [Requests -> GoodJob]
    BY <1>2, OthersTyped DEF Post, PostLost, Retry, Typed, TypeOK
  <2>2. calls' \in [Requests -> SUBSET {"enqueue", "cancel", "branding"}]
    BY <1>2, OthersTyped DEF Post, PostLost, Retry, Typed, TypeOK
  <2>3. trouble' \in 0..MaxTrouble
    BY <1>2, OthersTyped DEF Post, PostLost, Retry, Typed, TypeOK
  <2> QED
    BY <1>2, <2>1, <2>2, <2>3, OthersTyped, GoodJobs
    DEF Post, PostLost, Retry, Typed, TypeOK
<1>3. CASE RetryBranding(r)
  <2>1. rows' \in [Requests -> [Steps -> StepStatus]]
    BY <1>0, <1>3, OthersTyped DEF RetryBranding, StepStatus
  <2> QED
    BY <1>3, <2>1, OthersTyped DEF RetryBranding, Typed, TypeOK
<1>4. CASE RebrandingDone(r)
  <2>1. PICK out \in {"completed", "skipped", "failed"} :
          /\ rows' = [rows EXCEPT ![r][Branding] = out]
          /\ done' = IF out = "failed" THEN done
                     ELSE [done EXCEPT ![r] = @ \cup {Branding}]
    BY <1>4 DEF RebrandingDone
  <2>2. rows' \in [Requests -> [Steps -> StepStatus]]
    BY <1>0, <2>1, OthersTyped DEF StepStatus
  <2>3. done' \in [Requests -> SUBSET Steps]
    BY <1>0, <2>1, OthersTyped DEF Typed, TypeOK
  <2> QED
    BY <1>4, <2>2, <2>3, OthersTyped DEF RebrandingDone, Typed, TypeOK
<1>5. CASE CancelRead(r)
  BY <1>5, OthersTyped DEF CancelRead, Typed, TypeOK
<1>6. CASE CancelWrite(r)
  <2>1. req' \in [Requests -> Request]
    BY <1>0, <1>6, RequestTyped DEF CancelWrite, Terminal
  <2>2. quit' \in [Requests -> {"no", "at rest", "mid step"}]
    BY <1>6 DEF CancelWrite, Typed, TypeOK
  <2> QED
    BY <1>6, <2>1, <2>2, OthersTyped DEF CancelWrite, Typed, TypeOK
<1> QED
  BY <1>1, <1>2, <1>3, <1>4, <1>5, <1>6

(* The queue's steps keep the types. *)
LEMMA TypedQueue ==
  ASSUME Typed, NEW w \in Workers, NEW r \in Requests,
         Take(w, r) \/ HandOver(w, r) \/ Crash(w)
  PROVE Typed'
<1>1. ASSUME Take(w, r) \/ HandOver(w, r) PROVE Typed'
  <2>1. worker' \in [Workers -> Worker] /\ Busy'
    BY <1>1, WorkerWrite, NewSound DEF Take, HandOver
  <2>2. job \in [Requests -> GoodJob]
    BY DEF Typed, TypeOK
  <2>3. job' \in [Requests -> GoodJob]
    <3>1. CASE Take(w, r)
      BY <2>2, <3>1 DEF Take, Job, GoodJob
    <3>2. CASE HandOver(w, r)
      BY <2>2, <3>2 DEF HandOver, Job, GoodJob
    <3> QED
      BY <1>1, <3>1, <3>2
  <2>4. trouble' \in 0..MaxTrouble /\ overlap' \subseteq Requests
    BY <1>1, OthersTyped DEF Take, HandOver, Typed, TypeOK
  <2> QED
    BY <1>1, <2>1, <2>3, <2>4, GoodJobs
    DEF Take, HandOver, Typed, TypeOK
<1>2. ASSUME Crash(w) PROVE Typed'
  <2>1. worker' \in [Workers -> Worker] /\ Busy'
    BY <1>2, WorkerWrite, IdleSound DEF Crash
  <2>2. worker[w].r \in Requests
    BY <1>2, WorkerFacts DEF Crash
  <2> DEFINE q == worker[w].r
  <2>3. job[q] \in GoodJob
    BY <2>2 DEF Typed, TypeOK
  <2>4. \/ job' = job
        \/ /\ job[q].lock = w
           /\ job' = [job EXCEPT ![q] =
               [state |-> IF job[q].tries + 1 < Attempts THEN "queued" ELSE "failed",
                tries |-> job[q].tries + 1, lock |-> None]]
    BY <1>2 DEF Crash, Typed, TypeOK
  <2>5. job' \in [Requests -> GoodJob]
    BY <2>3, <2>4, JobWrite, LimitsAreNat, NoneIsNothing DEF Job, GoodJob, Typed
  <2> QED
    BY <1>2, <2>1, <2>5, OthersTyped, GoodJobs
    DEF Crash, Typed, TypeOK
<1> QED
  BY <1>1, <1>2

(* A worker's steps keep the types. *)
LEMMA TypedRead ==
  ASSUME Typed, NEW w \in Workers, Start(w) \/ ReadRequest(w) \/ CheckStep(w)
  PROVE Typed'
<1>0. worker[w].pc # "idle"
  BY DEF Start, ReadRequest, CheckStep
<1> DEFINE r == worker[w].r
<1>1. r \in Requests /\ req \in [Requests -> Request] /\ worker \in [Workers -> Worker]
  BY <1>0, WorkerFacts DEF Typed, TypeOK
<1>2. CASE Start(w)
  <2>1. worker' \in [Workers -> Worker] /\ Busy' /\ job' \in [Requests -> GoodJob]
    BY <1>2, <1>0, ReturnTyped, MovesTyped DEF Start, Typed
  <2>2. \/ req' = req
        \/ req' = [req EXCEPT ![r].attempts = IF @ < Threshold THEN @ + 1 ELSE @]
    BY <1>2 DEF Start
  <2>3. req' \in [Requests -> Request]
    BY <2>2, <1>1, LimitsAreNat DEF Request
  <2> QED
    BY <1>2, <2>1, <2>3, GoodJobs DEF Start, Typed, TypeOK
<1>3. CASE CheckStep(w)
  <2>1. worker' \in [Workers -> Worker] /\ Busy'
    BY <1>3, <1>0, MovesTyped DEF CheckStep, InStep
  <2> QED
    BY <1>3, <2>1 DEF CheckStep, Typed, TypeOK
<1>4. CASE ReadRequest(w)
  <2> DEFINE c == [step |-> req[r].step, linked |-> req[r].linked,
                   attempts |-> req[r].attempts, ticket |-> req[r].ticket]
  <2>1. c \in Copy
    BY <1>1 DEF Copy, Request
  <2>2. worker' \in [Workers -> Worker] /\ Busy' /\ job' \in [Requests -> GoodJob]
    <3>1. CASE ~IsAbandoned(r)
      <4>1. worker' = [worker EXCEPT ![w] = [worker[w] EXCEPT !.pc = "check",
                                                             !.copy = c]]
        BY <1>4, <3>1, <1>1 DEF ReadRequest, Worker
      <4> HIDE DEF c
      <4>2. Sound([worker[w] EXCEPT !.pc = "check", !.copy = c])
        BY <2>1, <1>0, GoOnSound DEF InStep
      <4>3. job' = job
        BY <1>4, <3>1 DEF ReadRequest
      <4> QED
        BY <4>1, <4>2, <4>3, WorkerWrite DEF Typed
    <3>2. CASE IsAbandoned(r)
      BY <1>4, <3>2, ReturnTyped DEF ReadRequest
    <3> QED
      BY <3>1, <3>2
  <2> QED
    BY <1>4, <2>2, GoodJobs DEF ReadRequest, Typed, TypeOK
<1> QED
  BY <1>2, <1>3, <1>4

LEMMA TypedWork ==
  ASSUME Typed, NEW w \in Workers,
         MarkRunning(w) \/ ExecuteStep(w) \/ StepThrows(w) \/ CreateAcademy(w)
         \/ LinkAcademy(w) \/ AdoptAcademy(w)
  PROVE Typed'
<1>0. worker[w].pc # "idle"
  BY DEF MarkRunning, ExecuteStep, StepThrows, CreateAcademy, LinkAcademy, AdoptAcademy
<1>1. worker[w].r \in Requests /\ worker[w].copy.step \in Steps
  BY <1>0, WorkerFacts
<1>2. Worked(w) => done' \in [Requests -> SUBSET Steps]
  BY <1>1, OthersTyped DEF Worked
<1>3. Link(worker[w].r) => req' \in [Requests -> Request]
  BY <1>1, RequestTyped DEF Link
<1>4. \A pc \in {"exec", "link", "adopt"} :
        worker' = Become(w, pc) => worker' \in [Workers -> Worker] /\ Busy'
  BY <1>0, MovesTyped DEF InStep
<1>5. \A out \in {"completed", "skipped", "failed"} :
        worker' = Outcome(w, out) => worker' \in [Workers -> Worker] /\ Busy'
  BY <1>0, MovesTyped
<1>6. CASE MarkRunning(w)
  <2>1. rows' \in [Requests -> [Steps -> StepStatus]]
    BY <1>6, <1>1, OthersTyped DEF MarkRunning, StepStatus
  <2> QED
    BY <1>6, <2>1, <1>4 DEF MarkRunning, Typed, TypeOK
<1>7. CASE ExecuteStep(w)
  BY <1>7, <1>2, <1>5 DEF ExecuteStep, Typed, TypeOK
<1>8. CASE StepThrows(w)
  BY <1>8, <1>1, <1>5, OthersTyped DEF StepThrows, Typed, TypeOK
<1>9. CASE CreateAcademy(w)
  <2>1. worker' \in [Workers -> Worker] /\ Busy'
    BY <1>9, <1>4, <1>5 DEF CreateAcademy
  <2>2. done' \in [Requests -> SUBSET Steps] /\ academy' \in Requests \cup {None}
    BY <1>9, <1>1, <1>2 DEF CreateAcademy, Typed, TypeOK
  <2> QED
    BY <1>9, <2>1, <2>2 DEF CreateAcademy, Typed, TypeOK
<1>10. CASE LinkAcademy(w)
  <2>1. worker' \in [Workers -> Worker] /\ Busy'
    BY <1>10, <1>4, <1>5 DEF LinkAcademy
  <2>2. done' \in [Requests -> SUBSET Steps] /\ req' \in [Requests -> Request]
    BY <1>10, <1>2, <1>3 DEF LinkAcademy, Typed, TypeOK
  <2> QED
    BY <1>10, <2>1, <2>2 DEF LinkAcademy, Typed, TypeOK
<1>11. CASE AdoptAcademy(w)
  <2>1. worker' \in [Workers -> Worker] /\ Busy'
    BY <1>11, <1>5 DEF AdoptAcademy
  <2>2. done' \in [Requests -> SUBSET Steps] /\ req' \in [Requests -> Request]
    BY <1>11, <1>2, <1>3 DEF AdoptAcademy, Typed, TypeOK
  <2> QED
    BY <1>11, <2>1, <2>2 DEF AdoptAcademy, Typed, TypeOK
<1> QED
  BY <1>6, <1>7, <1>8, <1>9, <1>10, <1>11

LEMMA TypedCommit ==
  ASSUME Typed, NEW w \in Workers,
         AdvancePast(w) \/ CommitStep(w) \/ CheckTicket(w) \/ OpenTicket(w)
         \/ TicketFails(w)
  PROVE Typed'
<1>0. worker[w].pc # "idle"
  BY DEF AdvancePast, CommitStep, CheckTicket, OpenTicket, TicketFails
<1> DEFINE r == worker[w].r
           k == worker[w].copy.step
<1>1. r \in Requests /\ k \in Steps
  BY <1>0, WorkerFacts
<1>2. worker' \in [Workers -> Worker] /\ Busy' /\ job' \in [Requests -> GoodJob]
  <2>1. \/ Return(w)
        \/ UNCHANGED job /\ (worker' = Continue(w) \/ worker' = Become(w, "ticketed")
                             \/ worker' = [Continue(w) EXCEPT ![w].pc = "ticket"])
    BY DEF AdvancePast, CommitStep, CheckTicket, OpenTicket, TicketFails
  <2>2. CASE Return(w)
    BY <2>2, ReturnTyped
  <2>3. CASE ~Return(w)
    BY <2>1, <2>3, <1>0, MovesTyped DEF Typed
  <2> QED
    BY <2>2, <2>3
<1>3. AdvanceAfter(r, k) \in [Requests -> Request]
      /\ TicketStored(r) \in [Requests -> Request]
      /\ [req EXCEPT ![r].status = "failed"] \in [Requests -> Request]
  BY <1>1, RequestTyped DEF Terminal
<1>4. CASE AdvancePast(w)
  BY <1>4, <1>2, <1>3, GoodJobs DEF AdvancePast, Typed, TypeOK
<1>5. CASE CommitStep(w)
  <2>1. rows' \in [Requests -> [Steps -> StepStatus]]
    BY <1>5, <1>1, <1>0, WorkerFacts, OthersTyped DEF CommitStep
  <2>2. req' \in [Requests -> Request]
    BY <1>5, <1>3 DEF CommitStep
  <2> QED
    BY <1>5, <1>2, <2>1, <2>2, GoodJobs DEF CommitStep, Typed, TypeOK
<1>6. CASE CheckTicket(w)
  BY <1>6, <1>2, GoodJobs DEF CheckTicket, Typed, TypeOK
<1>7. CASE OpenTicket(w)
  <2>1. tickets' \in [Requests -> Nat]
    <3>1. tickets \in [Requests -> Nat]
      BY DEF Typed, TypeOK
    <3> QED
      BY <3>1, <1>1, <1>7 DEF OpenTicket
  <2> QED
    BY <1>7, <1>2, <1>3, <2>1, GoodJobs DEF OpenTicket, Typed, TypeOK
<1>8. CASE TicketFails(w)
  BY <1>8, <1>1, <1>2, GoodJobs, OthersTyped DEF TicketFails, Typed, TypeOK
<1> QED
  BY <1>4, <1>5, <1>6, <1>7, <1>8

LEMMA TypedStep == Typed /\ [Next]_vars => Typed'
<1> SUFFICES ASSUME Typed, [Next]_vars PROVE Typed'
  OBVIOUS
<1>1. CASE UNCHANGED vars
  BY <1>1 DEF vars, Typed, TypeOK, Busy, Fit
<1>2. ASSUME NEW r \in Requests,
             CreateRequest(r) \/ Post(r) \/ PostLost(r) \/ Retry(r) \/ RetryBranding(r)
             \/ RebrandingDone(r) \/ CancelRead(r) \/ CancelWrite(r)
      PROVE Typed'
  BY <1>2, TypedCall
<1>3. ASSUME NEW w \in Workers, NEW r \in Requests, Take(w, r) \/ HandOver(w, r)
      PROVE Typed'
  BY <1>3, TypedQueue
<1>4. ASSUME NEW w \in Workers, Crash(w) PROVE Typed'
  <2>1. worker[w].r \in Requests
    BY <1>4, WorkerFacts DEF Crash
  <2> QED
    BY <1>4, <2>1, TypedQueue
<1>5. ASSUME NEW w \in Workers, Run(w) \/ StepThrows(w) \/ TicketFails(w) PROVE Typed'
  BY <1>5, TypedRead, TypedWork, TypedCommit DEF Run
<1> QED
  BY <1>1, <1>2, <1>3, <1>4, <1>5 DEF Next
----------------------------------------------------------------------------
(* What a worker's step leaves alone: every other worker, and everything   *)
(* that belongs to another request than the one it runs.                   *)
Local(w) ==
  /\ \A v \in Workers \ {w} : worker'[v] = worker[v]
  /\ worker'[w].r = worker[w].r \/ worker'[w] = IdleWorker
  /\ \A q \in Requests \ {worker[w].r} :
       /\ req'[q] = req[q] /\ rows'[q] = rows[q] /\ job'[q] = job[q]
       /\ done'[q] = done[q] /\ tickets'[q] = tickets[q]
  /\ quit' = quit /\ overlap' = overlap

LEMMA ReturnLocal ==
  ASSUME Typed, NEW w \in Workers, Return(w)
  PROVE /\ \A v \in Workers \ {w} : worker'[v] = worker[v]
        /\ worker'[w] = IdleWorker
        /\ \A q \in Requests \ {worker[w].r} : job'[q] = job[q]
        /\ worker[w].r \in Requests =>
             job'[worker[w].r] = IF job[worker[w].r].lock = w THEN NoJob
                                 ELSE job[worker[w].r]
BY DEF Return, Typed, TypeOK

LEMMA MoveLocal ==
  ASSUME Typed, NEW w \in Workers, worker[w].pc # "idle"
  PROVE /\ \A pc : worker' = Become(w, pc) =>
             /\ \A v \in Workers \ {w} : worker'[v] = worker[v]
             /\ worker'[w].r = worker[w].r /\ worker'[w].pc = pc
             /\ worker'[w].copy = worker[w].copy
        /\ \A out : worker' = Outcome(w, out) =>
             /\ \A v \in Workers \ {w} : worker'[v] = worker[v]
             /\ worker'[w].r = worker[w].r /\ worker'[w].pc = "commit"
             /\ worker'[w].copy = worker[w].copy /\ worker'[w].out = out
        /\ worker' = Continue(w) =>
             /\ \A v \in Workers \ {w} : worker'[v] = worker[v]
             /\ worker'[w].r = worker[w].r /\ worker'[w].pc = "read"
        /\ worker' = [Continue(w) EXCEPT ![w].pc = "ticket"] =>
             /\ \A v \in Workers \ {w} : worker'[v] = worker[v]
             /\ worker'[w].r = worker[w].r /\ worker'[w].pc = "ticket"
<1>1. worker \in [Workers -> Worker] /\ worker[w] \in Worker
  BY DEF Typed, TypeOK
<1>2. ASSUME NEW pc, worker' = Become(w, pc)
      PROVE /\ \A v \in Workers \ {w} : worker'[v] = worker[v]
            /\ worker'[w].r = worker[w].r /\ worker'[w].pc = pc
            /\ worker'[w].copy = worker[w].copy
  BY <1>1, <1>2 DEF Become, Worker
<1>3. ASSUME NEW out, worker' = Outcome(w, out)
      PROVE /\ \A v \in Workers \ {w} : worker'[v] = worker[v]
            /\ worker'[w].r = worker[w].r /\ worker'[w].pc = "commit"
            /\ worker'[w].copy = worker[w].copy /\ worker'[w].out = out
  BY <1>1, <1>3 DEF Outcome, Worker
<1>4. ASSUME worker' = Continue(w)
      PROVE /\ \A v \in Workers \ {w} : worker'[v] = worker[v]
            /\ worker'[w].r = worker[w].r /\ worker'[w].pc = "read"
  BY <1>1, <1>4 DEF Continue, IdleWorker
<1>5. ASSUME worker' = [Continue(w) EXCEPT ![w].pc = "ticket"]
      PROVE /\ \A v \in Workers \ {w} : worker'[v] = worker[v]
            /\ worker'[w].r = worker[w].r /\ worker'[w].pc = "ticket"
  BY <1>1, <1>5 DEF Continue, IdleWorker
<1> QED
  BY <1>2, <1>3, <1>4, <1>5

LEMMA AdvanceFacts ==
  ASSUME Typed, NEW r \in Requests, NEW k \in Steps, req' = AdvanceAfter(r, k)
  PROVE /\ \A q \in Requests \ {r} : req'[q] = req[q]
        /\ req'[r].status = IF k = Last THEN "ready" ELSE "building"
        /\ req'[r].step = IF k < Last THEN k + 1 ELSE k
        /\ req'[r].linked = req[r].linked /\ req'[r].ticket = req[r].ticket
<1>1. req \in [Requests -> Request]
  BY DEF Typed, TypeOK
<1> QED
  BY <1>1 DEF AdvanceAfter, Request

LEMMA LinkFacts ==
  ASSUME Typed, NEW r \in Requests, Link(r)
  PROVE /\ \A q \in Requests \ {r} : req'[q] = req[q]
        /\ req'[r].status = req[r].status /\ req'[r].step = req[r].step
        /\ req'[r].linked /\ req'[r].ticket = req[r].ticket
<1>1. req \in [Requests -> Request]
  BY DEF Typed, TypeOK
<1> QED
  BY <1>1 DEF Link, Request

LEMMA WorkedFacts ==
  ASSUME Typed, NEW w \in Workers, worker[w].r \in Requests, Worked(w)
  PROVE /\ \A q \in Requests \ {worker[w].r} : done'[q] = done[q]
        /\ done'[worker[w].r] = done[worker[w].r] \cup {worker[w].copy.step}
BY DEF Typed, TypeOK, Worked

(* The kinds of step a worker takes on the request r of its copy. *)
Stopped(w, r) == worker'[w] = IdleWorker
                 /\ job'[r] = IF job[r].lock = w THEN NoJob ELSE job[r]
Goes(w, pc) == worker'[w].r = worker[w].r /\ worker'[w].pc = pc /\ job' = job

(* Start and ReadRequest. *)
LEMMA ReadKind ==
  ASSUME Typed, NEW w \in Workers, Start(w) \/ ReadRequest(w)
  PROVE LET r == worker[w].r IN
        /\ r \in Requests /\ Local(w) /\ worker[w].pc \in {"start", "read"}
        /\ rows'[r] = rows[r] /\ done'[r] = done[r] /\ tickets'[r] = tickets[r]
        /\ req'[r].status = req[r].status /\ req'[r].step = req[r].step
        /\ req'[r].linked = req[r].linked /\ req'[r].ticket = req[r].ticket
        /\ \/ Stopped(w, r)
           \/ Goes(w, "read")
           \/ /\ Goes(w, "check") /\ ~IsAbandoned(r)
              /\ worker'[w].copy.step = req[r].step
              /\ worker'[w].copy.linked = req[r].linked
<1> DEFINE r == worker[w].r
<1>0. worker[w].pc \in {"start", "read"}
  BY DEF Start, ReadRequest
<1>1. r \in Requests /\ req \in [Requests -> Request] /\ worker \in [Workers -> Worker]
  BY <1>0, WorkerFacts DEF Typed, TypeOK
<1>2. CASE Start(w)
  <2>1. CASE IsAbandoned(r)
    <3>1. Return(w) /\ UNCHANGED <<req, rows, done, tickets, quit, overlap>>
      BY <1>2, <2>1 DEF Start
    <3> QED
      BY <3>1, <1>0, <1>1, ReturnLocal DEF Local, Stopped
  <2>2. CASE ~IsAbandoned(r)
    <3>1. /\ worker' = Become(w, "read")
          /\ UNCHANGED <<job, rows, done, tickets, quit, overlap>>
          /\ req' = [req EXCEPT ![r].attempts = IF @ < Threshold THEN @ + 1 ELSE @]
      BY <1>2, <2>2 DEF Start
    <3>2. /\ \A q \in Requests \ {r} : req'[q] = req[q]
          /\ req'[r].status = req[r].status /\ req'[r].step = req[r].step
          /\ req'[r].linked = req[r].linked /\ req'[r].ticket = req[r].ticket
      BY <3>1, <1>1 DEF Request
    <3> QED
      BY <3>1, <3>2, <1>0, <1>1, MoveLocal DEF Local, Goes
  <2> QED
    BY <2>1, <2>2
<1>3. CASE ReadRequest(w)
  <2>0. UNCHANGED <<req, rows, done, tickets, quit, overlap>>
    BY <1>3 DEF ReadRequest
  <2>1. CASE IsAbandoned(r)
    <3>1. Return(w)
      BY <1>3, <2>1 DEF ReadRequest
    <3> QED
      BY <3>1, <2>0, <1>0, <1>1, ReturnLocal DEF Local, Stopped
  <2>2. CASE ~IsAbandoned(r)
    <3> DEFINE c == [step |-> req[r].step, linked |-> req[r].linked,
                     attempts |-> req[r].attempts, ticket |-> req[r].ticket]
    <3>1. worker' = [worker EXCEPT ![w].pc = "check", ![w].copy = c] /\ job' = job
      BY <1>3, <2>2 DEF ReadRequest
    <3>2. c.step = req[r].step /\ c.linked = req[r].linked
      OBVIOUS
    <3> HIDE DEF c
    <3>3. /\ \A v \in Workers \ {w} : worker'[v] = worker[v]
          /\ worker'[w].r = r /\ worker'[w].pc = "check" /\ worker'[w].copy = c
      BY <3>1, <1>1 DEF Worker
    <3> QED
      BY <3>1, <3>2, <3>3, <2>0, <2>2, <1>0, <1>1 DEF Local, Goes
  <2> QED
    BY <2>1, <2>2
<1> QED
  BY <1>2, <1>3

(* CheckStep, MarkRunning and the work itself. *)
LEMMA WorkKind ==
  ASSUME Typed, NEW w \in Workers,
         CheckStep(w) \/ MarkRunning(w) \/ ExecuteStep(w) \/ StepThrows(w)
         \/ CreateAcademy(w) \/ LinkAcademy(w) \/ AdoptAcademy(w)
  PROVE LET r == worker[w].r
            k == worker[w].copy.step
        IN
        /\ r \in Requests /\ k \in Steps /\ Local(w)
        /\ worker[w].pc \in InStep /\ worker'[w].pc \in InStep
        /\ worker'[w].r = r /\ worker'[w].copy = worker[w].copy /\ job' = job
        /\ tickets' = tickets
        /\ req'[r].status = req[r].status /\ req'[r].step = req[r].step
        /\ req'[r].ticket = req[r].ticket /\ (req[r].linked => req'[r].linked)
        /\ rows'[r] = rows[r] \/ rows'[r] = [rows[r] EXCEPT ![k] = "running"]
        /\ \/ done'[r] = done[r]
           \/ /\ done'[r] = done[r] \cup {k}
              /\ k = Academy => worker[w].copy.linked \/ req'[r].linked
        /\ worker'[w].pc = "commit" /\ worker'[w].out # "failed" => k \in done'[r]
        /\ worker'[w].pc = "advance" => rows[r][k] \in {"completed", "skipped"}
<1> DEFINE r == worker[w].r
           k == worker[w].copy.step
<1>0. worker[w].pc # "idle" /\ worker[w].pc \in InStep
  BY DEF CheckStep, MarkRunning, ExecuteStep, StepThrows, CreateAcademy, LinkAcademy,
         AdoptAcademy, InStep
<1>1. r \in Requests /\ k \in Steps
  BY <1>0, WorkerFacts
<1>2. CASE CheckStep(w)
  <2>1. /\ UNCHANGED <<req, rows, job, done, tickets, quit, overlap>>
        /\ \/ worker' = Become(w, "advance") /\ rows[r][k] \in {"completed", "skipped"}
           \/ worker' = Become(w, "mark")
    BY <1>2 DEF CheckStep
  <2>2. CASE worker' = Become(w, "advance") /\ rows[r][k] \in {"completed", "skipped"}
    BY <2>1, <2>2, <1>0, <1>1, MoveLocal DEF Local, InStep
  <2>3. CASE worker' = Become(w, "mark")
    BY <2>1, <2>3, <1>0, <1>1, MoveLocal DEF Local, InStep
  <2> QED
    BY <2>1, <2>2, <2>3
<1>3. CASE MarkRunning(w)
  <2>1. /\ UNCHANGED <<req, job, done, tickets, quit, overlap>>
        /\ worker' = Become(w, "exec")
        /\ rows' = [rows EXCEPT ![r][k] = "running"]
    BY <1>3 DEF MarkRunning
  <2>2. /\ \A q \in Requests \ {r} : rows'[q] = rows[q]
        /\ rows'[r] = [rows[r] EXCEPT ![k] = "running"]
    BY <2>1, <1>1 DEF Typed, TypeOK
  <2> QED
    BY <2>1, <2>2, <1>0, <1>1, MoveLocal DEF Local, InStep
<1>4. CASE ExecuteStep(w)
  <2>1. /\ UNCHANGED <<req, rows, job, tickets, quit, overlap>>
        /\ \E out \in {"completed", "skipped"} : worker' = Outcome(w, out)
        /\ Worked(w) /\ k # Academy
    BY <1>4 DEF ExecuteStep
  <2> QED
    BY <2>1, <1>0, <1>1, MoveLocal, WorkedFacts DEF Local, InStep
<1>5. CASE StepThrows(w)
  <2>1. /\ UNCHANGED <<req, rows, job, done, tickets, quit, overlap>>
        /\ worker' = Outcome(w, "failed")
    BY <1>5 DEF StepThrows
  <2> QED
    BY <2>1, <1>0, <1>1, MoveLocal DEF Local, InStep
<1>6. CASE CreateAcademy(w)
  <2>1. UNCHANGED <<req, rows, job, tickets, quit, overlap>>
    BY <1>6 DEF CreateAcademy
  <2>2. CASE worker[w].copy.linked /\ worker' = Outcome(w, "completed") /\ Worked(w)
    BY <2>1, <2>2, <1>0, <1>1, MoveLocal, WorkedFacts DEF Local, InStep
  <2>3. CASE (worker' = Become(w, "link") \/ worker' = Become(w, "adopt"))
             /\ done' = done
    BY <2>1, <2>3, <1>0, <1>1, MoveLocal DEF Local, InStep
  <2> QED
    BY <2>2, <2>3, <1>6 DEF CreateAcademy
<1>7. ASSUME Link(r), worker' = Outcome(w, "completed"), Worked(w),
             UNCHANGED <<rows, job, tickets, quit, overlap>>
      PROVE /\ Local(w) /\ worker'[w].pc \in InStep /\ worker'[w].r = r
            /\ worker'[w].copy = worker[w].copy /\ job' = job /\ tickets' = tickets
            /\ req'[r].status = req[r].status /\ req'[r].step = req[r].step
            /\ req'[r].ticket = req[r].ticket /\ req'[r].linked
            /\ rows'[r] = rows[r] /\ done'[r] = done[r] \cup {k}
            /\ worker'[w].pc = "commit"
  BY <1>7, <1>0, <1>1, MoveLocal, LinkFacts, WorkedFacts DEF Local, InStep
<1>8. CASE LinkAcademy(w)
  <2>1. CASE LinkedElsewhere(r)
    <3>1. /\ UNCHANGED <<req, rows, job, done, tickets, quit, overlap>>
          /\ worker' = Become(w, "adopt")
      BY <1>8, <2>1 DEF LinkAcademy
    <3> QED
      BY <3>1, <1>0, <1>1, MoveLocal DEF Local, InStep
  <2>2. CASE ~LinkedElsewhere(r)
    <3>1. /\ Link(r) /\ worker' = Outcome(w, "completed") /\ Worked(w)
          /\ UNCHANGED <<rows, job, tickets, quit, overlap>>
      BY <1>8, <2>2 DEF LinkAcademy
    <3> QED
      BY <3>1, <1>0, <1>1, <1>7
  <2> QED
    BY <2>1, <2>2
<1>9. CASE AdoptAcademy(w)
  <2>1. CASE LinkedElsewhere(r)
    <3>1. /\ UNCHANGED <<req, rows, job, done, tickets, quit, overlap>>
          /\ worker' = Outcome(w, "failed")
      BY <1>9, <2>1 DEF AdoptAcademy
    <3> QED
      BY <3>1, <1>0, <1>1, MoveLocal DEF Local, InStep
  <2>2. CASE ~LinkedElsewhere(r)
    <3>1. /\ Link(r) /\ worker' = Outcome(w, "completed") /\ Worked(w)
          /\ UNCHANGED <<rows, job, tickets, quit, overlap>>
      BY <1>9, <2>2 DEF AdoptAcademy
    <3> QED
      BY <3>1, <1>0, <1>1, <1>7
  <2> QED
    BY <2>1, <2>2
<1> QED
  BY <1>2, <1>3, <1>4, <1>5, <1>6, <1>8, <1>9

(* AdvancePast and CommitStep. *)
LEMMA CommitKind ==
  ASSUME Typed, NEW w \in Workers, AdvancePast(w) \/ CommitStep(w)
  PROVE LET r == worker[w].r
            k == worker[w].copy.step
        IN
        /\ r \in Requests /\ k \in Steps /\ Local(w)
        /\ worker[w].pc \in {"advance", "commit"}
        /\ Stopped(w, r) \/ Goes(w, "read") \/ Goes(w, "ticket")
        /\ done' = done /\ tickets' = tickets
        /\ req'[r].linked = req[r].linked /\ req'[r].ticket = req[r].ticket
        /\ \/ rows'[r] = rows[r]
           \/ rows'[r] = [rows[r] EXCEPT ![k] = worker[w].out] /\ worker[w].pc = "commit"
        /\ \/ req'[r].status = "failed" /\ req'[r].step = req[r].step
           \/ /\ req'[r].status = IF k = Last THEN "ready" ELSE "building"
              /\ req'[r].step = IF k < Last THEN k + 1 ELSE k
              /\ worker[w].pc = "commit" /\ worker[w].out = "failed" => k = Branding
<1> DEFINE r == worker[w].r
           k == worker[w].copy.step
<1>0. worker[w].pc \in {"advance", "commit"}
  BY DEF AdvancePast, CommitStep
<1>1. r \in Requests /\ k \in Steps
  BY <1>0, WorkerFacts
<1>2. /\ UNCHANGED <<done, tickets, quit, overlap>>
      /\ \/ Return(w)
         \/ worker' = Continue(w) /\ job' = job
         \/ worker' = [Continue(w) EXCEPT ![w].pc = "ticket"] /\ job' = job
  BY DEF AdvancePast, CommitStep
<1>3. /\ Stopped(w, r) \/ Goes(w, "read") \/ Goes(w, "ticket")
      /\ \A v \in Workers \ {w} : worker'[v] = worker[v]
      /\ worker'[w].r = worker[w].r \/ worker'[w] = IdleWorker
      /\ \A q \in Requests \ {r} : job'[q] = job[q]
  <2>1. CASE Return(w)
    BY <2>1, <1>1, ReturnLocal DEF Stopped
  <2>2. CASE ~Return(w)
    BY <2>2, <1>0, <1>2, MoveLocal DEF Goes
  <2> QED
    BY <2>1, <2>2
<1>4. \/ req' = AdvanceAfter(r, k)
         /\ (worker[w].pc = "commit" /\ worker[w].out = "failed" => k = Branding)
      \/ req' = [req EXCEPT ![r].status = "failed"]
  BY DEF AdvancePast, CommitStep
<1>5. /\ \A q \in Requests \ {r} : req'[q] = req[q]
      /\ req'[r].linked = req[r].linked /\ req'[r].ticket = req[r].ticket
      /\ \/ req'[r].status = "failed" /\ req'[r].step = req[r].step
         \/ /\ req'[r].status = IF k = Last THEN "ready" ELSE "building"
            /\ req'[r].step = IF k < Last THEN k + 1 ELSE k
            /\ worker[w].pc = "commit" /\ worker[w].out = "failed" => k = Branding
  <2>1. CASE req' = [req EXCEPT ![r].status = "failed"]
    <3>1. req \in [Requests -> Request]
      BY DEF Typed, TypeOK
    <3> QED
      BY <2>1, <3>1, <1>1 DEF Request
  <2>2. CASE req' # [req EXCEPT ![r].status = "failed"]
    BY <2>2, <1>1, <1>4, AdvanceFacts
  <2> QED
    BY <2>1, <2>2
<1>6. /\ \A q \in Requests \ {r} : rows'[q] = rows[q]
      /\ \/ rows'[r] = rows[r]
         \/ rows'[r] = [rows[r] EXCEPT ![k] = worker[w].out] /\ worker[w].pc = "commit"
  BY <1>1 DEF AdvancePast, CommitStep, Typed, TypeOK
<1> QED
  BY <1>0, <1>1, <1>2, <1>3, <1>5, <1>6 DEF Local

(* CheckTicket, OpenTicket and TicketFails. *)
LEMMA TicketKind ==
  ASSUME Typed, NEW w \in Workers, CheckTicket(w) \/ OpenTicket(w) \/ TicketFails(w)
  PROVE LET r == worker[w].r IN
        /\ r \in Requests /\ Local(w) /\ worker[w].pc \in {"ticket", "ticketed"}
        /\ rows' = rows /\ done' = done
        /\ req'[r].status = req[r].status /\ req'[r].step = req[r].step
        /\ req'[r].linked = req[r].linked
        /\ \/ req' = req /\ tickets' = tickets /\ Stopped(w, r)
           \/ req' = req /\ tickets' = tickets /\ Goes(w, "ticketed") /\ ~req[r].ticket
           \/ /\ worker[w].pc = "ticketed" /\ Stopped(w, r)
              /\ req'[r].ticket /\ tickets'[r] = tickets[r] + 1
<1> DEFINE r == worker[w].r
<1>0. worker[w].pc \in {"ticket", "ticketed"}
  BY DEF CheckTicket, OpenTicket, TicketFails
<1>1. r \in Requests
  BY <1>0, WorkerFacts
<1>2. CASE CheckTicket(w)
  <2>1. UNCHANGED <<req, rows, done, tickets, quit, overlap>>
    BY <1>2 DEF CheckTicket
  <2>2. CASE req[r].ticket
    BY <2>1, <2>2, <1>0, <1>1, <1>2, ReturnLocal DEF CheckTicket, Local, Stopped
  <2>3. CASE ~req[r].ticket
    BY <2>1, <2>3, <1>0, <1>1, <1>2, MoveLocal DEF CheckTicket, Local, Goes
  <2> QED
    BY <2>2, <2>3
<1>3. CASE OpenTicket(w)
  <2>1. /\ UNCHANGED <<rows, done, quit, overlap>> /\ Return(w)
        /\ tickets' = [tickets EXCEPT ![r] = @ + 1]
        /\ req' = [req EXCEPT ![r].ticket = TRUE] /\ worker[w].pc = "ticketed"
    BY <1>3 DEF OpenTicket, TicketStored
  <2>2. /\ \A q \in Requests \ {r} : tickets'[q] = tickets[q]
        /\ tickets'[r] = tickets[r] + 1
    BY <2>1, <1>1 DEF Typed, TypeOK
  <2>3. /\ \A q \in Requests \ {r} : req'[q] = req[q]
        /\ req'[r].status = req[r].status /\ req'[r].step = req[r].step
        /\ req'[r].linked = req[r].linked /\ req'[r].ticket
    <3>1. req \in [Requests -> Request]
      BY DEF Typed, TypeOK
    <3> QED
      BY <2>1, <3>1, <1>1 DEF Request
  <2> QED
    BY <2>1, <2>2, <2>3, <1>0, <1>1, ReturnLocal DEF Local, Stopped
<1>4. CASE TicketFails(w)
  <2>1. UNCHANGED <<req, rows, done, tickets, quit, overlap>> /\ Return(w)
    BY <1>4 DEF TicketFails
  <2> QED
    BY <2>1, <1>0, <1>1, ReturnLocal DEF Local, Stopped
<1> QED
  BY <1>2, <1>3, <1>4
----------------------------------------------------------------------------
(* The owner's calls do not touch the workers; what they do to a request.  *)
LEMMA CallKind ==
  ASSUME Typed, NEW r \in Requests,
         CreateRequest(r) \/ Post(r) \/ PostLost(r) \/ Retry(r) \/ RetryBranding(r)
         \/ RebrandingDone(r) \/ CancelRead(r)
  PROVE /\ worker' = worker /\ tickets' = tickets /\ quit' = quit /\ overlap' = overlap
        /\ \A q \in Requests :
             /\ req'[q].step = req[q].step /\ req'[q].linked = req[q].linked
             /\ req'[q].ticket = req[q].ticket
             /\ \/ req'[q].status = req[q].status
                \/ req[q].status = "none" /\ req'[q].status = "building"
             /\ job'[q] = job[q] \/ job[q].state \notin {"queued", "active"}
             /\ done[q] \subseteq done'[q]
             /\ Academy \in done'[q] => Academy \in done[q]
             /\ \A k \in Steps : rows'[q][k] \in {"completed", "skipped"} =>
                  rows'[q][k] = rows[q][k] \/ k \in done'[q]
<1>0. /\ req \in [Requests -> Request] /\ job \in [Requests -> Job]
      /\ done \in [Requests -> SUBSET Steps]
      /\ rows \in [Requests -> [Steps -> StepStatus]]
      /\ Branding \in Steps /\ Academy # Branding
  BY StepsFacts DEF Typed, TypeOK
<1>1. CASE CreateRequest(r)
  <2>1. /\ UNCHANGED <<worker, tickets, quit, overlap, job, done, rows>>
        /\ req' = [req EXCEPT ![r].status = "building"] /\ req[r].status = "none"
    BY <1>1 DEF CreateRequest
  <2> QED
    BY <1>0, <2>1 DEF Request
<1>2. CASE Post(r) \/ PostLost(r) \/ Retry(r)
  <2>1. /\ UNCHANGED <<worker, tickets, quit, overlap, req, done, rows>>
        /\ \/ job' = job
           \/ /\ job' = [job EXCEPT ![r] = [NoJob EXCEPT !.state = "queued"]]
              /\ job[r].state \notin {"queued", "active"}
    BY <1>2 DEF Post, PostLost, Retry, Enqueue, AlreadyQueued
  <2> QED
    BY <1>0, <2>1
<1>3. CASE RetryBranding(r)
  <2>1. /\ UNCHANGED <<worker, tickets, quit, overlap, req, done, job>>
        /\ rows' = [rows EXCEPT ![r][Branding] = "running"]
    BY <1>3 DEF RetryBranding
  <2>2. \A q \in Requests : \A k \in Steps :
          rows'[q][k] = rows[q][k] \/ rows'[q][k] = "running"
    BY <1>0, <2>1
  <2> QED
    BY <2>1, <2>2
<1>4. CASE RebrandingDone(r)
  <2>1. UNCHANGED <<worker, tickets, quit, overlap, req, job>>
    BY <1>4 DEF RebrandingDone
  <2>2. PICK out \in {"completed", "skipped", "failed"} :
          /\ rows' = [rows EXCEPT ![r][Branding] = out]
          /\ done' = IF out = "failed" THEN done
                     ELSE [done EXCEPT ![r] = @ \cup {Branding}]
    BY <1>4 DEF RebrandingDone
  <2>3. \A q \in Requests :
          /\ done[q] \subseteq done'[q] /\ (Academy \in done'[q] => Academy \in done[q])
          /\ q = r /\ out # "failed" => Branding \in done'[q]
    BY <1>0, <2>2
  <2>4. \A q \in Requests : \A k \in Steps :
          rows'[q][k] = IF q = r /\ k = Branding THEN out ELSE rows[q][k]
    BY <1>0, <2>2
  <2> QED
    BY <2>1, <2>3, <2>4
<1>5. CASE CancelRead(r)
  BY <1>5 DEF CancelRead
<1> QED
  BY <1>1, <1>2, <1>3, <1>4, <1>5

LEMMA CancelKind ==
  ASSUME Typed, NEW r \in Requests, CancelWrite(r)
  PROVE /\ UNCHANGED <<worker, tickets, overlap, job, done, rows>>
        /\ \A q \in Requests :
             /\ req'[q].step = req[q].step /\ req'[q].linked = req[q].linked
             /\ req'[q].ticket = req[q].ticket
             /\ q # r => req'[q].status = req[q].status /\ quit'[q] = quit[q]
        /\ req'[r].status = "cancelled"
        /\ quit'[r] = "at rest" => ~MidStep(r)
<1>1. req \in [Requests -> Request]
  BY DEF Typed, TypeOK
<1>2. /\ UNCHANGED <<worker, tickets, overlap, job, done, rows>>
      /\ req' = [req EXCEPT ![r].status = "cancelled"]
  BY DEF CancelWrite
<1>3. /\ \A q \in Requests \ {r} : quit'[q] = quit[q]
      /\ quit'[r] = "at rest" => ~MidStep(r)
  BY DEF CancelWrite, Typed, TypeOK
<1> QED
  BY <1>1, <1>2, <1>3 DEF Request

(* The queue's steps touch one worker and one job. *)
LEMMA QueueKind ==
  ASSUME Typed, NEW w \in Workers, NEW r \in Requests,
         Take(w, r) \/ HandOver(w, r) \/ (Crash(w) /\ r = worker[w].r)
  PROVE /\ UNCHANGED <<req, rows, done, tickets, quit>>
        /\ \A v \in Workers \ {w} : worker'[v] = worker[v]
        /\ \A q \in Requests \ {r} : job'[q] = job[q]
        /\ worker'[w].pc \in {"idle", "start"}
        /\ \/ /\ overlap' = overlap /\ worker'[w].r = r /\ job[r].state = "queued"
              /\ job'[r].state = "active" /\ job'[r].lock = w
           \/ overlap' = overlap \cup {r} /\ worker'[w].r = r
           \/ overlap' = overlap /\ worker'[w] = IdleWorker /\ worker[w].r = r
              /\ (job[r].lock # w => job' = job)
<1>0. worker \in [Workers -> Worker] /\ job \in [Requests -> Job]
  BY DEF Typed, TypeOK
<1>1. CASE Take(w, r)
  <2>1. /\ worker' = [worker EXCEPT ![w] = [IdleWorker EXCEPT !.pc = "start", !.r = r]]
        /\ job' = [job EXCEPT ![r].state = "active", ![r].lock = w]
        /\ job[r].state = "queued" /\ UNCHANGED <<req, rows, done, tickets, quit, overlap>>
    BY <1>1 DEF Take
  <2>2. worker'[w].pc = "start" /\ worker'[w].r = r
    BY <1>0, <2>1 DEF IdleWorker
  <2>3. /\ \A q \in Requests \ {r} : job'[q] = job[q]
        /\ job'[r].state = "active" /\ job'[r].lock = w
    BY <1>0, <2>1 DEF Job
  <2> QED
    BY <1>0, <2>1, <2>2, <2>3
<1>2. CASE HandOver(w, r)
  <2>1. /\ worker' = [worker EXCEPT ![w] = [IdleWorker EXCEPT !.pc = "start", !.r = r]]
        /\ job' = [job EXCEPT ![r].lock = w] /\ overlap' = overlap \cup {r}
        /\ UNCHANGED <<req, rows, done, tickets, quit>>
    BY <1>2 DEF HandOver
  <2>2. worker'[w].pc = "start" /\ worker'[w].r = r
    BY <1>0, <2>1 DEF IdleWorker
  <2> QED
    BY <1>0, <2>1, <2>2
<1>3. CASE Crash(w) /\ r = worker[w].r
  <2>1. /\ worker' = [worker EXCEPT ![w] = IdleWorker]
        /\ UNCHANGED <<req, rows, done, tickets, quit, overlap>>
        /\ job[r].lock # w => job' = job
        /\ \E x : job' = job \/ job' = [job EXCEPT ![r] = x]
    BY <1>3 DEF Crash
  <2> QED
    BY <1>0, <1>3, <2>1 DEF IdleWorker
<1> QED
  BY <1>1, <1>2, <1>3
----------------------------------------------------------------------------
(* A request cancelled at rest has no worker in the middle of a step, so   *)
(* nothing is left that could write over the cancellation.                 *)
RestInv ==
  \A r \in Requests : quit[r] = "at rest" =>
    /\ req[r].status = "cancelled"
    /\ \A w \in Workers : worker[w].r = r => worker[w].pc \notin InStep

LEMMA RestKept ==
  ASSUME RestInv, NEW w \in Workers, Local(w), worker[w].r \in Requests,
         req'[worker[w].r].status = req[worker[w].r].status \/ worker[w].pc \in InStep,
         worker'[w].pc \in InStep => \/ worker[w].pc \in InStep
                                     \/ req[worker[w].r].status # "cancelled"
  PROVE RestInv'
<1> SUFFICES ASSUME NEW q \in Requests, quit'[q] = "at rest"
             PROVE /\ req'[q].status = "cancelled"
                   /\ \A v \in Workers : worker'[v].r = q => worker'[v].pc \notin InStep
  BY DEF RestInv
<1>0. IdleWorker.pc \notin InStep
  BY DEF IdleWorker, InStep
<1>1. /\ req[q].status = "cancelled"
      /\ \A v \in Workers : worker[v].r = q => worker[v].pc \notin InStep
  BY DEF RestInv, Local
<1>2. req'[q].status = "cancelled"
  BY <1>1 DEF Local
<1>3. ASSUME NEW v \in Workers, worker'[v].r = q PROVE worker'[v].pc \notin InStep
  BY <1>0, <1>1, <1>3 DEF Local
<1> QED
  BY <1>2, <1>3

LEMMA RestInvStep == Typed /\ RestInv /\ [Next]_vars => RestInv'
<1> SUFFICES ASSUME Typed, RestInv, [Next]_vars PROVE RestInv'
  OBVIOUS
<1>0. IdleWorker.pc \notin InStep
  BY DEF IdleWorker, InStep
<1>1. CASE UNCHANGED vars
  BY <1>1 DEF vars, RestInv
<1>2. ASSUME NEW r \in Requests,
             CreateRequest(r) \/ Post(r) \/ PostLost(r) \/ Retry(r) \/ RetryBranding(r)
             \/ RebrandingDone(r) \/ CancelRead(r)
      PROVE RestInv'
  BY <1>2, CallKind DEF RestInv
<1>3. ASSUME NEW r \in Requests, CancelWrite(r) PROVE RestInv'
  <2>1. ASSUME NEW q \in Requests, quit'[q] = "at rest"
        PROVE /\ req'[q].status = "cancelled"
              /\ \A w \in Workers : worker'[w].r = q => worker'[w].pc \notin InStep
    <3>1. CASE q = r
      BY <1>3, <2>1, <3>1, CancelKind DEF MidStep, Running
    <3>2. CASE q # r
      <4>1. /\ worker' = worker /\ quit[q] = "at rest"
            /\ req'[q].status = req[q].status
        BY <1>3, <2>1, <3>2, CancelKind
      <4> QED
        BY <4>1 DEF RestInv
    <3> QED
      BY <3>1, <3>2
  <2> QED
    BY <2>1 DEF RestInv
<1>4. ASSUME NEW w \in Workers, NEW r \in Requests,
             Take(w, r) \/ HandOver(w, r) \/ (Crash(w) /\ r = worker[w].r)
      PROVE RestInv'
  <2>1. /\ req' = req /\ quit' = quit /\ worker'[w].pc \notin InStep
        /\ \A v \in Workers \ {w} : worker'[v] = worker[v]
    BY <1>4, QueueKind DEF InStep
  <2> QED
    BY <2>1 DEF RestInv
<1>5. ASSUME NEW w \in Workers, Start(w) \/ ReadRequest(w) PROVE RestInv'
  <2>1. /\ worker[w].r \in Requests /\ Local(w)
        /\ req'[worker[w].r].status = req[worker[w].r].status
    BY <1>5, ReadKind
  <2>2. worker'[w].pc \in InStep => req[worker[w].r].status # "cancelled"
    BY <1>0, <1>5, ReadKind DEF Stopped, Goes, IsAbandoned, Abandoned, InStep
  <2> QED
    BY <2>1, <2>2, RestKept
<1>6. ASSUME NEW w \in Workers,
             CheckStep(w) \/ MarkRunning(w) \/ ExecuteStep(w) \/ StepThrows(w)
             \/ CreateAcademy(w) \/ LinkAcademy(w) \/ AdoptAcademy(w)
      PROVE RestInv'
  <2>1. worker[w].r \in Requests /\ Local(w) /\ worker[w].pc \in InStep
    BY <1>6, WorkKind
  <2> QED
    BY <2>1, RestKept
<1>7. ASSUME NEW w \in Workers, AdvancePast(w) \/ CommitStep(w) PROVE RestInv'
  <2>1. worker[w].r \in Requests /\ Local(w) /\ worker[w].pc \in InStep
    BY <1>7, CommitKind DEF InStep
  <2> QED
    BY <2>1, RestKept
<1>8. ASSUME NEW w \in Workers, CheckTicket(w) \/ OpenTicket(w) \/ TicketFails(w)
      PROVE RestInv'
  <2>1. /\ worker[w].r \in Requests /\ Local(w)
        /\ req'[worker[w].r].status = req[worker[w].r].status
        /\ worker'[w].pc \notin InStep
    BY <1>0, <1>8, TicketKind DEF Stopped, Goes, InStep
  <2> QED
    BY <2>1, RestKept
<1>9. ASSUME NEW w \in Workers, Crash(w) PROVE worker[w].r \in Requests
  BY <1>9, WorkerFacts DEF Crash
<1> QED
  BY <1>1, <1>2, <1>3, <1>4, <1>5, <1>6, <1>7, <1>8, <1>9 DEF Next, Run
----------------------------------------------------------------------------
(* Every step before the one a request, or a worker's copy of it, stands   *)
(* at has been done (branding apart), a row says finished only then, and   *)
(* the academy step is done only when the academy is linked.               *)
BuiltUpTo(r, k) == \A j \in Steps : j < k /\ j # Branding => j \in done[r]
RequestBuilt(r) ==
  /\ BuiltUpTo(r, req[r].step)
  /\ req[r].status = "ready" => \A j \in Steps : j # Branding => j \in done[r]
  /\ Academy \in done[r] => req[r].linked
  /\ \A k \in Steps : rows[r][k] \in {"completed", "skipped"} => k \in done[r]
CopyBuilt(w) ==
  worker[w].pc \in InStep =>
    /\ BuiltUpTo(worker[w].r, worker[w].copy.step)
    /\ worker[w].copy.linked => req[worker[w].r].linked
    /\ worker[w].pc = "advance" => worker[w].copy.step \in done[worker[w].r]
    /\ worker[w].pc = "commit" /\ worker[w].out # "failed"
         => worker[w].copy.step \in done[worker[w].r]
BuiltInv == /\ \A r \in Requests : RequestBuilt(r)
            /\ \A w \in Workers : CopyBuilt(w)

(* Work is never undone, and neither is the link.                          *)
LEMMA CopyKept ==
  ASSUME NEW w \in Workers, CopyBuilt(w), worker'[w] = worker[w],
         worker[w].pc \in InStep => worker[w].r \in Requests,
         \A r \in Requests : /\ done[r] \subseteq done'[r]
                             /\ req[r].linked => req'[r].linked
  PROVE CopyBuilt(w)'
BY DEF CopyBuilt, BuiltUpTo

LEMMA RequestKept ==
  ASSUME NEW r \in Requests, RequestBuilt(r), done'[r] = done[r], rows'[r] = rows[r],
         req'[r].step = req[r].step, req'[r].linked = req[r].linked,
         req'[r].status = "ready" => req[r].status = "ready"
  PROVE RequestBuilt(r)'
BY DEF RequestBuilt, BuiltUpTo

LEMMA BuiltInvStep == Typed /\ BuiltInv /\ [Next]_vars => BuiltInv'
<1> SUFFICES ASSUME Typed, BuiltInv, [Next]_vars PROVE BuiltInv'
  OBVIOUS
<1>0. /\ IdleWorker.pc \notin InStep
      /\ \A w \in Workers : worker[w].pc \in InStep => worker[w].r \in Requests
  <2>1. \A w \in Workers : worker[w].pc \in InStep => worker[w].pc # "idle"
    BY DEF InStep
  <2> QED
    BY <2>1, WorkerFacts DEF IdleWorker, InStep
<1>1. CASE UNCHANGED vars
  BY <1>1 DEF vars, BuiltInv, RequestBuilt, CopyBuilt, BuiltUpTo
<1>2. ASSUME NEW r \in Requests,
             CreateRequest(r) \/ Post(r) \/ PostLost(r) \/ Retry(r) \/ RetryBranding(r)
             \/ RebrandingDone(r) \/ CancelRead(r)
      PROVE BuiltInv'
  <2>1. ASSUME NEW q \in Requests PROVE RequestBuilt(q)'
    <3>1. /\ req'[q].step = req[q].step /\ req'[q].linked = req[q].linked
          /\ req'[q].status = "ready" => req[q].status = "ready"
          /\ done[q] \subseteq done'[q] /\ (Academy \in done'[q] => Academy \in done[q])
          /\ \A k \in Steps : rows'[q][k] \in {"completed", "skipped"} =>
               rows'[q][k] = rows[q][k] \/ k \in done'[q]
      BY <1>2, CallKind
    <3>2. RequestBuilt(q)
      BY DEF BuiltInv
    <3> QED
      BY <3>1, <3>2 DEF RequestBuilt, BuiltUpTo
  <2>2. /\ worker' = worker
        /\ \A q \in Requests : /\ done[q] \subseteq done'[q]
                               /\ req[q].linked => req'[q].linked
    BY <1>2, CallKind
  <2>3. ASSUME NEW w \in Workers PROVE CopyBuilt(w)'
    <3>1. CopyBuilt(w)
      BY DEF BuiltInv
    <3> QED
      BY <1>0, <2>2, <3>1, CopyKept
  <2> QED
    BY <2>1, <2>3 DEF BuiltInv
<1>3. ASSUME NEW r \in Requests, CancelWrite(r) PROVE BuiltInv'
  <2>1. /\ worker' = worker /\ done' = done /\ rows' = rows
        /\ \A q \in Requests : /\ req'[q].step = req[q].step
                               /\ req'[q].linked = req[q].linked
                               /\ req'[q].status = "ready" => req[q].status = "ready"
    BY <1>3, CancelKind
  <2>2. ASSUME NEW q \in Requests PROVE RequestBuilt(q)'
    <3>1. RequestBuilt(q)
      BY DEF BuiltInv
    <3>2. /\ req'[q].step = req[q].step /\ req'[q].linked = req[q].linked
          /\ req'[q].status = "ready" => req[q].status = "ready"
          /\ done'[q] = done[q] /\ rows'[q] = rows[q]
      BY <2>1
    <3> QED
      BY <3>1, <3>2 DEF RequestBuilt, BuiltUpTo
  <2>3. ASSUME NEW w \in Workers PROVE CopyBuilt(w)'
    <3>1. CopyBuilt(w)
      BY DEF BuiltInv
    <3> QED
      BY <1>0, <2>1, <3>1, CopyKept
  <2> QED
    BY <2>2, <2>3 DEF BuiltInv
<1>4. ASSUME NEW w \in Workers, NEW r \in Requests,
             Take(w, r) \/ HandOver(w, r) \/ (Crash(w) /\ r = worker[w].r)
      PROVE BuiltInv'
  <2>1. /\ req' = req /\ done' = done /\ rows' = rows /\ worker'[w].pc \notin InStep
        /\ \A v \in Workers \ {w} : worker'[v] = worker[v]
    BY <1>4, QueueKind DEF InStep
  <2>2. ASSUME NEW q \in Requests PROVE RequestBuilt(q)'
    BY <2>1, RequestKept DEF BuiltInv
  <2>3. ASSUME NEW v \in Workers PROVE CopyBuilt(v)'
    <3>1. CASE v = w
      BY <2>1, <3>1 DEF CopyBuilt
    <3>2. CASE v # w
      BY <1>0, <2>1, <3>2, CopyKept DEF BuiltInv
    <3> QED
      BY <3>1, <3>2
  <2> QED
    BY <2>2, <2>3 DEF BuiltInv
<1>5. ASSUME NEW w \in Workers, NEW r \in Requests, Local(w), r = worker[w].r,
             RequestBuilt(r)', CopyBuilt(w)',
             done[r] \subseteq done'[r], req[r].linked => req'[r].linked
      PROVE BuiltInv'
  <2>1. ASSUME NEW q \in Requests PROVE RequestBuilt(q)'
    <3>1. CASE q = r
      BY <1>5, <3>1
    <3>2. CASE q # r
      <4>1. req'[q] = req[q] /\ done'[q] = done[q] /\ rows'[q] = rows[q]
        BY <1>5, <3>2 DEF Local
      <4> QED
        BY <4>1, RequestKept DEF BuiltInv
    <3> QED
      BY <3>1, <3>2
  <2>2. \A q \in Requests : /\ done[q] \subseteq done'[q]
                            /\ req[q].linked => req'[q].linked
    BY <1>5 DEF Local
  <2>3. ASSUME NEW v \in Workers PROVE CopyBuilt(v)'
    <3>1. CASE v = w
      BY <1>5, <3>1
    <3>2. CASE v # w
      <4>1. worker'[v] = worker[v]
        BY <1>5, <3>2 DEF Local
      <4> QED
        BY <1>0, <4>1, <2>2, CopyKept DEF BuiltInv
    <3> QED
      BY <3>1, <3>2
  <2> QED
    BY <2>1, <2>3 DEF BuiltInv
<1>6. ASSUME NEW w \in Workers, Start(w) \/ ReadRequest(w) PROVE BuiltInv'
  <2>0. worker[w].r \in Requests
    BY <1>6, ReadKind
  <2> PICK r \in Requests : r = worker[w].r
    BY <2>0
  <2>1. /\ r \in Requests /\ Local(w) /\ rows'[r] = rows[r] /\ done'[r] = done[r]
        /\ req'[r].status = req[r].status /\ req'[r].step = req[r].step
        /\ req'[r].linked = req[r].linked
    BY <1>6, ReadKind
  <2>2. RequestBuilt(r) /\ RequestBuilt(r)'
    <3>1. RequestBuilt(r)
      BY DEF BuiltInv
    <3> QED
      BY <2>1, <3>1 DEF RequestBuilt, BuiltUpTo
  <2>3. \/ worker'[w].pc \notin InStep
        \/ /\ worker'[w].r = r /\ worker'[w].pc = "check"
           /\ worker'[w].copy.step = req[r].step
           /\ worker'[w].copy.linked = req[r].linked
    BY <1>0, <1>6, ReadKind DEF Stopped, Goes, InStep
  <2>4. CopyBuilt(w)'
    BY <2>1, <2>2, <2>3 DEF CopyBuilt, RequestBuilt, BuiltUpTo
  <2> QED
    BY <1>5, <2>1, <2>2, <2>4
<1>7. ASSUME NEW w \in Workers,
             CheckStep(w) \/ MarkRunning(w) \/ ExecuteStep(w) \/ StepThrows(w)
             \/ CreateAcademy(w) \/ LinkAcademy(w) \/ AdoptAcademy(w)
      PROVE BuiltInv'
  <2>0. worker[w].r \in Requests
    BY <1>7, WorkKind
  <2> PICK r \in Requests : r = worker[w].r
    BY <2>0
  <2> DEFINE k == worker[w].copy.step
  <2>1. /\ r \in Requests /\ k \in Steps /\ Local(w) /\ worker[w].pc \in InStep
        /\ worker'[w].r = r /\ worker'[w].copy = worker[w].copy
        /\ req'[r].status = req[r].status /\ req'[r].step = req[r].step
        /\ req[r].linked => req'[r].linked
        /\ rows'[r] = rows[r] \/ rows'[r] = [rows[r] EXCEPT ![k] = "running"]
        /\ \/ done'[r] = done[r]
           \/ /\ done'[r] = done[r] \cup {k}
              /\ k = Academy => worker[w].copy.linked \/ req'[r].linked
        /\ worker'[w].pc = "commit" /\ worker'[w].out # "failed" => k \in done'[r]
        /\ worker'[w].pc = "advance" => rows[r][k] \in {"completed", "skipped"}
    BY <1>7, WorkKind
  <2>2. RequestBuilt(r) /\ CopyBuilt(w) /\ rows[r] \in [Steps -> StepStatus]
    BY <2>1 DEF BuiltInv, Typed, TypeOK
  <2>3. \A j \in Steps : rows'[r][j] = rows[r][j] \/ rows'[r][j] = "running"
    BY <2>1, <2>2
  <2>4. Academy \in done'[r] => req'[r].linked
    BY <2>1, <2>2 DEF RequestBuilt, CopyBuilt
  <2>5. done[r] \subseteq done'[r]
    BY <2>1
  <2>6. RequestBuilt(r)'
    BY <2>1, <2>2, <2>3, <2>4, <2>5 DEF RequestBuilt, BuiltUpTo
  <2>7. CopyBuilt(w)'
    BY <2>1, <2>2, <2>5 DEF RequestBuilt, CopyBuilt, BuiltUpTo
  <2> QED
    BY <1>5, <2>1, <2>5, <2>6, <2>7
<1>8. ASSUME NEW w \in Workers, AdvancePast(w) \/ CommitStep(w) PROVE BuiltInv'
  <2>0. worker[w].r \in Requests
    BY <1>8, CommitKind
  <2> PICK r \in Requests : r = worker[w].r
    BY <2>0
  <2> DEFINE k == worker[w].copy.step
  <2>1. /\ r \in Requests /\ k \in Steps /\ Local(w)
        /\ worker[w].pc \in {"advance", "commit"}
        /\ worker'[w].pc \notin InStep
        /\ done' = done /\ req'[r].linked = req[r].linked
        /\ \/ rows'[r] = rows[r]
           \/ rows'[r] = [rows[r] EXCEPT ![k] = worker[w].out] /\ worker[w].pc = "commit"
        /\ \/ req'[r].status = "failed" /\ req'[r].step = req[r].step
           \/ /\ req'[r].status = IF k = Last THEN "ready" ELSE "building"
              /\ req'[r].step = IF k < Last THEN k + 1 ELSE k
              /\ worker[w].pc = "commit" /\ worker[w].out = "failed" => k = Branding
    BY <1>0, <1>8, CommitKind DEF Stopped, Goes, InStep
  <2>2. /\ RequestBuilt(r) /\ CopyBuilt(w) /\ worker[w].pc \in InStep
        /\ rows[r] \in [Steps -> StepStatus]
    BY <2>1 DEF BuiltInv, InStep, Typed, TypeOK
  <2>3. /\ BuiltUpTo(r, k)
        /\ ~(worker[w].pc = "commit" /\ worker[w].out = "failed") => k \in done[r]
    BY <2>1, <2>2 DEF CopyBuilt
  <2>4. \A j \in Steps : rows'[r][j] \in {"completed", "skipped"} => j \in done'[r]
    BY <2>1, <2>2, <2>3 DEF RequestBuilt
  <2>5. /\ BuiltUpTo(r, req'[r].step)
        /\ req'[r].status = "ready" => \A j \in Steps : j # Branding => j \in done[r]
    <3>1. CASE req'[r].status = "failed" /\ req'[r].step = req[r].step
      BY <2>2, <3>1 DEF RequestBuilt
    <3>2. CASE ~(req'[r].status = "failed" /\ req'[r].step = req[r].step)
      <4>1. \A j \in Steps : j < k + 1 /\ j # Branding => j \in done[r]
        <5>1. k = Branding \/ k \in done[r]
          BY <2>1, <2>3, <3>2
        <5>2. \A j \in Steps : j < k + 1 => j < k \/ j = k
          BY <2>1 DEF Steps
        <5> QED
          BY <2>3, <5>1, <5>2 DEF BuiltUpTo
      <4>2. \A j \in Steps : j < Last + 1
        BY StepsAreNat DEF Steps
      <4> QED
        BY <2>1, <2>3, <3>2, <4>1, <4>2, StepsFacts DEF BuiltUpTo
    <3> QED
      BY <3>1, <3>2
  <2>6. RequestBuilt(r)'
    <3>1. /\ \A j \in Steps : j < req'[r].step /\ j # Branding => j \in done'[r]
          /\ req'[r].status = "ready" => \A j \in Steps : j # Branding => j \in done'[r]
      BY <2>1, <2>5 DEF BuiltUpTo
    <3>2. Academy \in done'[r] => req'[r].linked
      BY <2>1, <2>2 DEF RequestBuilt
    <3> QED
      BY <2>4, <3>1, <3>2 DEF RequestBuilt, BuiltUpTo
  <2>7. CopyBuilt(w)'
    BY <2>1 DEF CopyBuilt
  <2> QED
    BY <1>5, <2>1, <2>6, <2>7
<1>9. ASSUME NEW w \in Workers, CheckTicket(w) \/ OpenTicket(w) \/ TicketFails(w)
      PROVE BuiltInv'
  <2>0. worker[w].r \in Requests
    BY <1>9, TicketKind
  <2> PICK r \in Requests : r = worker[w].r
    BY <2>0
  <2>1. /\ r \in Requests /\ Local(w) /\ rows' = rows /\ done' = done
        /\ req'[r].status = req[r].status /\ req'[r].step = req[r].step
        /\ req'[r].linked = req[r].linked /\ worker'[w].pc \notin InStep
    BY <1>0, <1>9, TicketKind DEF Stopped, Goes, InStep
  <2>2. RequestBuilt(r)'
    <3>1. RequestBuilt(r)
      BY DEF BuiltInv
    <3> QED
      BY <2>1, <3>1 DEF RequestBuilt, BuiltUpTo
  <2>3. CopyBuilt(w)'
    BY <2>1 DEF CopyBuilt
  <2> QED
    BY <1>5, <2>1, <2>2, <2>3
<1>10. ASSUME NEW w \in Workers, Crash(w) PROVE worker[w].r \in Requests
  BY <1>10, WorkerFacts DEF Crash
<1> QED
  BY <1>1, <1>2, <1>3, <1>4, <1>6, <1>7, <1>8, <1>9, <1>10 DEF Next, Run
----------------------------------------------------------------------------
(* A request that never was handed over has at most one worker, the one    *)
(* that holds the lock of its job; a support case it opened is on record,  *)
(* and none is when that worker is about to open one.                      *)
Alone(r) ==
  /\ \A w \in Workers : worker[w].r = r =>
       /\ job[r].state = "active" /\ job[r].lock = w
       /\ worker[w].pc = "ticketed" => ~req[r].ticket
  /\ tickets[r] = 0 \/ (tickets[r] = 1 /\ req[r].ticket)
AloneInv == \A r \in Requests : r \notin overlap => Alone(r)

(* A worker's step that opens no case. *)
LEMMA AloneKept ==
  ASSUME Typed, AloneInv, NEW w \in Workers, Local(w), worker[w].r \in Requests,
         tickets'[worker[w].r] = tickets[worker[w].r],
         req'[worker[w].r].ticket = req[worker[w].r].ticket,
         \/ Stopped(w, worker[w].r)
         \/ /\ job' = job /\ worker'[w].r = worker[w].r
            /\ worker'[w].pc = "ticketed" => ~req[worker[w].r].ticket
  PROVE AloneInv'
<1> SUFFICES ASSUME NEW q \in Requests, q \notin overlap' PROVE Alone(q)'
  BY DEF AloneInv
<1>1. Alone(q) /\ q \notin overlap
  BY DEF AloneInv, Local
<1>2. CASE q # worker[w].r
  <2>1. job'[q] = job[q] /\ req'[q] = req[q] /\ tickets'[q] = tickets[q]
    BY <1>2 DEF Local
  <2>2. worker'[w].r # q
    BY <1>2, NoneIsNothing DEF Local, IdleWorker
  <2>3. \A v \in Workers : worker'[v].r = q => worker'[v] = worker[v]
    BY <2>2 DEF Local
  <2> QED
    BY <1>1, <2>1, <2>3 DEF Alone
<1>3. CASE q = worker[w].r /\ Stopped(w, q)
  <2>1. \A v \in Workers : worker'[v].r # q
    BY <1>1, <1>3, NoneIsNothing DEF Local, Stopped, IdleWorker, Alone
  <2> QED
    BY <1>1, <1>3, <2>1 DEF Alone
<1>4. CASE q = worker[w].r /\ ~Stopped(w, q)
  <2>1. \A v \in Workers : worker'[v].r = q => v = w
    BY <1>1, <1>4 DEF Local, Alone
  <2> QED
    BY <1>1, <1>4, <2>1 DEF Alone
<1> QED
  BY <1>2, <1>3, <1>4

LEMMA AloneInvStep == Typed /\ AloneInv /\ [Next]_vars => AloneInv'
<1> SUFFICES ASSUME Typed, AloneInv, [Next]_vars PROVE AloneInv'
  OBVIOUS
<1>1. CASE UNCHANGED vars
  BY <1>1 DEF vars, AloneInv, Alone
<1>2. ASSUME NEW r \in Requests,
             CreateRequest(r) \/ Post(r) \/ PostLost(r) \/ Retry(r) \/ RetryBranding(r)
             \/ RebrandingDone(r) \/ CancelRead(r)
      PROVE AloneInv'
  <2>1. ASSUME NEW q \in Requests, q \notin overlap' PROVE Alone(q)'
    <3>1. /\ worker' = worker /\ tickets' = tickets /\ overlap' = overlap
          /\ req'[q].ticket = req[q].ticket
          /\ job'[q] = job[q] \/ job[q].state \notin {"queued", "active"}
      BY <1>2, CallKind
    <3>2. Alone(q)
      BY <2>1, <3>1 DEF AloneInv
    <3> QED
      BY <3>1, <3>2 DEF Alone
  <2> QED
    BY <2>1 DEF AloneInv
<1>3. ASSUME NEW r \in Requests, CancelWrite(r) PROVE AloneInv'
  <2>1. /\ UNCHANGED <<worker, tickets, overlap, job>>
        /\ \A q \in Requests : req'[q].ticket = req[q].ticket
    BY <1>3, CancelKind
  <2> QED
    BY <2>1 DEF AloneInv, Alone
<1>4. ASSUME NEW w \in Workers, NEW r \in Requests,
             Take(w, r) \/ HandOver(w, r) \/ (Crash(w) /\ r = worker[w].r)
      PROVE AloneInv'
  <2>1. ASSUME NEW q \in Requests, q \notin overlap' PROVE Alone(q)'
    <3>0. /\ req' = req /\ tickets' = tickets
          /\ \A v \in Workers \ {w} : worker'[v] = worker[v]
          /\ \A p \in Requests \ {r} : job'[p] = job[p]
          /\ worker'[w].pc # "ticketed"
          /\ worker'[w].r \in {r, None} /\ q \notin overlap
      BY <1>4, <2>1, QueueKind DEF IdleWorker
    <3>1. Alone(q)
      BY <3>0 DEF AloneInv
    <3>2. CASE q # r
      BY <3>0, <3>1, <3>2, NoneIsNothing DEF Alone
    <3>3. CASE q = r
      <4>1. \/ /\ worker'[w].r = r /\ job[r].state = "queued"
               /\ job'[r].state = "active" /\ job'[r].lock = w
            \/ worker'[w] = IdleWorker /\ worker[w].r = r
        BY <1>4, <2>1, <3>3, QueueKind
      <4>2. \A v \in Workers : worker'[v].r = r => v = w /\ worker'[w].r = r
        BY <3>0, <3>1, <3>3, <4>1 DEF Alone
      <4>3. worker'[w].r = r => job'[r].state = "active" /\ job'[r].lock = w
        BY <4>1, NoneIsNothing DEF IdleWorker
      <4> QED
        BY <3>0, <3>1, <3>3, <4>2, <4>3 DEF Alone
    <3> QED
      BY <3>2, <3>3
  <2> QED
    BY <2>1 DEF AloneInv
<1>5. ASSUME NEW w \in Workers, Start(w) \/ ReadRequest(w) PROVE AloneInv'
  <2>1. /\ worker[w].r \in Requests /\ Local(w)
        /\ tickets'[worker[w].r] = tickets[worker[w].r]
        /\ req'[worker[w].r].ticket = req[worker[w].r].ticket
        /\ \/ Stopped(w, worker[w].r)
           \/ /\ job' = job /\ worker'[w].r = worker[w].r
              /\ worker'[w].pc # "ticketed"
    BY <1>5, ReadKind DEF Goes
  <2> QED
    BY <2>1, AloneKept
<1>6. ASSUME NEW w \in Workers,
             CheckStep(w) \/ MarkRunning(w) \/ ExecuteStep(w) \/ StepThrows(w)
             \/ CreateAcademy(w) \/ LinkAcademy(w) \/ AdoptAcademy(w)
      PROVE AloneInv'
  <2>1. /\ worker[w].r \in Requests /\ Local(w) /\ tickets' = tickets
        /\ req'[worker[w].r].ticket = req[worker[w].r].ticket
        /\ job' = job /\ worker'[w].r = worker[w].r /\ worker'[w].pc # "ticketed"
    BY <1>6, WorkKind DEF InStep
  <2> QED
    BY <2>1, AloneKept
<1>7. ASSUME NEW w \in Workers, AdvancePast(w) \/ CommitStep(w) PROVE AloneInv'
  <2>1. /\ worker[w].r \in Requests /\ Local(w) /\ tickets' = tickets
        /\ req'[worker[w].r].ticket = req[worker[w].r].ticket
        /\ \/ Stopped(w, worker[w].r)
           \/ /\ job' = job /\ worker'[w].r = worker[w].r
              /\ worker'[w].pc # "ticketed"
    BY <1>7, CommitKind DEF Goes
  <2> QED
    BY <2>1, AloneKept
<1>8. ASSUME NEW w \in Workers, CheckTicket(w) \/ OpenTicket(w) \/ TicketFails(w)
      PROVE AloneInv'
  <2> DEFINE r == worker[w].r
  <2>1. /\ r \in Requests /\ Local(w)
        /\ \/ req' = req /\ tickets' = tickets /\ Stopped(w, r)
           \/ req' = req /\ tickets' = tickets /\ Goes(w, "ticketed") /\ ~req[r].ticket
           \/ /\ worker[w].pc = "ticketed" /\ Stopped(w, r)
              /\ req'[r].ticket /\ tickets'[r] = tickets[r] + 1
    BY <1>8, TicketKind
  <2>2. CASE req' = req /\ tickets' = tickets
    <3>1. \/ Stopped(w, r)
          \/ /\ job' = job /\ worker'[w].r = r
             /\ worker'[w].pc = "ticketed" => ~req[r].ticket
      BY <2>1, <2>2 DEF Goes
    <3> QED
      BY <2>1, <2>2, <3>1, AloneKept
  <2>3. CASE /\ worker[w].pc = "ticketed" /\ Stopped(w, r)
             /\ req'[r].ticket /\ tickets'[r] = tickets[r] + 1
    <3> SUFFICES ASSUME NEW q \in Requests, q \notin overlap' PROVE Alone(q)'
      BY DEF AloneInv
    <3>1. Alone(q)
      BY <2>1 DEF AloneInv, Local
    <3>2. CASE q # r
      <4>1. /\ job'[q] = job[q] /\ req'[q] = req[q] /\ tickets'[q] = tickets[q]
            /\ \A v \in Workers : worker'[v].r = q => worker'[v] = worker[v]
        BY <2>1, <2>3, <3>2, NoneIsNothing DEF Local, Stopped, IdleWorker
      <4> QED
        BY <3>1, <4>1 DEF Alone
    <3>3. CASE q = r
      <4>1. \A v \in Workers : worker'[v].r # q
        BY <2>1, <2>3, <3>1, <3>3, NoneIsNothing
        DEF Local, Stopped, IdleWorker, Alone
      <4>2. tickets[q] = 0
        BY <2>1, <2>3, <3>1, <3>3 DEF Alone
      <4> QED
        BY <2>3, <3>3, <4>1, <4>2 DEF Alone
    <3> QED
      BY <3>2, <3>3
  <2> QED
    BY <2>1, <2>2, <2>3
<1>9. ASSUME NEW w \in Workers, Crash(w) PROVE worker[w].r \in Requests
  BY <1>9, WorkerFacts DEF Crash
<1> QED
  BY <1>1, <1>2, <1>3, <1>4, <1>5, <1>6, <1>7, <1>8, <1>9 DEF Next, Run
----------------------------------------------------------------------------
Inv == Typed /\ RestInv /\ BuiltInv /\ AloneInv

LEMMA InitInv == Init => Inv
<1> SUFFICES ASSUME Init PROVE Inv
  OBVIOUS
<1>1. RestInv
  BY DEF Init, RestInv
<1>2. BuiltInv
  <2>1. ASSUME NEW r \in Requests PROVE RequestBuilt(r)
    BY StepsFacts, StepsAreNat DEF Init, RequestBuilt, BuiltUpTo, Steps
  <2>2. ASSUME NEW w \in Workers PROVE CopyBuilt(w)
    BY DEF Init, CopyBuilt, IdleWorker, InStep
  <2> QED
    BY <2>1, <2>2 DEF BuiltInv
<1>3. AloneInv
  BY NoneIsNothing DEF Init, AloneInv, Alone, IdleWorker
<1> QED
  BY <1>1, <1>2, <1>3, InitTyped DEF Inv

(* The inductive invariant holds in every reachable state. *)
THEOREM Invariance == Spec => []Inv
<1>1. Inv /\ [Next]_vars => Inv'
  BY TypedStep, RestInvStep, BuiltInvStep, AloneInvStep DEF Inv
<1> QED
  BY <1>1, InitInv, PTL DEF Spec

(* The variables keep their types in every reachable state. *)
THEOREM TypeCorrect == Spec => []TypeOK
<1>1. Inv => TypeOK
  BY DEF Inv, Typed
<1> QED
  BY <1>1, Invariance, PTL

(* No job, queued, retried or handed over, writes over a cancellation that *)
(* met no step in progress (isAbandoned is asked before every step).       *)
THEOREM RestingCancelAlways == Spec => []RestingCancelHolds
<1>1. Inv => RestingCancelHolds
  BY DEF Inv, RestInv, RestingCancelHolds
<1> QED
  BY <1>1, Invariance, PTL

(* A ready request owns its academy and had every step done, for any       *)
(* number of workers that ran it, died in it or overtook one another.      *)
THEOREM ReadyMeansBuiltAlways == Spec => []ReadyMeansBuilt
<1>1. Inv => ReadyMeansBuilt
  BY StepsFacts DEF Inv, BuiltInv, RequestBuilt, ReadyMeansBuilt
<1> QED
  BY <1>1, Invariance, PTL

(* A request that no two workers ran at once opens one support case.       *)
THEOREM OneTicketAlways == Spec => []OneTicket
<1>1. Inv => OneTicket
  BY DEF Inv, AloneInv, Alone, OneTicket
<1> QED
  BY <1>1, Invariance, PTL
=============================================================================
