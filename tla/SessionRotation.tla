-------------------------- MODULE SessionRotation --------------------------
(***************************************************************************)
(* One browser session of the identity service: the family of refresh      *)
(* tokens that RefreshTokensRepository.rotate exchanges one for the next,  *)
(* the recovery of a refresh whose answer was lost (RefreshReissueService, *)
(* AuthService.recoverLostRefresh), and everything that ends the family:   *)
(* sign-out, a revoked session, a credential change, a suspension, the     *)
(* reuse of a retired token and the absolute session maximum.              *)
(*                                                                         *)
(* Every refresh is a server request that runs to its end even when the    *)
(* browser has stopped waiting for it, so requests for the same token run  *)
(* side by side.  PostgreSQL runs at READ COMMITTED, the level of every    *)
(* transaction of user-context.ts: a conditional UPDATE sees the rows that *)
(* were committed when it began, waits for the row locks it meets and      *)
(* looks again at the rows it waited for, never at rows inserted since.    *)
(*                                                                         *)
(* Tokens are numbered in the order they are minted, which is the order of *)
(* created_at.  Time is counted in units of the recovery window.           *)
(***************************************************************************)
EXTENDS Integers

CONSTANTS
    Requests,     \* the refresh requests the server may be running at once
    Ender,        \* the request that ends the session from elsewhere
    MaxTokens,    \* bound: refresh tokens minted
    MaxClock,     \* bound: the last instant
    MaxFaults,    \* bound: failures of PostgreSQL, Redis or the client binding
    Window,       \* identity.refreshReissueWindowSeconds
    Grace,        \* REFRESH_REUSE_GRACE_MS
    Ttl,          \* identity.refreshTokenTtlDays
    AbsoluteMax,  \* identity.sessionAbsoluteMaxDays of the session's surface
    FirstExpiry   \* expires_at of the first row, set when the session began

ASSUME SessionAssumption ==
    /\ Ender \notin Requests
    /\ MaxTokens \in Nat \ {0}
    /\ MaxClock \in Nat
    /\ MaxFaults \in Nat
    /\ Window \in Nat
    /\ Grace \in Nat
    /\ Ttl \in Nat \ {0}
    /\ AbsoluteMax \in Nat \ {0}
    /\ FirstExpiry \in Nat \ {0}

Tokens == 1 .. MaxTokens

Clock == 0 .. MaxClock

Procs == Requests \cup {Ender}

\* What a refresh answers besides a token: a 401 (or a 500) that clears the
\* session cookie, and the 401 of SupersededRefreshTokenException, which
\* leaves it.  Refused is also the value of an empty cookie.
Refused == 0

Kept == -1

NoRecord == [to |-> 0, until |-> 0]

Endings == {"signOut", "revokeSession", "revokeAll", "suspend"}

Steps == {"idle", "rotate", "claimed", "recorded", "owner", "lookup",
          "confirm", "reuse", "foreign", "superseded", "revoke", "revoking",
          "answer", "done", "notFound"}

VARIABLES
    now,      \* the clock
    minted,   \* tokens generated so far, those of rolled back rotations too
    rows,     \* committed rows of refresh_tokens of this family
    live,     \* the rows with revoked_at null
    retired,  \* revoked_at of the others; of a live row, what a claim wrote
    expires,  \* expires_at
    parent,   \* history: the token a row was rotated from, 0 for the first
    record,   \* the Redis recovery record of a token, or NoRecord
    slow,     \* Redis writes that outlived their budget and may still land
    active,   \* the account's status is active
    ending,   \* what is ending the session from elsewhere
    pc,       \* the step a request is at
    tok,      \* the token a request presented
    out,      \* the token a request would answer with, Refused or Kept
    snap,     \* the rows a revoking statement saw when it began
    cookie,   \* the browser's session cookie, 0 when empty
    awaited,  \* the refresh the browser waits for, Ender when none
    faults,   \* failures so far
    calm      \* history: nothing has disturbed the session so far

dbVars == <<minted, rows, live, retired, expires, parent>>

redisVars == <<record, slow>>

browserVars == <<cookie, awaited>>

reqVars == <<pc, tok, out, snap>>

history == <<faults, calm>>

vars ==
    <<now, dbVars, redisVars, active, ending, reqVars, browserVars, history>>

Records == [to: Tokens \cup {0}, until: Int]

TypeOK ==
    /\ now \in Clock
    /\ minted \in Tokens
    /\ rows \in SUBSET Tokens
    /\ live \in SUBSET rows
    /\ retired \in [Tokens -> Clock]
    /\ expires \in [Tokens -> Int]
    /\ parent \in [Tokens -> Tokens \cup {0}]
    /\ record \in [Tokens -> Records]
    /\ slow \in SUBSET (Tokens \X Tokens)
    /\ active \in BOOLEAN
    /\ ending \in Endings \cup {"none"}
    /\ pc \in [Procs -> Steps]
    /\ tok \in [Requests -> Tokens]
    /\ out \in [Requests -> Tokens \cup {Refused, Kept}]
    /\ snap \in [Procs -> SUBSET Tokens]
    /\ cookie \in Tokens \cup {Refused}
    /\ awaited \in Procs
    /\ faults \in 0 .. MaxFaults
    /\ calm \in BOOLEAN

Smaller(a, b) == IF a < b THEN a ELSE b

(***************************************************************************)
(* A browser that has just signed in: issueSession stored the first row of *)
(* the family and answered with its token.  Its expiry is the shorter of   *)
(* the idle limit and the absolute maximum in force on that day, which may *)
(* have been a longer one than AbsoluteMax.                                *)
(***************************************************************************)
Init ==
    /\ now = 0
    /\ minted = 1
    /\ rows = {1}
    /\ live = {1}
    /\ retired = [t \in Tokens |-> 0]
    /\ expires = [t \in Tokens |-> IF t = 1 THEN FirstExpiry ELSE 0]
    /\ parent = [t \in Tokens |-> 0]
    /\ record = [t \in Tokens |-> NoRecord]
    /\ slow = {}
    /\ active = TRUE
    /\ ending = "none"
    /\ pc = [p \in Procs |-> "idle"]
    /\ tok = [r \in Requests |-> 1]
    /\ out = [r \in Requests |-> Refused]
    /\ snap = [p \in Procs |-> {}]
    /\ cookie = 1
    /\ awaited = Ender
    /\ faults = 0
    /\ calm = TRUE

\* Something fails that the code is prepared for.
Fault ==
    /\ faults < MaxFaults
    /\ faults' = faults + 1
    /\ calm' = FALSE

-----------------------------------------------------------------------------
(***************************************************************************)
(* The browser.  One refresh is awaited at a time (tabs take turns through *)
(* a Web Lock); after a timeout or a lost connection it retries with       *)
(* whatever cookie it holds.                                               *)
(***************************************************************************)
RefreshWithoutCookie(r) ==  \* mutant: an empty cookie is presented too
    /\ pc[r] = "idle" /\ awaited = Ender
    /\ awaited' = r
    /\ pc' = [pc EXCEPT ![r] = "rotate"]
    /\ tok' = [tok EXCEPT ![r] = cookie]
    /\ UNCHANGED <<now, dbVars, redisVars, active, ending, out, snap, cookie,
                   history>>

Refresh(r) ==
    /\ pc[r] = "idle" /\ awaited = Ender /\ cookie # Refused
    /\ awaited' = r
    /\ pc' = [pc EXCEPT ![r] = "rotate"]
    /\ tok' = [tok EXCEPT ![r] = cookie]
    /\ UNCHANGED <<now, dbVars, redisVars, active, ending, out, snap,
                   cookie, history>>

\* The answer will not arrive: the connection dropped, or the attempt timed
\* out.  The server knows nothing of it and the request goes on.
Abandon ==
    /\ awaited # Ender
    /\ awaited' = Ender
    /\ UNCHANGED <<now, dbVars, redisVars, active, ending, reqVars, cookie,
                   history>>

\* The answer, applied by the browser if it still waits for it.  The request
\* is over and its locals are gone.
Answer(r) ==
    /\ pc[r] = "answer"
    /\ pc' = [pc EXCEPT ![r] = "idle"]
    /\ tok' = [tok EXCEPT ![r] = 1]
    /\ out' = [out EXCEPT ![r] = Refused]
    /\ IF awaited = r
       THEN /\ awaited' = Ender
            /\ cookie' = IF out[r] = Kept THEN cookie ELSE out[r]
       ELSE UNCHANGED <<awaited, cookie>>
    /\ UNCHANGED <<now, dbVars, redisVars, active, ending, snap, history>>

-----------------------------------------------------------------------------
(***************************************************************************)
(* RefreshTokensRepository.rotate: the conditional UPDATE claims the row,  *)
(* the successor is inserted and remembered in Redis, and one commit makes *)
(* both visible.  Until then the row stays as it was, but locked.          *)
(***************************************************************************)
Holds(r) == pc[r] \in {"claimed", "recorded"}

Locked(t) == \E r \in Requests : Holds(r) /\ tok[r] = t

ClaimableRevoked(t) == expires[t] > now  \* mutant: revoked_at is not compared

Claimable(t) == t \in live /\ expires[t] > now

ClaimUnlocked(r) ==  \* mutant: a read and a write instead of one UPDATE
    /\ pc[r] = "rotate" /\ Claimable(tok[r])
    /\ pc' = [pc EXCEPT ![r] = "claimed"]
    /\ retired' = [retired EXCEPT ![tok[r]] = now]
    /\ UNCHANGED <<now, minted, rows, live, expires, parent, redisVars, active,
                   ending, tok, out, snap, browserVars, history>>

Claim(r) ==
    /\ pc[r] = "rotate" /\ Claimable(tok[r]) /\ ~Locked(tok[r])
    /\ pc' = [pc EXCEPT ![r] = "claimed"]
    /\ retired' = [retired EXCEPT ![tok[r]] = now]
    /\ UNCHANGED <<now, minted, rows, live, expires, parent, redisVars, active,
                   ending, tok, out, snap, browserVars, history>>

\* The UPDATE matched no row: on to the recovery of a lost answer, unless
\* the window is zero.
ClaimNothing(r) ==
    /\ pc[r] = "rotate" /\ ~Claimable(tok[r])
    /\ pc' = [pc EXCEPT ![r] = IF Window > 0 THEN "lookup" ELSE "reuse"]
    /\ UNCHANGED <<now, dbVars, redisVars, active, ending, tok, out,
                   snap, browserVars, history>>

\* The session is past its absolute maximum: the presented token is spent,
\* none replaces it and the rest of the family ends.
ClaimPastMaximum(r) ==
    /\ pc[r] = "claimed" /\ AbsoluteMax <= retired[tok[r]]
    /\ live' = live \ {tok[r]}
    /\ pc' = [pc EXCEPT ![r] = "revoke"]
    /\ calm' = FALSE
    /\ UNCHANGED <<now, minted, rows, retired, expires, parent, redisVars,
                   active, ending, tok, out, snap, browserVars, faults>>

\* The successor's row is written and remember records it in Redis, still
\* inside the transaction.  A write that fails or is slower than its budget
\* is given up; a slow one may land later.
Remember(r) ==
    /\ pc[r] = "claimed" /\ retired[tok[r]] < AbsoluteMax /\ minted < MaxTokens
    /\ minted' = minted + 1
    /\ out' = [out EXCEPT ![r] = minted + 1]
    /\ pc' = [pc EXCEPT ![r] = "recorded"]
    /\ \/ /\ Window > 0
          /\ record' = [record EXCEPT ![tok[r]] =
                [to |-> minted + 1, until |-> now + Window]]
          /\ UNCHANGED <<slow, history>>
       \/ /\ IF Window > 0 THEN Fault ELSE UNCHANGED history
          /\ UNCHANGED redisVars
       \/ /\ Window > 0
          /\ slow' = slow \cup {<<tok[r], minted + 1>>}
          /\ Fault
          /\ UNCHANGED record
    /\ UNCHANGED <<now, rows, live, retired, expires, parent, active, ending,
                   tok, snap, browserVars>>

\* expires_at of the row that token t is rotated into.
NextExpiry(t) == Smaller(retired[t] + Ttl, AbsoluteMax)

\* The commit of the rotation.
Commit(r) ==
    /\ pc[r] = "recorded"
    /\ rows' = rows \cup {out[r]}
    /\ live' = (live \ {tok[r]}) \cup {out[r]}
    /\ expires' = [expires EXCEPT ![out[r]] = NextExpiry(tok[r])]
    /\ parent' = [parent EXCEPT ![out[r]] = tok[r]]
    /\ pc' = [pc EXCEPT ![r] = "owner"]
    /\ UNCHANGED <<now, minted, retired, redisVars, active, ending, tok, out,
                   snap, browserVars, history>>

\* A Redis write that outlived its budget lands after all.
SlowWrite(w) ==
    /\ w \in slow
    /\ slow' = slow \ {w}
    /\ record' = [record EXCEPT ![w[1]] =
          [to |-> w[2], until |-> now + Window]]
    /\ UNCHANGED <<now, dbVars, active, ending, reqVars, browserVars, history>>

\* A database call of the request fails: an open rotation rolls back, the
\* Redis record it wrote stays, and the error clears the browser's cookie.
Fail(r) ==
    /\ pc[r] \in {"rotate", "claimed", "recorded", "owner", "confirm",
                  "reuse", "foreign", "superseded", "revoke"}
    /\ pc' = [pc EXCEPT ![r] = "answer"]
    /\ out' = [out EXCEPT ![r] = Refused]
    /\ Fault
    /\ UNCHANGED <<now, dbVars, redisVars, active, ending, tok, snap,
                   browserVars>>

-----------------------------------------------------------------------------
(***************************************************************************)
(* AuthService.refresh and recoverLostRefresh after the rotation: the      *)
(* account check of a new or re-issued token, the recovery of a lost       *)
(* answer, and the judgement of a retired token.                           *)
(***************************************************************************)
OwnerCheck(r) ==
    /\ pc[r] = "owner"
    /\ pc' = [pc EXCEPT ![r] = IF active THEN "answer" ELSE "revoke"]
    /\ UNCHANGED <<now, dbVars, redisVars, active, ending, tok, out,
                   snap, browserVars, history>>

\* RefreshReissueService.lookup finds the record of this browser.
Recorded(t) == record[t] # NoRecord

Lookup(r) ==
    /\ pc[r] = "lookup" /\ Recorded(tok[r])
    /\ pc' = [pc EXCEPT ![r] = "confirm"]
    /\ out' = [out EXCEPT ![r] = record[tok[r]].to]
    /\ UNCHANGED <<now, dbVars, redisVars, active, ending, tok, snap,
                   browserVars, history>>

\* The record was written for another client binding: the browser has been
\* upgraded or has lost its device cookie since.
LookupForeign(r) ==
    /\ pc[r] = "lookup" /\ Recorded(tok[r])
    /\ Fault
    /\ pc' = [pc EXCEPT ![r] = "foreign"]
    /\ UNCHANGED <<now, dbVars, redisVars, active, ending, tok, out, snap,
                   browserVars>>

\* No record, or Redis does not answer in time.
LookupNothing(r) ==
    /\ pc[r] = "lookup"
    /\ pc' = [pc EXCEPT ![r] = "reuse"]
    /\ IF Recorded(tok[r]) THEN Fault ELSE UNCHANGED history
    /\ UNCHANGED <<now, dbVars, redisVars, active, ending, tok, out,
                   snap, browserVars>>

Newer(t) == {s \in rows : s > t}

ReissuableUnnamed(t, s) ==  \* mutant: the record's successor is not compared
    /\ t \notin live
    /\ now - retired[t] <= Window
    /\ \E u \in live : Newer(t) = {u} /\ expires[u] > now

\* findReissuableSuccessor: token t may be answered with s.
Reissuable(t, s) ==
    /\ t \notin live
    /\ now - retired[t] <= Window
    /\ Newer(t) = {s}
    /\ s \in live
    /\ expires[s] > now

Confirm(r) ==
    /\ pc[r] = "confirm"
    /\ IF Reissuable(tok[r], out[r])
       THEN /\ pc' = [pc EXCEPT ![r] = "owner"]
            /\ UNCHANGED out
       ELSE /\ pc' = [pc EXCEPT ![r] = "reuse"]
            /\ out' = [out EXCEPT ![r] = Refused]
    /\ UNCHANGED <<now, dbVars, redisVars, active, ending, tok, snap,
                   browserVars, history>>

\* findReusedRotation with the grace, or with none for a foreign client: a
\* retired token that was rotated away longer ago ends the family.
RotatedAway(t) == t \notin live /\ Newer(t) # {}

ReuseWithoutGrace(r) ==  \* mutant: a lost race counts as reuse at once
    /\ pc[r] \in {"reuse", "foreign"}
    /\ pc' = [pc EXCEPT ![r] =
          IF RotatedAway(tok[r]) THEN "revoke" ELSE "superseded"]
    /\ UNCHANGED <<now, dbVars, redisVars, active, ending, tok, out, snap,
                   browserVars, history>>

Reuse(r) ==
    /\ pc[r] \in {"reuse", "foreign"}
    /\ pc' = [pc EXCEPT ![r] =
          IF RotatedAway(tok[r])
             /\ (pc[r] = "reuse" => now - retired[tok[r]] > Grace)
          THEN "revoke" ELSE "superseded"]
    /\ UNCHANGED <<now, dbVars, redisVars, active, ending, tok, out,
                   snap, browserVars, history>>

\* The second findReusedRotation, without grace: a token that merely lost a
\* race leaves the cookie alone.
Superseded(r) ==
    /\ pc[r] = "superseded"
    /\ pc' = [pc EXCEPT ![r] = "answer"]
    /\ out' = [out EXCEPT ![r] = IF RotatedAway(tok[r]) THEN Kept ELSE Refused]
    /\ UNCHANGED <<now, dbVars, redisVars, active, ending, tok, snap,
                   browserVars, history>>

-----------------------------------------------------------------------------
(***************************************************************************)
(* Revocation of the family: one UPDATE of the rows with revoked_at null.  *)
(* RevokeBegin is its snapshot; RevokeEnd follows once no row of the       *)
(* snapshot is locked by a rotation, and revokes those still unrevoked.    *)
(***************************************************************************)
RevokeBegin(p) ==
    /\ pc[p] = "revoke"
    /\ snap' = [snap EXCEPT ![p] = live]
    /\ pc' = [pc EXCEPT ![p] = "revoking"]
    /\ UNCHANGED <<now, dbVars, redisVars, active, ending, tok, out,
                   browserVars, history>>

RevokeRows(p) ==
    /\ pc[p] = "revoking"
    /\ \A t \in snap[p] : ~Locked(t)
    /\ live' = live \ snap[p]
    /\ retired' = [t \in Tokens |->
          IF t \in snap[p] \cap live THEN now ELSE retired[t]]
    /\ snap' = [snap EXCEPT ![p] = {}]

\* A refresh that ended the family is refused.
RevokeEnd(r) ==
    /\ RevokeRows(r)
    /\ pc' = [pc EXCEPT ![r] = "answer"]
    /\ out' = [out EXCEPT ![r] = Refused]
    /\ UNCHANGED <<now, minted, rows, expires, parent, redisVars, active,
                   ending, tok, browserVars, history>>

\* The session is ended from elsewhere: signOut or signOutByRefreshToken of
\* this browser, revokeSession from the session list, revokeAllForUser of a
\* credential change, or a suspension, which first writes the status.
End(how) ==
    /\ pc[Ender] = "idle"
    /\ how = "signOut" => cookie # Refused
    /\ ending' = IF how = "suspend" THEN "revokeAll" ELSE how
    /\ active' = (active /\ how # "suspend")
    /\ pc' = [pc EXCEPT ![Ender] = "revoke"]
    /\ calm' = FALSE
    /\ UNCHANGED <<now, dbVars, redisVars, tok, out, snap,
                   browserVars, faults>>

\* revokeSession answers 404 when its statement revoked no row; the others
\* succeed whatever it revoked.  Sign-out clears the cookie if its answer
\* arrives.
EndDone ==
    /\ RevokeRows(Ender)
    /\ pc' = [pc EXCEPT ![Ender] =
          IF ending = "revokeSession" /\ snap[Ender] \cap live = {}
          THEN "notFound" ELSE "done"]
    /\ \/ UNCHANGED cookie
       \/ ending = "signOut" /\ cookie' = Refused
    /\ ending' = "none"
    /\ UNCHANGED <<now, minted, rows, expires, parent, redisVars, active, tok,
                   out, awaited, history>>

-----------------------------------------------------------------------------
\* Time passes, and Redis drops the records whose time to live is over.  The
\* session stays undisturbed while its live token has not expired, no
\* rotation's transaction stays open for a whole window (it is cut off after
\* five seconds) or until its new token has expired, a browser that holds a retired token has retried within the
\* window, and no request with a retired token is under way after the grace.
Prompt(n) ==
    /\ \A t \in live : expires[t] > n
    /\ cookie # Refused /\ cookie \notin live => n - retired[cookie] < Window
    /\ \A r \in Requests : Holds(r) =>
          n - retired[tok[r]] < Window /\ n < NextExpiry(tok[r])
    /\ \A r \in Requests : pc[r] # "idle" /\ tok[r] \notin live =>
          n - retired[tok[r]] <= Grace

Tick ==
    /\ now < MaxClock
    /\ now' = now + 1
    /\ record' = [t \in Tokens |->
          IF record[t].until <= now + 1 THEN NoRecord ELSE record[t]]
    /\ calm' = (calm /\ Prompt(now + 1))
    /\ UNCHANGED <<dbVars, slow, active, ending, reqVars, browserVars, faults>>

RequestStep(r) ==
    \/ Refresh(r) \/ Answer(r)
    \/ Claim(r) \/ ClaimNothing(r) \/ ClaimPastMaximum(r)
    \/ Remember(r) \/ Commit(r) \/ Fail(r)
    \/ OwnerCheck(r) \/ Lookup(r) \/ LookupForeign(r) \/ LookupNothing(r)
    \/ Confirm(r) \/ Reuse(r) \/ Superseded(r)
    \/ RevokeBegin(r) \/ RevokeEnd(r)

Next ==
    \/ \E r \in Requests : RequestStep(r)
    \/ Abandon
    \/ \E w \in slow : SlowWrite(w)
    \/ \E how \in Endings : End(how)
    \/ RevokeBegin(Ender) \/ EndDone
    \/ Tick

Spec == Init /\ [][Next]_vars

-----------------------------------------------------------------------------
\* The chain never forks: a token is rotated into at most one other, however
\* many requests present it at once, and the family never has two live
\* tokens (rotate's compare-and-swap).
ChainNeverForks ==
    /\ \A s, u \in rows : parent[s] = parent[u] => s = u
    /\ \A s, u \in live : s = u

\* A refresh that answers with a token answers with the one stored successor
\* of the token it was given, whichever path the token took to the answer: a
\* recovery record left by a rotation that rolled back, or overwritten by a
\* slow write, is never handed out (findReissuableSuccessor).
AnswerIsTheSuccessor ==
    \A r \in Requests : pc[r] = "answer" /\ out[r] > 0 =>
        out[r] \in rows /\ parent[out[r]] = tok[r]

\* As long as nothing disturbs the session and the browser retries promptly,
\* it is never refused and never left behind, whichever answers were lost and
\* however its requests overlap: the cookie is live, or its only successor is
\* live and recorded, and no answer it waits for is a refusal.
PromptRetryKeepsSession ==
    calm =>
      /\ awaited # Ender /\ pc[awaited] = "answer" => out[awaited] > 0
      /\ cookie # Refused
      /\ \/ cookie \in live
         \/ /\ Recorded(cookie) /\ Reissuable(cookie, record[cookie].to)

\* The whole service, however its requests overlap, fail or are repeated, does
\* what TokenChain says: the live token is exchanged for a fresh one or dies,
\* a retired token is never live again, and neither a rotation that was in
\* flight nor a recovery brings a dead family back (refinement).
Chain == INSTANCE TokenChain WITH
    First <- 1, None <- Refused,
    token <- IF live = {} THEN Refused ELSE CHOOSE t \in live : TRUE,
    spent <- rows \ live,
    from <- parent

RefinesTokenChain == Chain!Spec
=============================================================================
