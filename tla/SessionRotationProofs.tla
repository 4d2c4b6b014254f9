----------------------- MODULE SessionRotationProofs -----------------------
(***************************************************************************)
(* Proofs about SessionRotation for any number of concurrent requests, any *)
(* number of tokens, any clock and any window, grace and session lengths.  *)
(*                                                                         *)
(* Neither ChainNeverForks nor AnswerIsTheSuccessor is inductive.  The     *)
(* predicate ChainInv says why they hold: the rows form one line in the    *)
(* order they were minted, only its last row can be live, and the one      *)
(* request that holds the lock of the live row has minted a token newer    *)
(* than every row.  So the only row newer than a retired one is the row    *)
(* it was rotated into.                                                    *)
(*                                                                         *)
(* PromptRetryKeepsSession needs CalmInv besides: the cookie is the live   *)
(* token or the one before it, and in the second case the record of its    *)
(* successor outlives the window in which a prompt browser retries.        *)
(***************************************************************************)
EXTENDS SessionRotation, TLAPS

\* The rows are a line: each but the first was rotated from the row before it.
Line ==
    /\ 1 \in rows /\ parent[1] = 0
    /\ \A s \in rows : s <= minted
    /\ \A s \in rows : s # 1 =>
          /\ parent[s] \in rows /\ parent[s] < s
          /\ \A u \in rows : u <= parent[s] \/ s <= u

\* Only the last row of the line is live.
LastIsLive == \A t \in live : \A s \in rows : s <= t

\* One request at most holds a row lock, on the live row, and what it minted
\* is newer than every row.
OneLock ==
    /\ \A r \in Requests : Holds(r) => tok[r] \in live
    /\ \A r, q \in Requests : Holds(r) /\ Holds(q) => r = q
    /\ \A r \in Requests : pc[r] = "recorded" =>
          out[r] \in Tokens /\ out[r] <= minted /\ \A s \in rows : s < out[r]

\* Whoever holds a token holds a stored one.
Presented ==
    /\ \A r \in Requests : tok[r] \in rows
    /\ cookie # Refused => cookie \in rows

Follows(r) == out[r] \in rows /\ parent[out[r]] = tok[r]

\* What a request is about to answer with is the successor of what it got.
Answers ==
    \A r \in Requests :
        /\ pc[r] = "owner" => Follows(r)
        /\ pc[r] = "answer" /\ out[r] > 0 => Follows(r)

ChainInv == Line /\ LastIsLive /\ OneLock /\ Presented /\ Answers
IInv == TypeOK /\ ChainInv

\* The initial state satisfies the inductive invariant.
LEMMA InitIInv == Init => IInv
<1> SUFFICES ASSUME Init PROVE IInv OBVIOUS
<1>1. TypeOK
  BY SessionAssumption DEF Init, TypeOK, Tokens, Clock, Procs, Refused, Kept, Records,
     NoRecord, Endings, Steps
<1>2. ChainInv
  BY SessionAssumption DEF Init, ChainInv, Line, LastIsLive, OneLock, Presented, Answers, Follows,
     Holds, Tokens, Procs, Refused
<1> QED BY <1>1, <1>2 DEF IInv

\* A fault is counted and ends the calm.
LEMMA FaultType ==
    ASSUME TypeOK, Fault
    PROVE  faults' \in 0 .. MaxFaults /\ calm' \in BOOLEAN
<1>1. faults \in 0 .. MaxFaults BY DEF TypeOK
<1>2. faults < MaxFaults /\ faults' = faults + 1 BY DEF Fault
<1>3. calm' = FALSE BY DEF Fault
<1>4. faults' \in 0 .. MaxFaults BY <1>1, <1>2, SessionAssumption
<1> QED BY <1>3, <1>4

\* The first token is one.
LEMMA FirstToken == 1 \in Tokens
BY SessionAssumption DEF Tokens

\* Instants and what is computed from them are integers.
LEMMA Instants ==
    ASSUME TypeOK
    PROVE  now \in Int /\ now + Window \in Int
BY SessionAssumption DEF TypeOK, Clock

\* Every step of a request keeps the types.
LEMMA RequestType ==
    ASSUME IInv, NEW r \in Requests, RequestStep(r)
    PROVE  TypeOK'
<1> USE SessionAssumption DEF IInv, TypeOK, Procs, Refused, Kept, Steps,
        dbVars, redisVars, browserVars, reqVars, history
<1>1. CASE Refresh(r) BY <1>1 DEF Refresh
<1>2. CASE Answer(r) BY <1>2, FirstToken DEF Answer
<1>3. CASE Claim(r) BY <1>3 DEF Claim
<1>4. CASE ClaimNothing(r) BY <1>4 DEF ClaimNothing
<1>5. CASE ClaimPastMaximum(r) BY <1>5 DEF ClaimPastMaximum
<1>6. CASE Remember(r)
  <2>1. minted + 1 \in Tokens BY <1>6 DEF Remember, Tokens
  <2>2. minted' \in Tokens /\ out' \in [Requests -> Tokens \cup {Refused, Kept}] BY <1>6, <2>1 DEF Remember
  <2>3. record' \in [Tokens -> Records] BY <1>6, <2>1, Instants DEF Remember, Records
  <2>4. slow' \subseteq Tokens \X Tokens BY <1>6, <2>1 DEF Remember
  <2>5. faults' \in 0 .. MaxFaults /\ calm' \in BOOLEAN BY <1>6, FaultType DEF Remember
  <2> QED BY <1>6, <2>2, <2>3, <2>4, <2>5 DEF Remember
<1>7. CASE Commit(r) BY <1>7 DEF Commit, NextExpiry, Smaller, ChainInv, OneLock, Clock
<1>8. CASE Fail(r) BY <1>8, FaultType DEF Fail
<1>9. CASE OwnerCheck(r) BY <1>9 DEF OwnerCheck
<1>10. CASE Lookup(r) BY <1>10 DEF Lookup, Records
<1>11. CASE LookupForeign(r) BY <1>11, FaultType DEF LookupForeign
<1>12. CASE LookupNothing(r) BY <1>12, FaultType DEF LookupNothing
<1>13. CASE Confirm(r) BY <1>13 DEF Confirm
<1>14. CASE Reuse(r) BY <1>14 DEF Reuse
<1>15. CASE Superseded(r) BY <1>15 DEF Superseded
<1>16. CASE RevokeBegin(r) BY <1>16 DEF RevokeBegin
<1>17. CASE RevokeEnd(r) BY <1>17 DEF RevokeEnd, RevokeRows
<1> QED BY <1>1, <1>2, <1>3, <1>4, <1>5, <1>6, <1>7, <1>8, <1>9, <1>10, <1>11,
           <1>12, <1>13, <1>14, <1>15, <1>16, <1>17 DEF RequestStep

\* So does every other step.
LEMMA OtherType ==
    ASSUME TypeOK,
           \/ Abandon \/ Tick \/ EndDone \/ RevokeBegin(Ender)
           \/ \E w \in slow : SlowWrite(w)
           \/ \E how \in Endings : End(how)
    PROVE  TypeOK'
<1> USE SessionAssumption DEF TypeOK, Procs, Refused, Kept, Steps,
        dbVars, redisVars, browserVars, reqVars, history
<1>1. CASE Abandon BY <1>1 DEF Abandon
<1>2. CASE Tick BY <1>2 DEF Tick, Records, NoRecord, Clock
<1>3. CASE EndDone BY <1>3 DEF EndDone, RevokeRows
<1>4. CASE RevokeBegin(Ender) BY <1>4 DEF RevokeBegin
<1>5. CASE \E w \in slow : SlowWrite(w) BY <1>5, Instants DEF SlowWrite, Records
<1>6. CASE \E how \in Endings : End(how) BY <1>6 DEF End, Endings
<1> QED BY <1>1, <1>2, <1>3, <1>4, <1>5, <1>6

\* Rows and tokens are positive integers.
LEMMA RowsAreNumbers ==
    ASSUME TypeOK
    PROVE  /\ Tokens \subseteq Int /\ rows \subseteq Int /\ live \subseteq rows
           /\ \A s \in rows : s >= 1
BY SessionAssumption DEF TypeOK, Tokens

\* A row that alone is newer than token t, a row too, was rotated from t.
LEMMA OnlyNewerFollows ==
    ASSUME TypeOK, Line, NEW t \in rows, NEW s, Newer(t) = {s}
    PROVE  s \in rows /\ parent[s] = t
<1>1. s \in rows /\ s > t BY DEF Newer
<1>2. s \in Int /\ t \in Int /\ t >= 1 BY <1>1, RowsAreNumbers
<1>3. parent[s] \in rows /\ parent[s] < s BY <1>1, <1>2 DEF Line
<1>4. parent[s] \in Int BY <1>3, RowsAreNumbers
<1>5. ~(parent[s] > t) BY <1>1, <1>2, <1>3, <1>4 DEF Newer
<1>6. t <= parent[s] \/ s <= t BY <1>1, <1>2 DEF Line
<1> QED BY <1>1, <1>2, <1>4, <1>5, <1>6

\* The live row is the only one.
LEMMA LiveIsUnique ==
    ASSUME TypeOK, LastIsLive, NEW t \in live
    PROVE  live = {t}
BY RowsAreNumbers DEF LastIsLive

\* Every step of a request keeps the chain.
LEMMA RequestChain ==
    ASSUME IInv, TypeOK', NEW r \in Requests, RequestStep(r)
    PROVE  ChainInv'
<1> USE SessionAssumption DEF IInv, TypeOK, Procs, ChainInv, Line, LastIsLive, OneLock,
        Presented, Answers, Follows, Holds, dbVars, redisVars, browserVars, reqVars
<1>1. CASE Refresh(r) BY <1>1 DEF Refresh, Refused, Tokens
<1>2. CASE Answer(r) BY <1>2 DEF Answer, Refused, Kept, Tokens
<1>3. CASE Claim(r)
  <2>1. live = {tok[r]} BY <1>3, LiveIsUnique DEF Claim, Claimable
  <2>2. \A q \in Requests : ~Holds(q) BY <1>3, <2>1 DEF Claim, Locked
  <2> QED BY <1>3, <2>2 DEF Claim, Claimable
<1>4. CASE ClaimNothing(r) BY <1>4 DEF ClaimNothing
<1>5. CASE ClaimPastMaximum(r) BY <1>5 DEF ClaimPastMaximum
<1>6. CASE Remember(r) BY <1>6 DEF Remember, Tokens
<1>7. CASE Commit(r)
  <2>1. out[r] \in Tokens /\ tok[r] \in live /\ tok[r] \in rows BY <1>7 DEF Commit
  <2>2. out[r] <= minted /\ (\A s \in rows : s < out[r]) BY <1>7 DEF Commit
  <2>3. rows' = rows \cup {out[r]} /\ live' \subseteq {out[r]}
    <3>1. live = {tok[r]} BY <2>1, LiveIsUnique
    <3> QED BY <1>7, <3>1 DEF Commit
  <2>4. parent' = [parent EXCEPT ![out[r]] = tok[r]] /\ minted' = minted /\ out' = out /\ tok' = tok
        /\ cookie' = cookie /\ pc' = [pc EXCEPT ![r] = "owner"]
    BY <1>7 DEF Commit
  <2>14. out[r] \in Int /\ rows \subseteq Int BY <2>1, RowsAreNumbers
  <2>5. out[r] \notin rows BY <2>14, <2>2
  <2>6. \A s \in rows : parent'[s] = parent[s] BY <2>4, <2>5
  <2>7. parent'[out[r]] = tok[r] BY <2>1, <2>4
  <2>8. \A q \in Requests : Holds(q) => q = r BY <1>7 DEF Commit
  <2>9. Line'
    <3>1. 1 \in rows' /\ parent'[1] = 0 BY <2>3, <2>6
    <3>2. \A s \in rows' : s <= minted' BY <2>2, <2>3, <2>4
    <3>3. ASSUME NEW s \in rows PROVE s # 1 =>
            /\ parent'[s] \in rows' /\ parent'[s] < s
            /\ \A u \in rows' : u <= parent'[s] \/ s <= u
      BY <2>1, <2>2, <2>3, <2>6, <2>14
    <3>4. tok[r] < out[r] /\ \A u \in rows : u <= tok[r] BY <2>1, <2>2
    <3>5. /\ parent'[out[r]] \in rows' /\ parent'[out[r]] < out[r]
          /\ \A u \in rows' : u <= parent'[out[r]] \/ out[r] <= u
      <4> HIDE DEF IInv, TypeOK, Procs, ChainInv, Line, LastIsLive, OneLock, Presented,
               Answers, Follows, Holds
      <4> QED BY <2>1, <2>3, <2>14, <2>7, <3>4
    <3> QED BY <3>1, <3>2, <3>3, <3>5, <2>3
  <2>10. LastIsLive' BY <2>14, <2>2, <2>3
  <2>11. OneLock' BY <2>4, <2>8
  <2>12. Presented' BY <2>3, <2>4
  <2>13. Answers' BY <2>1, <2>3, <2>4, <2>6, <2>7
  <2> QED BY <2>9, <2>10, <2>11, <2>12, <2>13
<1>8. CASE Fail(r) BY <1>8 DEF Fail, Refused
<1>9. CASE OwnerCheck(r) BY <1>9 DEF OwnerCheck
<1>10. CASE Lookup(r) BY <1>10 DEF Lookup
<1>11. CASE LookupForeign(r) BY <1>11 DEF LookupForeign
<1>12. CASE LookupNothing(r) BY <1>12 DEF LookupNothing
<1>13. CASE Confirm(r)
  <2>1. CASE Reissuable(tok[r], out[r])
    <3>1. Newer(tok[r]) = {out[r]} BY <2>1 DEF Reissuable
    <3>2. Follows(r) BY <3>1, OnlyNewerFollows
    <3> QED BY <1>13, <2>1, <3>2 DEF Confirm
  <2>2. CASE ~Reissuable(tok[r], out[r]) BY <1>13, <2>2 DEF Confirm, Refused
  <2> QED BY <2>1, <2>2
<1>14. CASE Reuse(r) BY <1>14 DEF Reuse
<1>15. CASE Superseded(r) BY <1>15 DEF Superseded, Refused, Kept
<1>16. CASE RevokeBegin(r) BY <1>16 DEF RevokeBegin
<1>17. CASE RevokeEnd(r) BY <1>17 DEF RevokeEnd, RevokeRows, Locked, Refused
<1> QED BY <1>1, <1>2, <1>3, <1>4, <1>5, <1>6, <1>7, <1>8, <1>9, <1>10, <1>11,
           <1>12, <1>13, <1>14, <1>15, <1>16, <1>17 DEF RequestStep

\* So does every other step.
LEMMA OtherChain ==
    ASSUME IInv, TypeOK',
           \/ Abandon \/ Tick \/ EndDone \/ RevokeBegin(Ender)
           \/ \E w \in slow : SlowWrite(w)
           \/ \E how \in Endings : End(how)
    PROVE  ChainInv'
<1> USE SessionAssumption DEF IInv, TypeOK, Procs, ChainInv, Line, LastIsLive, OneLock,
        Presented, Answers, Follows, Holds, dbVars, redisVars, browserVars, reqVars
<1>1. CASE Abandon BY <1>1 DEF Abandon
<1>2. CASE Tick BY <1>2 DEF Tick
<1>3. CASE EndDone BY <1>3 DEF EndDone, RevokeRows, Locked
<1>4. CASE RevokeBegin(Ender) BY <1>4 DEF RevokeBegin
<1>5. CASE \E w \in slow : SlowWrite(w) BY <1>5 DEF SlowWrite
<1>6. CASE \E how \in Endings : End(how) BY <1>6 DEF End
<1> QED BY <1>1, <1>2, <1>3, <1>4, <1>5, <1>6

\* Every step keeps the inductive invariant.
LEMMA NextIInv == IInv /\ [Next]_vars => IInv'
<1> SUFFICES ASSUME IInv, [Next]_vars PROVE IInv' OBVIOUS
<1>1. CASE \E r \in Requests : RequestStep(r)
  <2>1. TypeOK' BY <1>1, RequestType
  <2> QED BY <1>1, <2>1, RequestChain DEF IInv
<1>2. CASE \/ Abandon \/ Tick \/ EndDone \/ RevokeBegin(Ender)
           \/ \E w \in slow : SlowWrite(w)
           \/ \E how \in Endings : End(how)
  <2>1. TypeOK' BY <1>2, OtherType DEF IInv
  <2> QED BY <1>2, <2>1, OtherChain DEF IInv
<1>3. CASE UNCHANGED vars
  BY <1>3 DEF vars, IInv, TypeOK, ChainInv, Line, LastIsLive, OneLock, Presented, Answers, Follows,
     Holds, dbVars, redisVars, browserVars, reqVars, history
<1> QED BY <1>1, <1>2, <1>3 DEF Next

\* The rows, records and requests of a session always have their types.
THEOREM TypeCorrect == Spec => []TypeOK
<1>1. IInv => TypeOK BY DEF IInv
<1> QED BY <1>1, InitIInv, NextIInv, PTL DEF Spec

\* A line of rows whose last one alone is live does not fork.
LEMMA LineNeverForks == IInv => ChainNeverForks
<1> SUFFICES ASSUME IInv PROVE ChainNeverForks OBVIOUS
<1> USE DEF IInv, ChainInv
<1>0. rows \subseteq Int /\ 0 \notin rows BY SessionAssumption DEF TypeOK, Tokens
<1>1. ASSUME NEW s \in rows, NEW u \in rows, parent[s] = parent[u], s < u PROVE FALSE
  <2>1. u # 1 BY <1>0, <1>1, SessionAssumption DEF TypeOK, Tokens
  <2>2. parent[u] \in rows BY <2>1 DEF Line
  <2>3. s # 1 BY <1>0, <1>1, <2>2 DEF Line
  <2>4. parent[s] < s BY <2>3 DEF Line
  <2>5. s <= parent[u] \/ u <= s BY <2>1 DEF Line
  <2>6. s \in Int /\ u \in Int /\ parent[u] \in Int BY <1>0, <2>2
  <2>7. parent[u] < s BY <1>1, <2>4
  <2> QED BY <1>1, <2>5, <2>6, <2>7
<1>2. \A s, u \in rows : parent[s] = parent[u] => s = u BY <1>0, <1>1
<1>3. \A s, u \in live : s = u BY <1>0 DEF LastIsLive, TypeOK
<1> QED BY <1>2, <1>3 DEF ChainNeverForks

\* However many requests present the same token at once, it is rotated into
\* one other at most and the family never has two live tokens.
THEOREM ChainNeverForksAlways == Spec => []ChainNeverForks
BY LineNeverForks, InitIInv, NextIInv, PTL DEF Spec

\* A refresh answers with the stored successor of the token it was given, by
\* whichever path: no token of a rolled back rotation is ever handed out.
THEOREM AnswerIsTheSuccessorAlways == Spec => []AnswerIsTheSuccessor
<1>1. IInv => AnswerIsTheSuccessor BY DEF IInv, ChainInv, Answers, Follows, AnswerIsTheSuccessor
<1> QED BY <1>1, InitIInv, NextIInv, PTL DEF Spec

-----------------------------------------------------------------------------
(* The refinement of TokenChain *)

\* What TokenChain sees of a session: its live token, or Refused.
LiveToken == IF live = {} THEN Refused ELSE CHOOSE t \in live : TRUE

\* The live token is the one row that is live.
LEMMA LiveTokenIs ==
    ASSUME NEW t, live = {t} PROVE LiveToken = t
BY DEF LiveToken

\* A step of the service exchanges the live token for a fresh one, ends the
\* family or leaves the rows alone.
LEMMA FamilyStep ==
    ASSUME IInv, [Next]_vars
    PROVE  \/ \E t, s \in Tokens :
                /\ live = {t} /\ s \notin rows
                /\ live' = {s} /\ rows' = rows \cup {s} /\ parent' = [parent EXCEPT ![s] = t]
           \/ live' \in {live, {}} /\ rows' = rows /\ parent' = parent
<1> USE DEF dbVars
<1>u. \A t \in live : live = {t} BY LiveIsUnique DEF IInv, ChainInv
<1>l. live \subseteq Tokens /\ rows \subseteq Tokens BY DEF IInv, TypeOK
<1>1. ASSUME NEW r \in Requests, Commit(r)
      PROVE  \E t, s \in Tokens :
                /\ live = {t} /\ s \notin rows
                /\ live' = {s} /\ rows' = rows \cup {s} /\ parent' = [parent EXCEPT ![s] = t]
  <2>1. pc[r] = "recorded" BY <1>1 DEF Commit
  <2>2. tok[r] \in live BY <2>1 DEF IInv, ChainInv, OneLock, Holds
  <2>3. out[r] \in Tokens /\ \A s \in rows : s < out[r] BY <2>1 DEF IInv, ChainInv, OneLock
  <2>4. out[r] \notin rows
    <3>1. out[r] \in Int BY <2>3, RowsAreNumbers DEF IInv
    <3>2. ~(out[r] < out[r]) BY <3>1
    <3> QED BY <2>3, <3>2
  <2>5. live = {tok[r]} /\ tok[r] \in Tokens BY <2>2, <1>u, <1>l
  <2>6. live' = {out[r]} BY <1>1, <2>5 DEF Commit
  <2>7. rows' = rows \cup {out[r]} /\ parent' = [parent EXCEPT ![out[r]] = tok[r]] BY <1>1 DEF Commit
  <2> QED BY <2>3, <2>4, <2>5, <2>6, <2>7
<1>2. ASSUME NEW p, RevokeRows(p) PROVE live' \in {live, {}}
  <2>1. live' = live \ snap[p] BY <1>2 DEF RevokeRows
  <2> QED BY <1>u, <2>1
<1>3. ASSUME NEW r \in Requests, ClaimPastMaximum(r) PROVE live' \in {live, {}}
  <2>1. live' = live \ {tok[r]} BY <1>3 DEF ClaimPastMaximum
  <2> QED BY <1>u, <2>1
<1>4. ASSUME NEW r \in Requests, RequestStep(r), ~Commit(r)
      PROVE  live' \in {live, {}} /\ rows' = rows /\ parent' = parent
  <2>1. CASE RevokeEnd(r) BY <1>2, <2>1 DEF RevokeEnd
  <2>2. CASE ClaimPastMaximum(r) BY <1>3, <2>2 DEF ClaimPastMaximum
  <2> QED
    BY <1>4, <2>1, <2>2 DEF RequestStep, Refresh, Answer, Claim, ClaimNothing, Remember, Fail,
       OwnerCheck, Lookup, LookupForeign, LookupNothing, Confirm, Reuse, Superseded, RevokeBegin
<1>5. CASE EndDone BY <1>2, <1>5 DEF EndDone
<1>6. CASE \/ Abandon \/ Tick \/ RevokeBegin(Ender) \/ UNCHANGED vars
           \/ (\E w \in slow : SlowWrite(w)) \/ (\E how \in Endings : End(how))
  BY <1>6 DEF Abandon, Tick, RevokeBegin, vars, SlowWrite, End
<1> QED BY <1>1, <1>4, <1>5, <1>6 DEF Next

\* Every step of the service is a step of TokenChain or leaves it alone.
LEMMA ChainStep == IInv /\ [Next]_vars => [Chain!Next]_(Chain!vars)
<1> SUFFICES ASSUME IInv, [Next]_vars PROVE [Chain!Next]_(Chain!vars) OBVIOUS
<1>0. \A t \in Tokens : t # Refused BY SessionAssumption DEF Tokens, Refused
<1>l. live \subseteq rows /\ rows \subseteq Tokens BY DEF IInv, TypeOK
<1>1. ASSUME NEW t \in Tokens, NEW s \in Tokens, live = {t}, s \notin rows,
             live' = {s}, rows' = rows \cup {s}, parent' = [parent EXCEPT ![s] = t]
      PROVE  Chain!Exchange(s)
  <2>1. LiveToken = t BY <1>1, LiveTokenIs
  <2>2. LiveToken' = s BY <1>1 DEF LiveToken
  <2>3. rows' \ live' = (rows \ live) \cup {t} BY <1>1, <1>l
  <2>4. s \notin (rows \ live) \cup {t} BY <1>1, <1>l
  <2> QED BY <1>0, <1>1, <2>1, <2>2, <2>3, <2>4 DEF Chain!Exchange, LiveToken
<1>2. ASSUME live # {}, live' = {}, rows' = rows, parent' = parent PROVE Chain!Die
  <2>1. PICK t \in live : TRUE BY <1>2
  <2>2. live = {t} BY LiveIsUnique DEF IInv, ChainInv
  <2>3. LiveToken = t /\ t # Refused BY <1>0, <1>l, <2>2, LiveTokenIs
  <2>4. LiveToken' = Refused BY <1>2 DEF LiveToken
  <2>5. rows' \ live' = (rows \ live) \cup {t} BY <1>2, <1>l, <2>2
  <2> QED BY <1>2, <2>3, <2>4, <2>5 DEF Chain!Die, LiveToken
<1>3. ASSUME live' = live, rows' = rows, parent' = parent PROVE UNCHANGED Chain!vars
  BY <1>3 DEF Chain!vars
<1> QED BY <1>1, <1>2, <1>3, FamilyStep DEF Chain!Next

\* The service implements the chain of tokens.
THEOREM Refinement == Spec => RefinesTokenChain
<1>1. Init => Chain!Init
  <2> SUFFICES ASSUME Init PROVE Chain!Init OBVIOUS
  <2>1. live = {1} /\ rows \ live = {} /\ parent = [t \in Tokens |-> Refused] BY DEF Init, Refused
  <2>2. LiveToken = 1 BY <2>1, LiveTokenIs
  <2> QED BY <2>1, <2>2 DEF Chain!Init, LiveToken
<1> QED BY <1>1, ChainStep, InitIInv, NextIInv, PTL DEF Spec, RefinesTokenChain, Chain!Spec

\* So it keeps what the chain promises: a dead family stays dead, whatever was
\* in flight when it died, and a retired token is never live again.
THEOREM ChainPromises == Spec => Chain!DeadStaysDead /\ Chain!SpentStaysSpent
<1>1. Chain!Next => /\ LiveToken = Refused => LiveToken' = Refused
                    /\ rows \ live \subseteq rows' \ live'
                    /\ LiveToken' # Refused => LiveToken' \notin rows \ live
  BY DEF Chain!Next, Chain!Die, Chain!Exchange, LiveToken
<1>2. [Chain!Next]_(Chain!vars) => [LiveToken = Refused => LiveToken' = Refused]_(Chain!vars) BY <1>1
<1>3. [Chain!Next]_(Chain!vars) =>
        [rows \ live \subseteq (rows \ live)' /\ (LiveToken' # Refused => LiveToken' \notin rows \ live)]_(Chain!vars)
  BY <1>1
<1> QED
  BY <1>2, <1>3, Refinement, PTL
     DEF RefinesTokenChain, LiveToken, Chain!Spec, Chain!DeadStaysDead, Chain!SpentStaysSpent

-----------------------------------------------------------------------------
\* Nothing has ended the session or is about to, and its live token is valid.
Served ==
    /\ active /\ slow = {} /\ pc[Ender] = "idle"
    /\ \A r \in Requests : pc[r] \notin {"foreign", "revoke", "revoking"}
    /\ live # {} /\ \A t \in live : expires[t] > now

\* A cookie that is not live was retired less than a window ago, and its one
\* successor is live and recorded for what is left of the window.
OneBehind ==
    /\ cookie # Refused
    /\ cookie \notin live =>
          /\ Newer(cookie) = {record[cookie].to} /\ record[cookie].to \in live
          /\ now < retired[cookie] + Window
          /\ retired[cookie] + Window <= record[cookie].until

\* A rotation under way is younger than a window, its new token will be valid,
\* and once it is minted the record names it.
Rotating ==
    \A r \in Requests :
        /\ Holds(r) =>
              /\ retired[tok[r]] <= now /\ now < retired[tok[r]] + Window
              /\ retired[tok[r]] < AbsoluteMax => now < NextExpiry(tok[r])
        /\ pc[r] = "recorded" =>
              /\ retired[tok[r]] < AbsoluteMax
              /\ record[tok[r]].to = out[r]
              /\ retired[tok[r]] + Window <= record[tok[r]].until

\* No request presents a token newer than the cookie, none was retired longer
\* ago than the grace, and only a retired token is looked up or judged.
UnderWay ==
    \A r \in Requests :
        /\ pc[r] # "idle" =>
              /\ tok[r] <= cookie
              /\ tok[r] \notin live => now - retired[tok[r]] <= Grace
        /\ pc[r] \in {"lookup", "confirm", "reuse", "superseded"} => tok[r] \notin live

\* The awaited request presented the cookie and is on its way to a token.
Awaiting ==
    awaited # Ender =>
        /\ pc[awaited] \notin {"idle", "reuse", "superseded"}
        /\ tok[awaited] = cookie
        /\ pc[awaited] = "confirm" => out[awaited] = record[cookie].to
        /\ pc[awaited] = "answer" => out[awaited] > 0

CalmInv == calm => Served /\ OneBehind /\ Rotating /\ UnderWay /\ Awaiting

\* The recovery of lost answers is on, and its window (30 s at most, which
\* env.validation.ts enforces) is no longer than the grace (60 s).
RecoveryOn == Window > 0 /\ Window <= Grace

\* A session that has just begun is served.
LEMMA InitCalm == ASSUME RecoveryOn PROVE Init => CalmInv
<1> SUFFICES ASSUME Init PROVE CalmInv OBVIOUS
<1> USE SessionAssumption DEF Init, Procs
<1>1. Served BY DEF Served, Tokens
<1>2. OneBehind BY DEF OneBehind, Refused
<1>3. Rotating BY DEF Rotating, Holds
<1>4. UnderWay BY DEF UnderWay
<1>5. Awaiting BY DEF Awaiting
<1> QED BY <1>1, <1>2, <1>3, <1>4, <1>5 DEF CalmInv

\* In a calm session every row is at most the live one, the last.
LEMMA LiveRow ==
    ASSUME IInv, Served
    PROVE  \E l \in rows : live = {l} /\ l \in Int /\ \A s \in rows : s <= l
<1>1. PICK l \in live : TRUE BY DEF Served
<1>2. live = {l} BY <1>1, LiveIsUnique DEF IInv, ChainInv
<1> QED BY <1>1, <1>2, RowsAreNumbers DEF IInv, ChainInv, LastIsLive

\* A request moves on to a step that does not end the session: the rest of the
\* session is untouched, and only a retired token is judged.
LEMMA MovesOn ==
    ASSUME IInv, Served, OneBehind, Rotating, UnderWay, Awaiting,
           NEW r \in Requests, pc[r] # "idle",
           NEW y \in {"owner", "lookup", "confirm", "reuse", "superseded", "answer"}, NEW z,
           pc' = [pc EXCEPT ![r] = y], out' = [out EXCEPT ![r] = z],
           UNCHANGED <<now, dbVars, redisVars, active, tok, browserVars>>,
           y \in {"lookup", "confirm", "reuse", "superseded"} => tok[r] \notin live,
           awaited = r =>
              /\ y \notin {"reuse", "superseded"}
              /\ y = "confirm" => z = record[cookie].to
              /\ y = "answer" => z > 0
    PROVE  CalmInv'
<1>1. /\ now' = now /\ live' = live /\ rows' = rows /\ retired' = retired /\ expires' = expires
      /\ record' = record /\ slow' = slow /\ active' = active /\ tok' = tok
      /\ cookie' = cookie /\ awaited' = awaited
  BY DEF dbVars, redisVars, browserVars
<1>2. pc'[r] = y /\ out'[r] = z BY DEF IInv, TypeOK, Procs
<1>3. \A q \in Procs \ {r} : pc'[q] = pc[q] BY DEF IInv, TypeOK
<1>4. \A q \in Requests \ {r} : out'[q] = out[q] BY DEF IInv, TypeOK
<1>5. Requests \subseteq Procs /\ Ender \in Procs \ {r} /\ awaited \in Procs
  BY SessionAssumption DEF Procs, IInv, TypeOK
<1>6. Served' BY <1>1, <1>2, <1>3, <1>5 DEF Served
<1>7. OneBehind' BY <1>1 DEF OneBehind, Newer
<1>8. Rotating' BY <1>1, <1>2, <1>3, <1>4, <1>5 DEF Rotating, Holds, NextExpiry
<1>9. UnderWay' BY <1>1, <1>2, <1>3, <1>5 DEF UnderWay
<1>10. Awaiting'
  <2>1. CASE awaited = r BY <1>1, <1>2, <2>1 DEF Awaiting
  <2>2. CASE awaited # r
    <3>1. awaited # Ender => awaited \in Requests \ {r} BY <1>5, <2>2 DEF Procs
    <3> QED BY <1>1, <1>3, <1>4, <1>5, <2>2, <3>1 DEF Awaiting
  <2> QED BY <2>1, <2>2
<1> QED BY <1>6, <1>7, <1>8, <1>9, <1>10 DEF CalmInv

\* The steps that neither rotate a token nor move the cookie.
LEMMA CalmProgress ==
    ASSUME IInv, RecoveryOn, CalmInv, calm, calm', NEW r \in Requests,
           \/ ClaimNothing(r) \/ OwnerCheck(r) \/ Lookup(r) \/ LookupNothing(r)
           \/ Confirm(r) \/ Reuse(r) \/ Superseded(r)
    PROVE  CalmInv'
<1>1. Served /\ OneBehind /\ Rotating /\ UnderWay /\ Awaiting BY DEF CalmInv
<1>2. UNCHANGED <<now, dbVars, redisVars, active, tok, browserVars>>
  BY DEF ClaimNothing, OwnerCheck, Lookup, LookupNothing, Confirm, Reuse, Superseded, browserVars
<1>3. out[r] = out[r] /\ out = [out EXCEPT ![r] = out[r]] BY DEF IInv, TypeOK
<1>4. awaited = r => tok[r] = cookie /\ r # Ender BY <1>1, SessionAssumption DEF Awaiting
<1>5. tok[r] \in rows BY DEF IInv, ChainInv, Presented
\* The awaited request, with a retired cookie, finds its record.
<1>6. awaited = r /\ tok[r] \notin live =>
        /\ Recorded(cookie) /\ Newer(cookie) = {record[cookie].to}
        /\ Reissuable(cookie, record[cookie].to)
  <2> SUFFICES ASSUME awaited = r, tok[r] \notin live
               PROVE  /\ Recorded(cookie) /\ Newer(cookie) = {record[cookie].to}
                      /\ Reissuable(cookie, record[cookie].to)
    OBVIOUS
  <2>1. /\ Newer(cookie) = {record[cookie].to} /\ record[cookie].to \in live
        /\ now < retired[cookie] + Window /\ cookie \in Tokens
    BY <1>1, <1>4 DEF OneBehind, IInv, TypeOK
  <2>2. now \in Int /\ retired[cookie] \in Int /\ Window \in Int
    BY <2>1, SessionAssumption DEF IInv, TypeOK, Clock
  <2>3. record[cookie].to # 0 BY <2>1, RowsAreNumbers DEF IInv, TypeOK
  <2>4. expires[record[cookie].to] > now BY <1>1, <2>1 DEF Served
  <2> QED BY <1>4, <2>1, <2>2, <2>3, <2>4 DEF Recorded, NoRecord, Reissuable
<1>7. CASE ClaimNothing(r)
  <2>1. tok[r] \notin live BY <1>1, <1>7 DEF ClaimNothing, Claimable, Served
  <2>2. pc[r] = "rotate" /\ pc' = [pc EXCEPT ![r] = "lookup"] /\ out' = out
    BY <1>7 DEF ClaimNothing, RecoveryOn
  <2> QED BY <1>1, <1>2, <1>3, <2>1, <2>2, MovesOn
<1>8. CASE OwnerCheck(r)
  <2>1. pc[r] = "owner" /\ pc' = [pc EXCEPT ![r] = "answer"] /\ out' = out
    BY <1>1, <1>8 DEF OwnerCheck, Served
  <2>2. out[r] \in rows BY <2>1 DEF IInv, ChainInv, Answers, Follows
  <2>3. out[r] > 0 BY <2>2, RowsAreNumbers DEF IInv
  <2> QED BY <1>1, <1>2, <1>3, <2>1, <2>3, MovesOn
<1>9. CASE Lookup(r)
  <2>1. /\ pc[r] = "lookup" /\ pc' = [pc EXCEPT ![r] = "confirm"]
        /\ out' = [out EXCEPT ![r] = record[tok[r]].to]
    BY <1>9 DEF Lookup
  <2>2. tok[r] \notin live BY <1>1, <2>1 DEF UnderWay
  <2> QED BY <1>1, <1>2, <1>4, <2>1, <2>2, MovesOn
<1>10. CASE LookupNothing(r)
  <2>1. pc[r] = "lookup" /\ pc' = [pc EXCEPT ![r] = "reuse"] /\ out' = out BY <1>10 DEF LookupNothing
  <2>2. tok[r] \notin live BY <1>1, <2>1 DEF UnderWay
  <2>3. ~Recorded(tok[r]) BY <1>10 DEF LookupNothing, Fault
  <2>4. awaited # r BY <1>4, <1>6, <2>2, <2>3
  <2> QED BY <1>1, <1>2, <1>3, <2>1, <2>2, <2>4, MovesOn
<1>11. CASE Confirm(r)
  <2>1. pc[r] = "confirm" BY <1>11 DEF Confirm
  <2>2. tok[r] \notin live BY <1>1, <2>1 DEF UnderWay
  <2>3. CASE Reissuable(tok[r], out[r])
    <3>1. pc' = [pc EXCEPT ![r] = "owner"] /\ out' = out BY <1>11, <2>3 DEF Confirm
    <3> QED BY <1>1, <1>2, <1>3, <2>1, <3>1, MovesOn
  <2>4. CASE ~Reissuable(tok[r], out[r])
    <3>1. pc' = [pc EXCEPT ![r] = "reuse"] /\ out' = [out EXCEPT ![r] = Refused]
      BY <1>11, <2>4 DEF Confirm
    <3>2. awaited = r => out[r] = record[cookie].to BY <1>1, <1>4, <2>1 DEF Awaiting
    <3>3. awaited # r BY <1>4, <1>6, <2>2, <2>4, <3>2
    <3> QED BY <1>1, <1>2, <2>1, <2>2, <3>1, <3>3, MovesOn
  <2> QED BY <2>3, <2>4
<1>12. CASE Reuse(r)
  <2>1. pc[r] = "reuse" BY <1>1, <1>12 DEF Reuse, Served
  <2>2. tok[r] \notin live /\ now - retired[tok[r]] <= Grace BY <1>1, <2>1 DEF UnderWay
  <2>3. now \in Int /\ retired[tok[r]] \in Int /\ Grace \in Int
    BY SessionAssumption DEF IInv, TypeOK, Clock
  <2>4. ~(now - retired[tok[r]] > Grace) BY <2>2, <2>3
  <2>5. pc' = [pc EXCEPT ![r] = "superseded"] /\ out' = out BY <1>12, <2>1, <2>4 DEF Reuse
  <2>6. awaited # r BY <1>1, <1>4, <2>1 DEF Awaiting
  <2> QED BY <1>1, <1>2, <1>3, <2>1, <2>2, <2>5, <2>6, MovesOn
<1>13. CASE Superseded(r)
  <2>1. pc[r] = "superseded" /\ pc' = [pc EXCEPT ![r] = "answer"] BY <1>13 DEF Superseded
  <2>2. out' = [out EXCEPT ![r] = IF RotatedAway(tok[r]) THEN Kept ELSE Refused] BY <1>13 DEF Superseded
  <2>3. awaited # r BY <1>1, <1>4, <2>1 DEF Awaiting
  <2> QED BY <1>1, <1>2, <2>1, <2>2, <2>3, MovesOn
<1> QED BY <1>7, <1>8, <1>9, <1>10, <1>11, <1>12, <1>13

\* The browser sends its cookie, gives up waiting, or applies an answer.
LEMMA CalmBrowser ==
    ASSUME IInv, RecoveryOn, CalmInv, calm,
           Abandon \/ \E r \in Requests : Refresh(r) \/ Answer(r)
    PROVE  CalmInv'
<1>1. Served /\ OneBehind /\ Rotating /\ UnderWay /\ Awaiting BY DEF CalmInv
<1>2. /\ now' = now /\ live' = live /\ rows' = rows /\ retired' = retired /\ expires' = expires
      /\ record' = record /\ slow' = slow /\ active' = active
  BY DEF Abandon, Refresh, Answer, dbVars, redisVars
<1>3. cookie \in Tokens /\ retired[cookie] \in Int /\ cookie \in rows
  BY <1>1 DEF OneBehind, IInv, TypeOK, Clock, ChainInv, Presented
<1>4. now \in Int /\ Window \in Int /\ Grace \in Int BY SessionAssumption DEF IInv, TypeOK, Clock
<1>5. Requests \subseteq Procs /\ Ender \notin Requests /\ awaited \in Procs /\ Ender \in Procs
  BY SessionAssumption DEF Procs, IInv, TypeOK
<1>6. CASE Abandon
  <2>1. pc' = pc /\ tok' = tok /\ out' = out /\ cookie' = cookie /\ awaited' = Ender
    BY <1>6 DEF Abandon, reqVars
  <2>2. Served' BY <1>1, <1>2, <2>1 DEF Served
  <2>3. OneBehind' BY <1>1, <1>2, <2>1 DEF OneBehind, Newer
  <2>4. Rotating' BY <1>1, <1>2, <2>1 DEF Rotating, Holds, NextExpiry
  <2>5. UnderWay' BY <1>1, <1>2, <2>1 DEF UnderWay
  <2>6. Awaiting' BY <2>1 DEF Awaiting
  <2> QED BY <2>2, <2>3, <2>4, <2>5, <2>6 DEF CalmInv
<1>7. ASSUME NEW r \in Requests, Refresh(r) PROVE CalmInv'
  <2>1. out' = out /\ cookie' = cookie /\ awaited' = r /\ pc[r] = "idle" BY <1>7 DEF Refresh
  <2>2. pc'[r] = "rotate" /\ tok'[r] = cookie BY <1>5, <1>7 DEF Refresh, IInv, TypeOK
  <2>3. \A q \in Procs \ {r} : pc'[q] = pc[q] BY <1>7 DEF Refresh, IInv, TypeOK
  <2>4. \A q \in Requests \ {r} : tok'[q] = tok[q] BY <1>7 DEF Refresh, IInv, TypeOK
  <2>5. Served' BY <1>1, <1>2, <1>5, <2>2, <2>3 DEF Served
  <2>6. OneBehind' BY <1>1, <1>2, <2>1 DEF OneBehind, Newer
  <2>7. Rotating' BY <1>1, <1>2, <1>5, <2>1, <2>2, <2>3, <2>4 DEF Rotating, Holds, NextExpiry
  <2>8. UnderWay'
    <3>1. cookie \notin live => now - retired[cookie] <= Grace
      BY <1>1, <1>3, <1>4 DEF OneBehind, RecoveryOn
    <3>2. cookie <= cookie BY <1>3 DEF Tokens
    <3> QED BY <1>1, <1>2, <1>5, <2>1, <2>2, <2>3, <2>4, <3>1, <3>2 DEF UnderWay
  <2>9. Awaiting' BY <2>1, <2>2 DEF Awaiting
  <2> QED BY <2>5, <2>6, <2>7, <2>8, <2>9 DEF CalmInv
<1>8. ASSUME NEW r \in Requests, Answer(r) PROVE CalmInv'
  <2>1. pc[r] = "answer" /\ pc'[r] = "idle" BY <1>5, <1>8 DEF Answer, IInv, TypeOK
  <2>2. \A q \in Procs \ {r} : pc'[q] = pc[q] BY <1>8 DEF Answer, IInv, TypeOK
  <2>3. \A q \in Requests \ {r} : tok'[q] = tok[q] /\ out'[q] = out[q] BY <1>8 DEF Answer, IInv, TypeOK
  <2>4. Served' BY <1>1, <1>2, <1>5, <2>1, <2>2 DEF Served
  <2>5. Rotating' BY <1>1, <1>2, <1>5, <2>1, <2>2, <2>3 DEF Rotating, Holds, NextExpiry
  <2>6. CASE awaited # r
    <3>1. cookie' = cookie /\ awaited' = awaited BY <1>8, <2>6 DEF Answer
    <3>2. OneBehind' BY <1>1, <1>2, <3>1 DEF OneBehind, Newer
    <3>3. UnderWay' BY <1>1, <1>2, <1>5, <2>1, <2>2, <2>3, <3>1 DEF UnderWay
    <3>4. awaited # Ender => awaited \in Requests \ {r} /\ awaited \in Procs \ {r} BY <1>5, <2>6 DEF Procs
    <3>5. Awaiting' BY <1>1, <1>2, <2>2, <2>3, <3>1, <3>4 DEF Awaiting
    <3> QED BY <2>4, <2>5, <3>2, <3>3, <3>5 DEF CalmInv
  \* The answer is the live successor of the cookie.
  <2>7. CASE awaited = r
    <3>1. tok[r] = cookie /\ out[r] > 0 BY <1>1, <1>5, <2>1, <2>7 DEF Awaiting
    <3>2. out[r] \in rows /\ parent[out[r]] = cookie
      BY <2>1, <3>1 DEF IInv, ChainInv, Answers, Follows
    <3>3. out[r] \in Int /\ cookie \in Int /\ cookie >= 1 BY <1>3, <3>2, RowsAreNumbers DEF IInv
    <3>4. out[r] > cookie
      <4>1. out[r] # 1 BY <3>2, <3>3 DEF IInv, ChainInv, Line
      <4> QED BY <3>2, <3>3, <4>1 DEF IInv, ChainInv, Line
    <3>5. PICK l \in rows : live = {l} /\ l \in Int /\ \A s \in rows : s <= l BY <1>1, LiveRow
    <3>6. out[r] <= l BY <3>2, <3>5
    <3>7. cookie \notin live BY <3>3, <3>4, <3>5, <3>6
    <3>8. out[r] \in live BY <1>1, <3>2, <3>4, <3>7 DEF OneBehind, Newer
    <3>9. out[r] # Kept BY <3>1, <3>3 DEF Kept
    <3>10. cookie' = out[r] /\ awaited' = Ender BY <1>8, <2>7, <3>9 DEF Answer
    <3>11. OneBehind' BY <1>2, <3>1, <3>8, <3>10 DEF OneBehind, Refused
    <3>12. \A q \in Requests : tok[q] \in Int BY RowsAreNumbers DEF IInv, TypeOK
    <3>13. UnderWay'
      <4>1. \A q \in Requests \ {r} : pc[q] # "idle" => tok[q] <= out[r]
        BY <1>1, <3>3, <3>4, <3>12 DEF UnderWay
      <4> QED BY <1>1, <1>2, <1>5, <2>1, <2>2, <2>3, <3>10, <4>1 DEF UnderWay
    <3>14. Awaiting' BY <3>10 DEF Awaiting
    <3> QED BY <2>4, <2>5, <3>11, <3>13, <3>14 DEF CalmInv
  <2> QED BY <2>6, <2>7
<1> QED BY <1>6, <1>7, <1>8

\* The steps of a rotation.  Its token is the live row, so it is the cookie:
\* what it retires and records is exactly what the browser still holds.
LEMMA CalmRotation ==
    ASSUME IInv, RecoveryOn, CalmInv, calm, calm', NEW r \in Requests,
           Claim(r) \/ Remember(r) \/ Commit(r)
    PROVE  CalmInv'
<1>1. Served /\ OneBehind /\ Rotating /\ UnderWay /\ Awaiting BY DEF CalmInv
<1>2. PICK l \in rows : live = {l} /\ l \in Int /\ \A s \in rows : s <= l BY <1>1, LiveRow
<1>3. now' = now /\ slow' = slow /\ active' = active /\ tok' = tok /\ cookie' = cookie /\ awaited' = awaited
  BY DEF Claim, Remember, Commit, redisVars, browserVars, RecoveryOn, Fault
<1>4. PICK y \in {"claimed", "recorded", "owner"} : pc' = [pc EXCEPT ![r] = y]
  BY DEF Claim, Remember, Commit
<1>5. Requests \subseteq Procs /\ Ender \notin Requests /\ awaited \in Procs /\ Ender \in Procs
  BY SessionAssumption DEF Procs, IInv, TypeOK
<1>6. pc'[r] = y /\ \A q \in Procs \ {r} : pc'[q] = pc[q] BY <1>4, <1>5 DEF IInv, TypeOK
<1>7. /\ now \in Int /\ Window \in Int /\ Grace \in Int /\ Ttl \in Int /\ AbsoluteMax \in Int
      /\ Ttl > 0 /\ Window > 0 /\ Window <= Grace
  BY SessionAssumption DEF IInv, TypeOK, Clock, RecoveryOn
<1>8. \A t \in Tokens : retired[t] \in Int BY DEF IInv, TypeOK, Clock
<1>9. rows \subseteq Tokens /\ Tokens \subseteq Int /\ \A q \in Requests : tok[q] \in rows
  BY RowsAreNumbers DEF IInv, TypeOK, ChainInv, Presented
<1>10. cookie \in rows /\ cookie # Refused BY <1>1 DEF OneBehind, IInv, ChainInv, Presented
<1>11. pc[r] \in {"rotate", "claimed", "recorded"} BY DEF Claim, Remember, Commit
<1>12. tok[r] = l
  <2>1. tok[r] \in live BY DEF Claim, Claimable, Remember, Commit, IInv, ChainInv, OneLock, Holds
  <2> QED BY <1>2, <2>1
<1>13. cookie = l
  <2>1. tok[r] <= cookie BY <1>1, <1>11 DEF UnderWay
  <2>2. cookie <= l /\ cookie \in Int BY <1>2, <1>9, <1>10
  <2> QED BY <1>2, <1>12, <2>1, <2>2
\* Nobody else holds a lock.
<1>14. \A q \in Requests \ {r} : ~Holds(q) /\ ~Holds(q)'
  <2>1. \A q \in Requests \ {r} : ~Holds(q)
    <3>1. CASE Claim(r) BY <1>2, <1>12, <3>1 DEF Claim, Locked, IInv, ChainInv, OneLock
    <3>2. CASE Remember(r) \/ Commit(r) BY <3>2 DEF Remember, Commit, Holds, IInv, ChainInv, OneLock
    <3> QED BY <3>1, <3>2
  <2> QED BY <1>5, <1>6, <2>1 DEF Holds
<1>15. awaited = r \/ awaited = Ender \/ awaited \in Requests \ {r} BY <1>5 DEF Procs
<1>16. CASE Claim(r)
  <2>1. /\ live' = live /\ rows' = rows /\ expires' = expires /\ record' = record /\ out' = out
        /\ pc'[r] = "claimed" /\ retired' = [retired EXCEPT ![l] = now]
    BY <1>5, <1>12, <1>16 DEF Claim, redisVars, IInv, TypeOK
  <2>2. retired'[l] = now /\ \A t \in Tokens \ {l} : retired'[t] = retired[t]
    BY <1>9, <2>1 DEF IInv, TypeOK
  <2>3. Served' BY <1>1, <1>3, <1>5, <1>6, <2>1 DEF Served
  <2>4. OneBehind' BY <1>2, <1>3, <1>10, <1>13, <2>1 DEF OneBehind
  <2>5. Rotating'
    <3>1. now < AbsoluteMax => now < Smaller(now + Ttl, AbsoluteMax) BY <1>7 DEF Smaller
    <3>2. now < now + Window /\ now <= now BY <1>7
    <3> QED BY <1>3, <1>12, <1>14, <2>1, <2>2, <3>1, <3>2 DEF Rotating, Holds, NextExpiry
  <2>6. UnderWay' BY <1>1, <1>2, <1>3, <1>5, <1>6, <1>9, <1>11, <1>12, <2>1, <2>2 DEF UnderWay
  <2>7. Awaiting' BY <1>1, <1>3, <1>5, <1>6, <1>15, <2>1 DEF Awaiting
  <2> QED BY <2>3, <2>4, <2>5, <2>6, <2>7 DEF CalmInv
<1>17. CASE Remember(r)
  <2>1. /\ live' = live /\ rows' = rows /\ expires' = expires /\ retired' = retired
        /\ pc[r] = "claimed" /\ pc'[r] = "recorded" /\ retired[l] < AbsoluteMax
    BY <1>5, <1>12, <1>17 DEF Remember, IInv, TypeOK
  <2>2. record' = [record EXCEPT ![l] = [to |-> minted + 1, until |-> now + Window]]
    BY <1>7, <1>12, <1>17 DEF Remember, Fault
  <2>3. out' = [out EXCEPT ![r] = minted + 1] BY <1>17 DEF Remember
  <2>4. out'[r] = minted + 1 /\ \A q \in Requests \ {r} : out'[q] = out[q] BY <2>3 DEF IInv, TypeOK
  <2>5. record'[l] = [to |-> minted + 1, until |-> now + Window] /\ l \in Tokens
    BY <1>9, <2>2 DEF IInv, TypeOK
  <2>6. record'[l].to = minted + 1 /\ record'[l].until = now + Window BY <2>5
  <2>7. retired[l] <= now BY <1>1, <1>12, <2>1 DEF Rotating, Holds
  <2>8. Served' BY <1>1, <1>3, <1>5, <1>6, <2>1 DEF Served
  <2>9. OneBehind' BY <1>2, <1>3, <1>10, <1>13, <2>1 DEF OneBehind
  <2>10. Rotating'
    <3>1. retired[l] <= now /\ now < retired[l] + Window /\ now < NextExpiry(l)
      BY <1>1, <1>12, <2>1 DEF Rotating, Holds
    <3>2. retired[l] + Window <= now + Window BY <1>7, <1>8, <2>5, <2>7
    <3> QED BY <1>3, <1>12, <1>14, <2>1, <2>4, <2>6, <3>1, <3>2 DEF Rotating, Holds, NextExpiry
  <2>11. UnderWay' BY <1>1, <1>3, <1>5, <1>6, <1>11, <2>1 DEF UnderWay
  <2>12. Awaiting'
    <3>1. CASE awaited \in Requests \ {r}
      <4>1. pc[awaited] # "confirm" BY <1>1, <1>2, <1>5, <1>13, <3>1 DEF Awaiting, UnderWay
      <4> QED BY <1>1, <1>3, <1>5, <1>6, <2>4, <3>1, <4>1 DEF Awaiting
    <3>2. CASE awaited = r BY <1>1, <1>3, <1>5, <2>1, <3>2 DEF Awaiting
    <3> QED BY <1>3, <1>15, <3>1, <3>2 DEF Awaiting
  <2> QED BY <2>8, <2>9, <2>10, <2>11, <2>12 DEF CalmInv
<1>18. CASE Commit(r)
  <2>1. /\ rows' = rows \cup {out[r]} /\ out' = out /\ record' = record /\ retired' = retired
        /\ pc[r] = "recorded" /\ pc'[r] = "owner"
        /\ expires' = [expires EXCEPT ![out[r]] = NextExpiry(l)]
    BY <1>5, <1>12, <1>18 DEF Commit, redisVars, IInv, TypeOK
  <2>2. out[r] \in Tokens /\ (\A s \in rows : s < out[r]) BY <2>1 DEF IInv, ChainInv, OneLock
  <2>3. live' = {out[r]} BY <1>2, <1>12, <1>18 DEF Commit
  <2>4. out[r] \in Int /\ l \in Tokens /\ out[r] \notin rows
    <3>1. out[r] \in Int /\ l \in Tokens BY <1>9, <2>2
    <3>2. ~(out[r] < out[r]) BY <3>1
    <3> QED BY <2>2, <3>1, <3>2
  <2>5. /\ now < retired[l] + Window /\ now < NextExpiry(l) /\ record[l].to = out[r]
        /\ retired[l] + Window <= record[l].until
    BY <1>1, <1>12, <2>1 DEF Rotating, Holds
  <2>6. expires'[out[r]] = NextExpiry(l) BY <2>1, <2>2 DEF IInv, TypeOK
  <2>7. NextExpiry(l) \in Int BY <1>7, <1>8, <2>4 DEF NextExpiry, Smaller
  <2>8. Served'
    <3>1. \A t \in live' : expires'[t] > now BY <1>7, <2>3, <2>5, <2>6, <2>7
    <3> QED BY <1>1, <1>3, <1>5, <1>6, <2>1, <2>3, <3>1 DEF Served
  <2>9. OneBehind'
    <3>0. l < out[r] /\ \A s \in rows : ~(s > l)
      <4>1. \A s \in rows : s \in Int /\ s <= l BY <1>2, <1>9
      <4> QED BY <1>2, <2>2, <4>1
    <3>1. Newer(l)' = {out[r]}
      <4>1. \A s \in rows' : s > l <=> s = out[r] BY <1>2, <2>1, <2>4, <3>0
      <4> QED BY <2>1, <4>1 DEF Newer
    <3>2. Newer(cookie)' = {out[r]} BY <1>3, <1>13, <3>1 DEF Newer
    <3> QED BY <1>3, <1>10, <1>13, <2>1, <2>3, <2>5, <3>2 DEF OneBehind
  <2>10. Rotating'
    <3>1. ~Holds(r)' BY <2>1 DEF Holds
    <3> QED BY <1>14, <3>1 DEF Rotating, Holds
  <2>11. UnderWay'
    <3>1. now - retired[l] <= Grace BY <1>7, <1>8, <2>4, <2>5
    <3>2. \A q \in Requests : tok[q] \notin live' BY <1>9, <2>3, <2>4
    <3> QED BY <1>1, <1>2, <1>3, <1>5, <1>6, <1>11, <1>12, <2>1, <3>1, <3>2 DEF UnderWay
  <2>12. Awaiting' BY <1>1, <1>3, <1>5, <1>6, <1>15, <2>1 DEF Awaiting
  <2> QED BY <2>8, <2>9, <2>10, <2>11, <2>12 DEF CalmInv
<1> QED BY <1>16, <1>17, <1>18

\* Time passes, with the browser and the requests as prompt as Prompt demands:
\* no record that is still needed is dropped.
LEMMA CalmTick ==
    ASSUME IInv, RecoveryOn, CalmInv, calm, calm', Tick
    PROVE  CalmInv'
<1>1. Served /\ OneBehind /\ Rotating /\ UnderWay /\ Awaiting BY DEF CalmInv
<1>2. Prompt(now + 1) /\ now' = now + 1 BY DEF Tick
<1>3. /\ live' = live /\ rows' = rows /\ retired' = retired /\ expires' = expires /\ slow' = slow
      /\ active' = active /\ pc' = pc /\ tok' = tok /\ out' = out /\ cookie' = cookie /\ awaited' = awaited
  BY DEF Tick, dbVars, reqVars, browserVars
<1>4. /\ now \in Int /\ Window \in Int /\ Grace \in Int /\ \A t \in Tokens : retired[t] \in Int
      /\ \A t \in Tokens : expires[t] \in Int /\ record[t].until \in Int
  BY SessionAssumption DEF IInv, TypeOK, Clock, Records
<1>5. \A t \in Tokens : ~(record[t].until <= now + 1) => record'[t] = record[t] BY DEF Tick
<1>6. cookie \in Tokens /\ live \subseteq Tokens BY <1>1 DEF OneBehind, IInv, TypeOK
<1>7. \A r \in Requests : tok[r] \in Tokens BY DEF IInv, TypeOK
<1>8. cookie \notin live => now + 1 < retired[cookie] + Window /\ record'[cookie] = record[cookie]
  <2> SUFFICES ASSUME cookie \notin live
               PROVE  now + 1 < retired[cookie] + Window /\ record'[cookie] = record[cookie]
    OBVIOUS
  <2>1. (now + 1) - retired[cookie] < Window BY <1>1, <1>2 DEF Prompt, OneBehind
  <2>2. now + 1 < retired[cookie] + Window BY <1>4, <1>6, <2>1
  <2>3. retired[cookie] + Window <= record[cookie].until BY <1>1 DEF OneBehind
  <2> QED BY <1>4, <1>5, <1>6, <2>2, <2>3
<1>9. Served' BY <1>1, <1>2, <1>3 DEF Served, Prompt
<1>10. OneBehind' BY <1>1, <1>2, <1>3, <1>8 DEF OneBehind, Newer
<1>11. Rotating'
  <2>1. ASSUME NEW r \in Requests, Holds(r)
        PROVE  /\ retired[tok[r]] <= now + 1 /\ now + 1 < retired[tok[r]] + Window
               /\ now + 1 < NextExpiry(tok[r])
    <3>1. (now + 1) - retired[tok[r]] < Window /\ now + 1 < NextExpiry(tok[r])
      BY <1>2, <2>1 DEF Prompt
    <3>2. retired[tok[r]] <= now BY <1>1, <2>1 DEF Rotating
    <3> QED BY <1>4, <1>7, <3>1, <3>2
  <2>2. ASSUME NEW r \in Requests, pc[r] = "recorded" PROVE record'[tok[r]] = record[tok[r]]
    <3>1. now + 1 < retired[tok[r]] + Window BY <2>1, <2>2 DEF Holds
    <3>2. retired[tok[r]] + Window <= record[tok[r]].until BY <1>1, <2>2 DEF Rotating
    <3> QED BY <1>4, <1>5, <1>7, <3>1, <3>2
  <2> QED BY <1>1, <1>2, <1>3, <2>1, <2>2 DEF Rotating, Holds, NextExpiry
<1>12. UnderWay' BY <1>1, <1>2, <1>3 DEF UnderWay, Prompt
<1>13. Awaiting'
  <2>1. awaited # Ender /\ pc[awaited] = "confirm" => cookie \notin live
    BY <1>1 DEF Awaiting, UnderWay, IInv, TypeOK, Procs
  <2> QED BY <1>1, <1>3, <1>8, <2>1 DEF Awaiting
<1> QED BY <1>9, <1>10, <1>11, <1>12, <1>13 DEF CalmInv

\* Every step keeps the invariant of a calm session.
LEMMA NextCalm == ASSUME RecoveryOn PROVE IInv /\ CalmInv /\ [Next]_vars => CalmInv'
<1> SUFFICES ASSUME IInv, CalmInv, [Next]_vars, calm' PROVE CalmInv' BY DEF CalmInv
<1>1. CASE UNCHANGED vars
  BY <1>1 DEF vars, CalmInv, Served, OneBehind, Rotating, UnderWay, Awaiting, Holds, Newer, NextExpiry,
     dbVars, redisVars, browserVars, reqVars, history
<1>2. CASE Next
  <2>1. calm
    BY <1>2 DEF Next, RequestStep, Refresh, Answer, Claim, ClaimNothing, ClaimPastMaximum, Remember, Commit,
       Fail, OwnerCheck, Lookup, LookupForeign, LookupNothing, Confirm, Reuse, Superseded, RevokeBegin,
       RevokeEnd, Abandon, SlowWrite, End, EndDone, Tick, Fault, history
  <2>2. Served BY <2>1 DEF CalmInv
  <2>3. ~EndDone /\ ~RevokeBegin(Ender) /\ ~(\E w \in slow : SlowWrite(w))
    BY <2>2 DEF Served, EndDone, RevokeRows, RevokeBegin
  <2>4. ~(\E how \in Endings : End(how)) BY DEF End
  <2>5. ASSUME NEW r \in Requests
        PROVE  /\ ~ClaimPastMaximum(r) /\ ~Fail(r) /\ ~LookupForeign(r)
               /\ ~RevokeBegin(r) /\ ~RevokeEnd(r)
    BY <2>2 DEF Served, ClaimPastMaximum, Fail, LookupForeign, RevokeBegin, RevokeEnd, RevokeRows, Fault
  <2>6. CASE Tick BY <2>1, <2>6, CalmTick
  <2>7. CASE Abandon BY <2>1, <2>7, CalmBrowser
  <2>8. ASSUME NEW r \in Requests, RequestStep(r) PROVE CalmInv'
    <3>1. CASE Refresh(r) \/ Answer(r) BY <2>1, <3>1, CalmBrowser
    <3>2. CASE Claim(r) \/ Remember(r) \/ Commit(r) BY <2>1, <3>2, CalmRotation
    <3>3. CASE \/ ClaimNothing(r) \/ OwnerCheck(r) \/ Lookup(r) \/ LookupNothing(r)
               \/ Confirm(r) \/ Reuse(r) \/ Superseded(r)
      BY <2>1, <3>3, CalmProgress
    <3> QED BY <2>5, <2>8, <3>1, <3>2, <3>3 DEF RequestStep
  <2> QED BY <1>2, <2>3, <2>4, <2>6, <2>7, <2>8 DEF Next
<1> QED BY <1>1, <1>2

\* A calm session gives its browser what it asked for.
LEMMA CalmKeepsSession == ASSUME RecoveryOn PROVE IInv /\ CalmInv => PromptRetryKeepsSession
<1> SUFFICES ASSUME IInv, CalmInv, calm
             PROVE  /\ awaited # Ender /\ pc[awaited] = "answer" => out[awaited] > 0
                    /\ cookie # Refused
                    /\ \/ cookie \in live
                       \/ Recorded(cookie) /\ Reissuable(cookie, record[cookie].to)
  BY DEF PromptRetryKeepsSession
<1>1. Served /\ OneBehind /\ Awaiting BY DEF CalmInv
<1>2. cookie \notin live => Recorded(cookie) /\ Reissuable(cookie, record[cookie].to)
  <2> SUFFICES ASSUME cookie \notin live
               PROVE  Recorded(cookie) /\ Reissuable(cookie, record[cookie].to)
    OBVIOUS
  <2>1. /\ Newer(cookie) = {record[cookie].to} /\ record[cookie].to \in live
        /\ now < retired[cookie] + Window /\ cookie \in Tokens
    BY <1>1 DEF OneBehind, IInv, TypeOK
  <2>2. now \in Int /\ retired[cookie] \in Int /\ Window \in Int
    BY <2>1, SessionAssumption DEF IInv, TypeOK, Clock
  <2>3. record[cookie].to # 0 BY <2>1, RowsAreNumbers DEF IInv, TypeOK
  <2>4. expires[record[cookie].to] > now BY <1>1, <2>1 DEF Served
  <2> QED BY <2>1, <2>2, <2>3, <2>4 DEF Recorded, NoRecord, Reissuable
<1> QED BY <1>1, <1>2 DEF OneBehind, Awaiting

\* With the recovery on and a window within the grace, a prompt browser is
\* never refused and never left behind, for any number of overlapping requests
\* and lost answers, any window, and any session lengths.
THEOREM PromptRetryKeepsSessionAlways ==
    ASSUME RecoveryOn PROVE Spec => []PromptRetryKeepsSession
<1>1. Init => CalmInv BY InitCalm
<1>2. IInv /\ CalmInv /\ [Next]_vars => CalmInv' BY NextCalm
<1>3. IInv /\ CalmInv => PromptRetryKeepsSession BY CalmKeepsSession
<1> QED BY <1>1, <1>2, <1>3, InitIInv, NextIInv, PTL DEF Spec
============================================================================
