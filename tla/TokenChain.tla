----------------------------- MODULE TokenChain -----------------------------
(***************************************************************************)
(* What the refresh tokens of one session promise, without requests, row   *)
(* locks, Redis records, retries or clocks: at any time one token at most  *)
(* is worth anything.  It is exchanged for a token never seen before, or   *)
(* it dies, and either way it is SPENT for good.  Nothing follows a dead   *)
(* session.                                                                *)
(***************************************************************************)
CONSTANTS
    Tokens,   \* the tokens a session may use
    First,    \* the token it began with
    None      \* no token

VARIABLES
    token,    \* the token that is worth something, or None
    spent,    \* the tokens that no longer are
    from      \* from[t]: the token t was exchanged for, None for the first

vars == <<token, spent, from>>

Init ==
    /\ token = First
    /\ spent = {}
    /\ from = [t \in Tokens |-> None]

Exchange(t) ==
    /\ token # None /\ t \notin spent \cup {token}
    /\ token' = t
    /\ spent' = spent \cup {token}
    /\ from' = [from EXCEPT ![t] = token]

Die ==
    /\ token # None
    /\ token' = None
    /\ spent' = spent \cup {token}
    /\ UNCHANGED from

Next == Die \/ \E t \in Tokens : Exchange(t)

Spec == Init /\ [][Next]_vars

-----------------------------------------------------------------------------
\* A session without a token never has one again.
DeadStaysDead == [][token = None => token' = None]_vars

\* A spent token stays spent: it is never the session's token again.
SpentStaysSpent ==
    [][spent \subseteq spent' /\ (token' # None => token' \notin spent)]_vars
=============================================================================
