---------------------------- MODULE DigestProofs ----------------------------
(***************************************************************************)
(* What Digest guarantees for any number of items, windows and senders.    *)
(***************************************************************************)
EXTENDS Digest, TLAPS

USE DEF time, mail

(* A sender that is at work holds the claim of an open window that has     *)
(* ended, with at least one item, and alone.                               *)
SenderInv ==
    \A s \in Senders :
        /\ sender[s].pc = "idle" => sender[s] = Idle
        /\ sender[s].pc # "idle" =>
             /\ sender[s].window \in 1..clock
             /\ sender[s].items # {}
             /\ digest[sender[s].window] = [state |-> "open", claim |-> "held"]

(* Rows are attached once: one that is being attached is in no window yet. *)
AttachInv ==
    /\ \A i \in Items : item[i].state = "pending" => item[i].window = 0
    /\ \A a \in attach : item[a.item].state = "pending"
    /\ \A a, b \in attach : a.item = b.item => a = b

(* Emails, sent or being sent, hold items of their own window, and an      *)
(* email that was sent holds what its sender had planned.                  *)
EmailInv ==
    /\ \A d \in Windows : \A i \in emailed[d] : item[i].window = d
    /\ \A s \in Senders : \A i \in sender[s].items : item[i].window = sender[s].window
    /\ \A s \in Senders : sender[s].pc = "sent" => sender[s].items \subseteq emailed[sender[s].window]

(* A closed window has ended; what waits in a window whose email is on its *)
(* way is in that email, or late.                                          *)
WindowInv ==
    /\ \A d \in Windows : digest[d].state \in {"sent", "empty"} => d <= clock
    /\ \A s \in Senders : sender[s].pc # "idle" =>
         Deferred(sender[s].window) \subseteq sender[s].items \cup late

(* The inductive invariant. *)
IInv ==
    /\ TypeOK
    /\ OneSender
    /\ SenderInv
    /\ AttachInv
    /\ EmailInv
    /\ SentMeansEmailed
    /\ WindowInv
    /\ NothingLeftBehind
-----------------------------------------------------------------------------
LEMMA InitIInv == Init => IInv
<1> SUFFICES ASSUME Init PROVE IInv
  OBVIOUS
<1>o. onEnd \in BOOLEAN
  BY DEF Init
<1> USE ConstantsAssumption DEF Init, Idle, Windows
<1>1. TypeOK
  BY <1>o DEF TypeOK, Window, Item, Sender
<1>2. OneSender /\ SenderInv /\ AttachInv /\ EmailInv
  BY DEF OneSender, SenderInv, AttachInv, EmailInv
<1>3. SentMeansEmailed /\ WindowInv /\ NothingLeftBehind
  BY DEF SentMeansEmailed, WindowInv, NothingLeftBehind
<1> QED
  BY <1>1, <1>2, <1>3 DEF IInv

(* What a step does to the digests' world, by kind. *)
LEMMA ActionCases ==
    ASSUME Next
    PROVE  \/ Tick
           \/ EndPasses
           \/ \E a \in attach : AttachCommit(a)
           \/ \E d \in Windows : Expire(d)
           \/ \E i \in Items : AttachRead(i)
           \/ \E i \in Items : ForgetEntity(i)
           \/ \E s \in Senders, d \in Windows : PlanEmpty(s, d)
           \/ \E s \in Senders, d \in Windows : PlanSend(s, d)
           \/ \E s \in Senders : Send(s)
           \/ \E s \in Senders : ReleaseDigestClaim(s)
           \/ \E s \in Senders : RecordSent(s)
           \/ \E s \in Senders : SendError(s)
           \/ \E s \in Senders : Crash(s)
  BY DEF Next, HourlyRun, Finish

(* PlanSend decides which rows fail, which are silenced and which are sent. *)
LEMMA PlanSendShape ==
    ASSUME IInv, NEW s \in Senders, NEW d \in Windows, PlanSend(s, d)
    PROVE  \E included \in SUBSET Deferred(d) :
             /\ item' \in [Items -> Item]
             /\ \A i \in Items : item'[i].window = item[i].window
             /\ \A i \in Items : i \notin Deferred(d) \/ i \in included => item'[i] = item[i]
             /\ \A i \in Deferred(d) \ included : item'[i].state \in {"failed", "dispatched"}
             /\ IF included = {}
                THEN digest' = ClosedEmpty(d) /\ sender' = sender
                ELSE /\ digest' = [digest EXCEPT ![d].claim = "held"]
                     /\ sender' = [sender EXCEPT ![s] =
                                     [pc |-> "sending", window |-> d, items |-> included]]
<1>1. PICK unknown \in SUBSET Deferred(d), silenced \in SUBSET Deferred(d) :
        /\ unknown \cap silenced = {}
        /\ LET included == Deferred(d) \ (unknown \cup silenced) IN
           /\ item' = [i \in Items |-> CASE i \in unknown  -> [item[i] EXCEPT !.state = "failed"]
                                         [] i \in silenced -> [item[i] EXCEPT !.state = "dispatched"]
                                         [] OTHER          -> item[i]]
           /\ IF included = {}
              THEN digest' = ClosedEmpty(d) /\ UNCHANGED sender
              ELSE /\ digest' = [digest EXCEPT ![d].claim = "held"]
                   /\ sender' = [sender EXCEPT ![s] =
                                   [pc |-> "sending", window |-> d, items |-> included]]
  BY DEF PlanSend
<1> DEFINE included == Deferred(d) \ (unknown \cup silenced)
<1>2. item \in [Items -> Item]
  BY DEF IInv, TypeOK
<1>3. ASSUME NEW i \in Items
      PROVE  item'[i] = IF i \in unknown THEN [item[i] EXCEPT !.state = "failed"]
                        ELSE IF i \in silenced THEN [item[i] EXCEPT !.state = "dispatched"]
                        ELSE item[i]
  <2>1. item' = [j \in Items |-> CASE j \in unknown  -> [item[j] EXCEPT !.state = "failed"]
                                   [] j \in silenced -> [item[j] EXCEPT !.state = "dispatched"]
                                   [] OTHER          -> item[j]]
    BY <1>1
  <2>2. item'[i] = CASE i \in unknown  -> [item[i] EXCEPT !.state = "failed"]
                     [] i \in silenced -> [item[i] EXCEPT !.state = "dispatched"]
                     [] OTHER          -> item[i]
    BY <2>1
  <2>3. unknown \cap silenced = {}
    BY <1>1
  <2> QED
    BY <2>2, <2>3
<1>4. item' \in [Items -> Item] /\ \A i \in Items : item'[i].window = item[i].window
  <2>1. \A i \in Items : item'[i] \in Item /\ item'[i].window = item[i].window
    BY <1>2, <1>3 DEF Item, Settled
  <2> QED
    BY <1>1, <2>1
<1>5. /\ \A i \in Items : i \notin Deferred(d) \/ i \in included => item'[i] = item[i]
      /\ \A i \in Deferred(d) \ included : item'[i].state \in {"failed", "dispatched"}
  <2>1. Deferred(d) \subseteq Items
    BY DEF Deferred
  <2>2. ASSUME NEW i \in Items, i \in unknown \cup silenced
        PROVE  item'[i].state \in {"failed", "dispatched"}
    BY <1>2, <1>3, <2>2 DEF Item
  <2> QED
    BY <1>3, <2>1, <2>2
<1>6. included \in SUBSET Deferred(d)
  OBVIOUS
<1> QED
  BY <1>1, <1>4, <1>5, <1>6
(* Time passes: more windows have ended. *)
LEMMA TickStep ==
    ASSUME IInv, Tick \/ EndPasses
    PROVE  IInv'
<1>o. onEnd' \in BOOLEAN
  BY DEF Tick, EndPasses
<1> USE ConstantsAssumption DEF IInv, TypeOK, Windows, Sender, Tick, EndPasses
<1>c. /\ clock' \in 0..MaxWindow
      /\ UNCHANGED <<digest, item, attach, sender, emailed, sends, late, faults>>
  OBVIOUS
<1>1. TypeOK'
  BY <1>o, <1>c
<1>2. OneSender'
  BY DEF OneSender
<1>3. SenderInv'
  BY DEF SenderInv
<1>4. AttachInv'
  BY DEF AttachInv
<1>5. EmailInv'
  BY DEF EmailInv
<1>6. SentMeansEmailed'
  BY DEF SentMeansEmailed
<1>7. WindowInv'
  BY DEF WindowInv, Deferred
<1>8. NothingLeftBehind'
  BY DEF NothingLeftBehind, Deferred
<1> QED
  BY <1>1, <1>2, <1>3, <1>4, <1>5, <1>6, <1>7, <1>8 DEF IInv

(* The claim of a window without a sender runs out. *)
LEMMA ExpireStep ==
    ASSUME IInv, NEW d \in Windows, Expire(d)
    PROVE  IInv'
<1> USE ConstantsAssumption DEF IInv, TypeOK, Windows, Window, Sender, Expire
<1>1. TypeOK'
  BY DEF TypeOK, Window, Item, Sender, Settled
<1>2. OneSender'
  BY DEF OneSender
<1>3. SenderInv'
  BY DEF SenderInv
<1>4. AttachInv'
  BY DEF AttachInv
<1>5. EmailInv'
  BY DEF EmailInv
<1>6. SentMeansEmailed'
  BY DEF SentMeansEmailed
<1>7. WindowInv'
  BY DEF WindowInv, Deferred
<1>8. NothingLeftBehind'
  BY DEF NothingLeftBehind, Deferred
<1> QED
  BY <1>1, <1>2, <1>3, <1>4, <1>5, <1>6, <1>7, <1>8 DEF IInv

(* A row that is in no window and is not being attached is read. *)
LEMMA AttachReadStep ==
    ASSUME IInv, NEW i \in Items, AttachRead(i)
    PROVE  IInv'
<1> USE ConstantsAssumption DEF IInv, TypeOK, Windows, AttachRead, AttachTo, CurrentWindow, Attaching
<1>1. TypeOK'
  BY DEF TypeOK, Window, Item, Sender, Settled
<1>2. OneSender'
  BY DEF OneSender
<1>3. SenderInv'
  BY DEF SenderInv
<1>4. AttachInv'
  BY DEF AttachInv
<1>5. EmailInv'
  BY DEF EmailInv
<1>6. SentMeansEmailed'
  BY DEF SentMeansEmailed
<1>7. WindowInv'
  BY DEF WindowInv, Deferred
<1>8. NothingLeftBehind'
  BY DEF NothingLeftBehind, Deferred
<1> QED
  BY <1>1, <1>2, <1>3, <1>4, <1>5, <1>6, <1>7, <1>8 DEF IInv

(* A row that nobody is attaching is settled. *)
LEMMA ForgetStep ==
    ASSUME IInv, NEW i \in Items, ForgetEntity(i)
    PROVE  IInv'
<1> USE ConstantsAssumption DEF IInv, TypeOK, Windows, Item, Settled, ForgetEntity, Attaching
<1>1. TypeOK'
  BY DEF TypeOK, Window, Item, Sender, Settled
<1>2. OneSender'
  BY DEF OneSender
<1>3. SenderInv'
  BY DEF SenderInv
<1>4. AttachInv'
  BY DEF AttachInv
<1>5. EmailInv'
  BY DEF EmailInv
<1>6. SentMeansEmailed'
  BY DEF SentMeansEmailed
<1>7. WindowInv'
  BY DEF WindowInv, Deferred
<1>8. NothingLeftBehind'
  BY DEF NothingLeftBehind, Deferred
<1> QED
  BY <1>1, <1>2, <1>3, <1>4, <1>5, <1>6, <1>7, <1>8 DEF IInv

(* A sender hands its email to the provider, or fails, or dies. *)
LEMMA WorkStep ==
    ASSUME IInv, NEW s \in Senders, Send(s) \/ SendError(s) \/ Crash(s)
    PROVE  IInv'
<1> USE DEF IInv
<1>a. /\ sender[s].pc # "idle"
      /\ UNCHANGED <<clock, onEnd, digest, item, attach, late>>
      /\ faults' \in 0..MaxFaults
  BY ConstantsAssumption DEF Send, SendError, Crash, Fault, SenderInv, Idle, TypeOK
<1>b. /\ sender' \in [Senders -> Sender]
      /\ \A t \in Senders \ {s} : sender'[t] = sender[t]
      /\ \/ sender'[s] = Idle
         \/ /\ sender'[s].pc \in {"sent", "refused"}
            /\ sender'[s].window = sender[s].window /\ sender'[s].items = sender[s].items
  <2>1. sender \in [Senders -> Sender] /\ Idle \in Sender
    BY ConstantsAssumption DEF TypeOK, Sender, Idle
  <2>2. \/ sender' = [sender EXCEPT ![s] = Idle]
        \/ sender' = [sender EXCEPT ![s] = [sender[s] EXCEPT !.pc = "sent"]]
        \/ sender' = [sender EXCEPT ![s] = [sender[s] EXCEPT !.pc = "refused"]]
    BY <2>1 DEF Send, SendError, Crash
  <2>3. /\ [sender[s] EXCEPT !.pc = "sent"] \in Sender
        /\ [sender[s] EXCEPT !.pc = "refused"] \in Sender
    BY <2>1 DEF Sender
  <2> QED
    BY <2>1, <2>2, <2>3 DEF Sender
<1>c. /\ emailed' \in [Windows -> SUBSET Items] /\ sends' \in [Windows -> Nat]
      /\ \A d \in Windows : emailed[d] \subseteq emailed'[d]
      /\ \A d \in Windows : \A i \in emailed'[d] :
           i \in emailed[d] \/ (d = sender[s].window /\ i \in sender[s].items)
  <2>1. sender[s].window \in Windows /\ sender[s].items \subseteq Items
    BY <1>a, ConstantsAssumption DEF SenderInv, TypeOK, Sender, Windows
  <2>2. UNCHANGED mail \/ Accept(sender[s].window, sender[s].items)
    BY DEF Send, SendError, Crash
  <2>3. CASE UNCHANGED mail
    BY <2>3 DEF TypeOK
  <2>4. CASE Accept(sender[s].window, sender[s].items)
    BY <2>1, <2>4 DEF Accept, TypeOK
  <2> QED
    BY <2>2, <2>3, <2>4
<1>d. sender'[s].pc = "sent" => sender[s].items \subseteq emailed'[sender[s].window]
  <2>1. CASE Send(s)
    BY <1>a, <2>1 DEF Send, Accept, TypeOK, Sender, SenderInv, Windows
  <2>2. CASE SendError(s) \/ Crash(s)
    <3>1. \/ sender' = [sender EXCEPT ![s] = Idle]
          \/ sender' = [sender EXCEPT ![s] = [sender[s] EXCEPT !.pc = "refused"]]
      BY <2>2 DEF SendError, Crash, TypeOK
    <3>2. sender \in [Senders -> Sender]
      BY DEF TypeOK
    <3> QED
      BY <3>1, <3>2 DEF Sender, Idle
  <2> QED
    BY <2>1, <2>2
<1>1. TypeOK'
  BY <1>a, <1>b, <1>c DEF TypeOK
<1>2. OneSender'
  BY <1>a, <1>b DEF OneSender, Idle
<1>3. SenderInv'
  BY <1>a, <1>b DEF SenderInv, Idle
<1>4. AttachInv'
  BY <1>a DEF AttachInv
<1>5. EmailInv'
  <2>1. \A d \in Windows : \A i \in emailed'[d] : item[i].window = d
    BY <1>c DEF EmailInv
  <2>2. \A t \in Senders : \A i \in sender'[t].items : item[i].window = sender'[t].window
    BY <1>b DEF EmailInv, Idle
  <2>3. \A t \in Senders : sender'[t].pc = "sent" =>
          sender'[t].items \subseteq emailed'[sender'[t].window]
    <3> SUFFICES ASSUME NEW t \in Senders, sender'[t].pc = "sent"
                 PROVE  sender'[t].items \subseteq emailed'[sender'[t].window]
      OBVIOUS
    <3>1. CASE t = s
      BY <3>1, <1>b, <1>d DEF Idle
    <3>2. CASE t # s
      <4>1. sender[t].window \in Windows
        BY <3>2, <1>b DEF SenderInv, Windows, TypeOK, Sender
      <4> QED
        BY <3>2, <4>1, <1>b, <1>c DEF EmailInv
    <3> QED
      BY <3>1, <3>2
  <2> QED
    BY <1>a, <2>1, <2>2, <2>3 DEF EmailInv
<1>6. SentMeansEmailed'
  <2>1. \A d \in Windows : digest[d].state = "sent" => emailed'[d] # {}
    BY <1>c DEF SentMeansEmailed
  <2> QED
    BY <1>a, <2>1 DEF SentMeansEmailed
<1>7. WindowInv'
  BY <1>a, <1>b DEF WindowInv, Deferred, Idle
<1>8. NothingLeftBehind'
  BY <1>a DEF NothingLeftBehind, Deferred
<1> QED
  BY <1>1, <1>2, <1>3, <1>4, <1>5, <1>6, <1>7, <1>8

(* The row enters the window it read, which may have ended by now. *)
LEMMA AttachCommitStep ==
    ASSUME IInv, NEW a \in attach, AttachCommit(a)
    PROVE  IInv'
<1> USE DEF IInv
<1>a. /\ UNCHANGED <<clock, onEnd, sender, emailed, sends, faults>>
      /\ attach' = attach \ {a}
      /\ a \in [item: Items, window: Windows] /\ a.item \in Items /\ a.window \in Windows
  BY DEF AttachCommit, TypeOK
<1>b. /\ item' \in [Items -> Item]
      /\ item'[a.item] = [state |-> "deferred", window |-> a.window]
      /\ \A i \in Items \ {a.item} : item'[i] = item[i]
  BY <1>a DEF AttachCommit, TypeOK, Item, Windows
<1>c. /\ digest' \in [Windows -> Window]
      /\ \A d \in Windows : digest[d].state # "absent" => digest'[d] = digest[d]
      /\ \A d \in Windows : digest[d].state = "absent" =>
           digest'[d] \in {digest[d], [state |-> "open", claim |-> "none"]}
  BY <1>a DEF AttachCommit, TypeOK, Window
<1>d. /\ late' \subseteq Items /\ late \subseteq late'
      /\ a.window <= clock => a.item \in late'
  BY <1>a DEF AttachCommit, TypeOK
<1>e. item[a.item].window = 0 /\ 0 \notin Windows
  BY <1>a DEF AttachInv, Windows
<1>f. \A d \in Windows : Deferred(d)' \subseteq
        Deferred(d) \cup (IF d = a.window THEN {a.item} ELSE {})
  BY <1>a, <1>b DEF Deferred
<1>g. \A d \in Windows : d <= clock => Deferred(d)' \subseteq Deferred(d) \cup late'
  BY <1>d, <1>f
<1>1. TypeOK'
  BY <1>a, <1>b, <1>c, <1>d DEF TypeOK
<1>2. OneSender'
  BY <1>a DEF OneSender
<1>3. SenderInv'
  <2>1. \A t \in Senders : sender[t].pc # "idle" => sender[t].window \in Windows
    BY ConstantsAssumption DEF SenderInv, Windows, TypeOK
  <2> QED
    BY <1>a, <1>c, <2>1 DEF SenderInv
<1>4. AttachInv'
  <2>1. \A i \in Items : item'[i].state = "pending" => item'[i].window = 0
    BY <1>b DEF AttachInv
  <2>2. \A b \in attach' : b.item \in Items \ {a.item}
    BY <1>a DEF AttachInv, TypeOK
  <2> QED
    BY <1>a, <1>b, <2>1, <2>2 DEF AttachInv
<1>5. EmailInv'
  <2>1. \A d \in Windows : \A i \in emailed[d] : i \in Items /\ i # a.item
    BY <1>e DEF EmailInv, TypeOK
  <2>2. \A t \in Senders : \A i \in sender[t].items : i \in Items /\ i # a.item
    <3> SUFFICES ASSUME NEW t \in Senders, NEW i \in sender[t].items PROVE i \in Items /\ i # a.item
      OBVIOUS
    <3>1. sender[t].pc # "idle"
      BY DEF SenderInv, Idle
    <3>2. sender[t].window # 0 /\ i \in Items
      BY <3>1 DEF SenderInv, TypeOK, Sender
    <3> QED
      BY <3>2, <1>e DEF EmailInv
  <2> QED
    BY <1>a, <1>b, <2>1, <2>2 DEF EmailInv
<1>6. SentMeansEmailed'
  BY <1>a, <1>c DEF SentMeansEmailed
<1>7. WindowInv'
  <2>1. \A d \in Windows : digest'[d].state \in {"sent", "empty"} => d <= clock
    BY <1>c DEF WindowInv
  <2>2. ASSUME NEW t \in Senders, sender[t].pc # "idle"
        PROVE  Deferred(sender[t].window)' \subseteq sender[t].items \cup late'
    <3>1. sender[t].window \in Windows /\ sender[t].window <= clock
      BY <2>2, ConstantsAssumption DEF SenderInv, Windows, TypeOK
    <3>2. Deferred(sender[t].window) \subseteq sender[t].items \cup late
      BY <2>2 DEF WindowInv
    <3>3. Deferred(sender[t].window)' = {i \in Items : item'[i].window = sender[t].window
                                                     /\ item'[i].state = "deferred"}
      BY <1>a DEF Deferred
    <3>4. {i \in Items : item'[i].window = sender[t].window /\ item'[i].state = "deferred"}
            \subseteq Deferred(sender[t].window) \cup late'
      BY <3>1, <1>a, <1>b, <1>d DEF Deferred
    <3> QED
      BY <3>2, <3>3, <3>4, <1>d
  <2> QED
    BY <1>a, <2>1, <2>2 DEF WindowInv
<1>8. NothingLeftBehind'
  <2> SUFFICES ASSUME NEW d \in Windows, digest'[d].state \in {"sent", "empty"}
               PROVE  Deferred(d)' \subseteq late'
    BY DEF NothingLeftBehind
  <2>1. digest[d].state \in {"sent", "empty"}
    BY <1>c
  <2> QED
    BY <2>1, <1>d, <1>g DEF NothingLeftBehind, WindowInv
<1> QED
  BY <1>1, <1>2, <1>3, <1>4, <1>5, <1>6, <1>7, <1>8

(* A window without a sender is settled and closed. *)
LEMMA PlanEmptyStep ==
    ASSUME IInv, NEW s \in Senders, NEW d \in Windows, PlanEmpty(s, d)
    PROVE  IInv'
<1> USE ConstantsAssumption DEF IInv, TypeOK, Windows, Window, Item, Settled, Sender, PlanEmpty, Due, Claimable, Settle, ClosedEmpty
<1>1. TypeOK'
  BY DEF TypeOK, Window, Item, Sender, Settled
<1>2. OneSender'
  BY DEF OneSender
<1>3. SenderInv'
  BY DEF SenderInv
<1>4. AttachInv'
  <2>1. \A i \in Items : item[i].state = "pending" => item'[i] = item[i]
    BY DEF Deferred
  <2>2. \A i \in Items : item'[i].state = "pending" => item'[i] = item[i]
    BY DEF Deferred
  <2>3. \A a \in attach : a.item \in Items
    OBVIOUS
  <2>4. attach' = attach
    OBVIOUS
  <2> HIDE DEF PlanEmpty, IInv, TypeOK
  <2> QED
    BY <2>1, <2>2, <2>3, <2>4, IInv DEF AttachInv, IInv
<1>5. EmailInv'
  BY DEF EmailInv
<1>6. SentMeansEmailed'
  BY DEF SentMeansEmailed
<1>7. WindowInv'
  BY DEF WindowInv, Deferred
<1>8. NothingLeftBehind'
  BY DEF NothingLeftBehind, Deferred
<1> QED
  BY <1>1, <1>2, <1>3, <1>4, <1>5, <1>6, <1>7, <1>8 DEF IInv

(* The claim is given back and the window stays open. *)
LEMMA ReleaseStep ==
    ASSUME IInv, NEW s \in Senders, ReleaseDigestClaim(s)
    PROVE  IInv'
<1> USE DEF IInv
<1>a. /\ sender[s].pc = "refused"
      /\ UNCHANGED <<clock, onEnd, item, attach, emailed, sends, late, faults>>
  BY DEF ReleaseDigestClaim
<1>b. PICK d \in Windows : d = sender[s].window
  BY <1>a, ConstantsAssumption DEF SenderInv, TypeOK, Windows
<1>c. /\ digest' \in [Windows -> Window]
      /\ \A c \in Windows : digest'[c].state = digest[c].state
      /\ \A c \in Windows \ {d} : digest'[c] = digest[c]
  BY <1>b DEF ReleaseDigestClaim, TypeOK, Window
<1>d. /\ sender' \in [Senders -> Sender] /\ sender'[s] = Idle
      /\ \A t \in Senders \ {s} : sender'[t] = sender[t]
  BY ConstantsAssumption DEF ReleaseDigestClaim, TypeOK, Sender, Idle
<1>1. TypeOK'
  BY <1>a, <1>c, <1>d DEF TypeOK
<1>2. OneSender'
  BY <1>d DEF OneSender, Idle
<1>3. SenderInv'
  <2>1. \A t \in Senders \ {s} : sender[t].pc # "idle" => sender[t].window \in Windows \ {d}
    BY <1>b, ConstantsAssumption DEF SenderInv, OneSender, TypeOK, Windows
  <2> QED
    BY <1>a, <1>c, <1>d, <2>1 DEF SenderInv, Idle
<1>4. AttachInv'
  BY <1>a DEF AttachInv
<1>5. EmailInv'
  BY <1>a, <1>d DEF EmailInv, Idle
<1>6. SentMeansEmailed'
  BY <1>a, <1>c DEF SentMeansEmailed
<1>7. WindowInv'
  BY <1>a, <1>c, <1>d DEF WindowInv, Deferred, Idle
<1>8. NothingLeftBehind'
  BY <1>a, <1>c DEF NothingLeftBehind, Deferred
<1> QED
  BY <1>1, <1>2, <1>3, <1>4, <1>5, <1>6, <1>7, <1>8

(* The email's items are settled and its window is closed. *)
LEMMA RecordStep ==
    ASSUME IInv, NEW s \in Senders, RecordSent(s)
    PROVE  IInv'
<1> USE DEF IInv
<1>a. /\ sender[s].pc = "sent"
      /\ UNCHANGED <<clock, onEnd, attach, emailed, sends, late, faults>>
  BY DEF RecordSent
<1>b. PICK d \in Windows : d = sender[s].window
  BY <1>a, ConstantsAssumption DEF SenderInv, TypeOK, Windows
<1>c. /\ digest' \in [Windows -> Window]
      /\ digest'[d] = [state |-> "sent", claim |-> "none"]
      /\ \A c \in Windows \ {d} : digest'[c] = digest[c]
  BY <1>b DEF RecordSent, TypeOK, Window
<1>d. /\ sender' \in [Senders -> Sender] /\ sender'[s] = Idle
      /\ \A t \in Senders \ {s} : sender'[t] = sender[t]
  BY ConstantsAssumption DEF RecordSent, TypeOK, Sender, Idle
<1>e. /\ item' \in [Items -> Item]
      /\ \A i \in Items : item'[i].window = item[i].window
      /\ \A i \in Items : i \notin sender[s].items => item'[i] = item[i]
      /\ \A i \in Items : i \in sender[s].items => item'[i].state = "dispatched"
  <2>1. item' = [i \in Items |-> IF i \in sender[s].items
                                 THEN [item[i] EXCEPT !.state = "dispatched"] ELSE item[i]]
    BY DEF RecordSent, Settle
  <2>2. \A i \in Items : item[i] \in Item /\ [item[i] EXCEPT !.state = "dispatched"] \in Item
    BY DEF TypeOK, Item, Settled
  <2> QED
    BY <2>1, <2>2 DEF Item
<1>f. \A i \in sender[s].items : i \in Items /\ item[i].window # 0
  BY <1>b DEF EmailInv, TypeOK, Sender, Windows
<1>g. \A c \in Windows : Deferred(c)' \subseteq Deferred(c) \ sender[s].items
  BY <1>e DEF Deferred
<1>h. \A t \in Senders \ {s} : sender[t].pc # "idle" => sender[t].window \in Windows \ {d}
  BY <1>b, ConstantsAssumption DEF SenderInv, OneSender, TypeOK, Windows
<1>1. TypeOK'
  BY <1>a, <1>c, <1>d, <1>e DEF TypeOK
<1>2. OneSender'
  BY <1>d DEF OneSender, Idle
<1>3. SenderInv'
  BY <1>a, <1>c, <1>d, <1>h DEF SenderInv, Idle
<1>4. AttachInv'
  <2>1. \A i \in Items : item'[i].state = "pending" => item'[i] = item[i]
    BY <1>e
  <2>2. \A a \in attach : a.item \in Items /\ item'[a.item] = item[a.item]
    BY <1>e, <1>f DEF AttachInv, TypeOK
  <2> QED
    BY <1>a, <2>1, <2>2 DEF AttachInv
<1>5. EmailInv'
  <2>1. \A c \in Windows : emailed[c] \subseteq Items
    BY DEF TypeOK
  <2>2. \A t \in Senders : sender[t].items \subseteq Items
    BY DEF TypeOK, Sender
  <2> QED
    BY <1>a, <1>d, <1>e, <2>1, <2>2 DEF EmailInv, Idle
<1>6. SentMeansEmailed'
  <2>1. emailed[d] # {}
    BY <1>a, <1>b DEF EmailInv, SenderInv
  <2> QED
    BY <1>a, <1>c, <2>1 DEF SentMeansEmailed
<1>7. WindowInv'
  <2>1. \A c \in Windows : digest'[c].state \in {"sent", "empty"} => c <= clock
    BY <1>a, <1>b, <1>c DEF WindowInv, SenderInv, TypeOK
  <2>2. ASSUME NEW t \in Senders \ {s}, sender[t].pc # "idle"
        PROVE  {i \in Items : item'[i].window = sender[t].window /\ item'[i].state = "deferred"}
                 \subseteq sender[t].items \cup late
    BY <2>2, <1>e DEF WindowInv, Deferred
  <2> QED
    BY <1>a, <1>d, <2>1, <2>2 DEF WindowInv, Deferred, Idle
<1>8. NothingLeftBehind'
  <2> SUFFICES ASSUME NEW c \in Windows, digest'[c].state \in {"sent", "empty"}
               PROVE  Deferred(c)' \subseteq late'
    BY DEF NothingLeftBehind
  <2>1. CASE c = d
    BY <2>1, <1>a, <1>b, <1>g DEF WindowInv
  <2>2. CASE c # d
    BY <2>2, <1>a, <1>c, <1>g DEF NothingLeftBehind
  <2> QED
    BY <2>1, <2>2
<1> QED
  BY <1>1, <1>2, <1>3, <1>4, <1>5, <1>6, <1>7, <1>8

(* The rows of a claimed window are planned: some are settled at once, the *)
(* others are what the sender is going to send.                            *)
LEMMA PlanSendStep ==
    ASSUME IInv, NEW s \in Senders, NEW d \in Windows, PlanSend(s, d)
    PROVE  IInv'
<1> USE DEF IInv
<1>a. /\ UNCHANGED <<clock, onEnd, attach, emailed, sends, late, faults>>
      /\ sender[s] = Idle /\ d <= clock
      /\ digest[d].state = "open" /\ digest[d].claim # "held"
  BY DEF PlanSend, Due, Claimable
<1>b. PICK included \in SUBSET Deferred(d) :
        /\ item' \in [Items -> Item]
        /\ \A i \in Items : item'[i].window = item[i].window
        /\ \A i \in Items : i \notin Deferred(d) \/ i \in included => item'[i] = item[i]
        /\ \A i \in Deferred(d) \ included : item'[i].state \in {"failed", "dispatched"}
        /\ IF included = {}
           THEN digest' = ClosedEmpty(d) /\ sender' = sender
           ELSE /\ digest' = [digest EXCEPT ![d].claim = "held"]
                /\ sender' = [sender EXCEPT ![s] =
                                [pc |-> "sending", window |-> d, items |-> included]]
  BY PlanSendShape
<1>c. /\ digest' \in [Windows -> Window]
      /\ \A c \in Windows \ {d} : digest'[c] = digest[c]
      /\ included = {} => digest'[d] = [state |-> "empty", claim |-> "none"]
      /\ included # {} => digest'[d] = [state |-> "open", claim |-> "held"]
  <2>1. digest \in [Windows -> Window]
    BY DEF TypeOK
  <2> QED
    BY <2>1, <1>a, <1>b DEF ClosedEmpty, Window
<1>d. /\ sender' \in [Senders -> Sender]
      /\ \A t \in Senders \ {s} : sender'[t] = sender[t]
      /\ included = {} => sender'[s] = Idle
      /\ included # {} => sender'[s] = [pc |-> "sending", window |-> d, items |-> included]
  <2>1. [pc |-> "sending", window |-> d, items |-> included] \in Sender
    BY ConstantsAssumption DEF Sender, Windows, Deferred
  <2> QED
    BY <1>a, <1>b, <2>1 DEF TypeOK
<1>e. \A t \in Senders : sender[t].pc # "idle" => sender[t].window \in Windows \ {d}
  BY <1>a, ConstantsAssumption DEF SenderInv, TypeOK, Windows
<1>f. /\ \A c \in Windows : Deferred(c)' \subseteq Deferred(c)
      /\ Deferred(d)' \subseteq included
  <2>1. \A i \in Items : item'[i].state = "deferred" => item'[i] = item[i]
    BY <1>b
  <2>2. \A i \in Deferred(d) \ included : item'[i].state # "deferred"
    BY <1>b
  <2> QED
    BY <2>1, <2>2 DEF Deferred
<1>1. TypeOK'
  BY <1>a, <1>b, <1>c, <1>d DEF TypeOK
<1>2. OneSender'
  <2>1. \A t \in Senders \ {s} : sender[t].window # d
    BY <1>e, ConstantsAssumption DEF SenderInv, Idle, Windows
  <2> QED
    BY <1>d, <2>1 DEF OneSender, Idle
<1>3. SenderInv'
  <2>1. d \in 1..clock
    BY <1>a DEF TypeOK, Windows
  <2> QED
    BY <1>a, <1>c, <1>d, <1>e, <2>1 DEF SenderInv, Idle
<1>4. AttachInv'
  <2>1. \A i \in Items : item'[i].state = "pending" => item'[i] = item[i]
    BY <1>b
  <2>2. \A a \in attach : a.item \in Items /\ item'[a.item] = item[a.item]
    BY <1>b DEF AttachInv, TypeOK, Deferred
  <2> QED
    BY <1>a, <2>1, <2>2 DEF AttachInv
<1>5. EmailInv'
  <2>1. \A c \in Windows : emailed[c] \subseteq Items
    BY DEF TypeOK
  <2>2. \A t \in Senders : sender[t].items \subseteq Items
    BY DEF TypeOK, Sender
  <2>3. \A i \in included : i \in Items /\ item[i].window = d
    BY DEF Deferred
  <2> QED
    BY <1>a, <1>b, <1>d, <2>1, <2>2, <2>3 DEF EmailInv, Idle
<1>6. SentMeansEmailed'
  BY <1>a, <1>c DEF SentMeansEmailed
<1>7. WindowInv'
  <2>1. \A c \in Windows : digest'[c].state \in {"sent", "empty"} => c <= clock
    BY <1>a, <1>c DEF WindowInv
  <2>2. ASSUME NEW t \in Senders, sender'[t].pc # "idle"
        PROVE  Deferred(sender[t].window)' \subseteq sender'[t].items \cup late
    <3>1. CASE t = s
      BY <3>1, <2>2, <1>d, <1>f DEF Idle, Deferred
    <3>2. CASE t # s
      BY <3>2, <2>2, <1>d, <1>e, <1>f DEF WindowInv, Deferred
    <3> QED
      BY <3>1, <3>2
  <2> QED
    BY <1>a, <2>1, <2>2 DEF WindowInv
<1>8. NothingLeftBehind'
  <2> SUFFICES ASSUME NEW c \in Windows, digest'[c].state \in {"sent", "empty"}
               PROVE  Deferred(c)' \subseteq late'
    BY DEF NothingLeftBehind
  <2>1. CASE c = d
    BY <2>1, <1>c, <1>f
  <2>2. CASE c # d
    BY <2>2, <1>a, <1>c, <1>f DEF NothingLeftBehind
  <2> QED
    BY <2>1, <2>2
<1> QED
  BY <1>1, <1>2, <1>3, <1>4, <1>5, <1>6, <1>7, <1>8
-----------------------------------------------------------------------------
LEMMA StutterStep ==
    ASSUME IInv, UNCHANGED vars
    PROVE  IInv'
  BY DEF vars, IInv, TypeOK, OneSender, SenderInv, AttachInv, EmailInv, SentMeansEmailed,
         WindowInv, NothingLeftBehind, Deferred

(* The conjunction of typing and the parts above is inductive. *)
THEOREM Invariance == Spec => []IInv
<1>1. IInv /\ [Next]_vars => IInv'
  <2> SUFFICES ASSUME IInv, [Next]_vars PROVE IInv'
    OBVIOUS
  <2>1. CASE Next
    BY <2>1, ActionCases, TickStep, AttachCommitStep, ExpireStep, AttachReadStep, ForgetStep,
       PlanEmptyStep, PlanSendStep, WorkStep, ReleaseStep, RecordStep
  <2>2. CASE UNCHANGED vars
    BY <2>2, StutterStep
  <2> QED
    BY <2>1, <2>2
<1> QED
  BY InitIInv, <1>1, PTL DEF Spec

(* Every variable keeps its type, for any items, windows, senders, faults. *)
THEOREM TypeCorrect == Spec => []TypeOK
<1>1. IInv => TypeOK
  BY DEF IInv
<1> QED
  BY Invariance, <1>1, PTL

(* claimDigest lets one live sender work on a window. *)
THEOREM OneSenderAlways == Spec => []OneSender
<1>1. IInv => OneSender
  BY DEF IInv
<1> QED
  BY Invariance, <1>1, PTL

(* A window that is not closed and whose email is not in the hands of a    *)
(* sender waiting to record it has been given away no more often than      *)
(* something went wrong; the first email of all is the one more.           *)
SendsInv ==
    \A d \in Windows :
        /\ sends[d] <= 1 + faults
        /\ /\ digest[d].state \in {"absent", "open"}
           /\ \A s \in Senders : sender[s].window = d => sender[s].pc # "sent"
           => sends[d] <= faults

LEMMA SendsStep == IInv /\ SendsInv /\ [Next]_vars => SendsInv'
<1> SUFFICES ASSUME IInv, SendsInv, [Next]_vars, NEW d \in Windows
             PROVE  /\ sends'[d] <= 1 + faults'
                    /\ /\ digest'[d].state \in {"absent", "open"}
                       /\ \A s \in Senders : sender'[s].window = d => sender'[s].pc # "sent"
                       => sends'[d] <= faults'
  BY DEF SendsInv
<1> DEFINE Waits == \A s \in Senders : sender[s].window = d => sender[s].pc # "sent"
           Open  == digest[d].state \in {"absent", "open"}
           Goal  == /\ sends'[d] <= 1 + faults'
                    /\ Open' /\ Waits' => sends'[d] <= faults'
<1>T. /\ digest \in [Windows -> Window] /\ sender \in [Senders -> Sender]
      /\ sends \in [Windows -> Nat] /\ faults \in Nat
  BY DEF IInv, TypeOK
<1>H. sends[d] <= 1 + faults /\ (Open /\ Waits => sends[d] <= faults)
  BY DEF SendsInv
<1>W. ASSUME NEW s \in Senders, sender[s].pc # "idle"
      PROVE  sender[s].window \in Windows /\ digest[sender[s].window].state = "open"
  <2>1. sender[s].window \in 1..clock /\ digest[sender[s].window] = [state |-> "open", claim |-> "held"]
    BY <1>W DEF IInv, SenderInv
  <2> QED
    BY <2>1, ConstantsAssumption DEF IInv, TypeOK, Windows
<1>K. ASSUME sends' = sends, faults' = faults, Open' => Open, Waits' => Waits PROVE Goal
  BY <1>K, <1>H
<1>1. CASE \/ Tick \/ EndPasses \/ (\E i \in Items : AttachRead(i) \/ ForgetEntity(i))
           \/ UNCHANGED vars
  <2>1. UNCHANGED <<sends, faults, digest, sender>>
    BY <1>1 DEF Tick, EndPasses, AttachRead, ForgetEntity, vars
  <2> QED
    BY <2>1, <1>K
<1>2. ASSUME NEW a \in attach, AttachCommit(a) PROVE Goal
  <2>1. UNCHANGED <<sends, faults, sender>> /\ a.window \in Windows
    BY <1>2 DEF AttachCommit, IInv, TypeOK
  <2>2. digest[d].state # "absent" => digest'[d] = digest[d]
    BY <1>2, <1>T, <2>1 DEF AttachCommit
  <2>3. Open' => Open
    BY <2>2
  <2> QED
    BY <2>1, <2>3, <1>K
<1>3. ASSUME NEW e \in Windows, Expire(e) PROVE Goal
  <2>1. UNCHANGED <<sends, faults, sender>> /\ digest'[d].state = digest[d].state
    BY <1>3, <1>T DEF Expire, Window
  <2> QED
    BY <2>1, <1>K
<1>4. ASSUME NEW s \in Senders, NEW e \in Windows, PlanEmpty(s, e) PROVE Goal
  <2>1. UNCHANGED <<sends, faults, sender>> /\ (Open' => Open)
    BY <1>4, <1>T DEF PlanEmpty, ClosedEmpty
  <2> QED
    BY <2>1, <1>K
<1>5. ASSUME NEW s \in Senders, NEW e \in Windows, PlanSend(s, e) PROVE Goal
  <2>1. UNCHANGED <<sends, faults>> /\ sender[s] = Idle /\ digest[e].state = "open"
    BY <1>5 DEF PlanSend, Due, Claimable
  <2>2. Open' => Open
    BY <1>5, <1>T, <2>1 DEF PlanSend, ClosedEmpty, Window
  <2>3. \A t \in Senders : t # s => sender'[t] = sender[t]
    BY <1>5, <1>T DEF PlanSend
  <2>4. Waits' => Waits
    BY <2>1, <2>3 DEF Idle
  <2> QED
    BY <2>1, <2>2, <2>4, <1>K
<1>6. ASSUME NEW s \in Senders, Send(s) PROVE Goal
  <2>1. /\ sender[s].pc = "sending" /\ faults' = faults /\ digest' = digest
        /\ sender' = [sender EXCEPT ![s] = [sender[s] EXCEPT !.pc = "sent"]]
    BY <1>6, <1>T DEF Send
  <2>2. /\ sender'[s].pc = "sent" /\ sender'[s].window = sender[s].window
        /\ \A t \in Senders : t # s => sender'[t] = sender[t]
    BY <2>1, <1>T DEF Sender
  <2>3. sends' = [sends EXCEPT ![sender[s].window] = sends[sender[s].window] + 1]
    BY <1>6 DEF Send, Accept
  <2>4. CASE d = sender[s].window
    <3>1. Open /\ Waits
      BY <2>1, <2>4, <1>W DEF IInv, OneSender, Windows
    <3>2. sends'[d] = sends[d] + 1
      BY <2>3, <2>4, <1>T
    <3>3. ~Waits'
      BY <2>2, <2>4
    <3> QED
      BY <3>1, <3>2, <3>3, <2>1, <1>T, <1>H
  <2>5. CASE d # sender[s].window
    <3>1. sends'[d] = sends[d]
      BY <2>3, <2>5, <1>T
    <3>2. Waits' => Waits
      BY <2>2, <2>5
    <3> QED
      BY <3>1, <3>2, <2>1, <1>H
  <2> QED
    BY <2>4, <2>5
<1>7. ASSUME NEW s \in Senders, SendError(s) \/ Crash(s) PROVE Goal
  <2>1. faults' = faults + 1
    BY <1>7 DEF SendError, Crash, Fault
  <2>2. CASE sends'[d] = sends[d]
    BY <2>1, <2>2, <1>T, <1>H
  <2>3. CASE sends'[d] # sends[d]
    <3>1. SendError(s) /\ Accept(sender[s].window, sender[s].items)
      BY <1>7, <2>3 DEF SendError, Crash
    <3>2. sender[s].pc = "sending"
      BY <3>1 DEF SendError
    <3>3. d = sender[s].window /\ sends'[d] = sends[d] + 1
      BY <3>1, <2>3, <1>T DEF Accept
    <3>4. Open /\ Waits
      BY <3>2, <3>3, <1>W DEF IInv, OneSender, Windows
    <3> QED
      BY <3>3, <3>4, <2>1, <1>T, <1>H
  <2> QED
    BY <2>2, <2>3
<1>8. ASSUME NEW s \in Senders, ReleaseDigestClaim(s) PROVE Goal
  <2>1. UNCHANGED <<sends, faults>> /\ sender[s].pc = "refused"
        /\ digest'[d].state = digest[d].state
    BY <1>8, <1>T DEF ReleaseDigestClaim, Window
  <2>2. \A t \in Senders : t # s => sender'[t] = sender[t]
    BY <1>8, <1>T DEF ReleaseDigestClaim
  <2>3. Waits' => Waits
    BY <2>1, <2>2
  <2> QED
    BY <2>1, <2>3, <1>K
<1>9. ASSUME NEW s \in Senders, RecordSent(s) PROVE Goal
  <2>1. UNCHANGED <<sends, faults>> /\ sender[s].pc = "sent"
    BY <1>9 DEF RecordSent
  <2>2. CASE d = sender[s].window
    <3>1. ~Open'
      BY <1>9, <2>2, <1>T DEF RecordSent
    <3> QED
      BY <3>1, <2>1, <1>H
  <2>3. CASE d # sender[s].window
    <3>1. digest'[d] = digest[d] /\ \A t \in Senders : t # s => sender'[t] = sender[t]
      BY <1>9, <2>3, <1>T DEF RecordSent
    <3>2. Waits' => Waits
      BY <3>1, <2>3
    <3> QED
      BY <3>1, <3>2, <2>1, <1>K
  <2> QED
    BY <2>2, <2>3
<1>10. Goal
  BY <1>1, <1>2, <1>3, <1>4, <1>5, <1>6, <1>7, <1>8, <1>9, ActionCases
<1> QED
  BY <1>10

(* No item reaches the recipient in two windows' digests, and a window's   *)
(* email is given away again only after a crash or a provider error.       *)
THEOREM InOneEmailAlways == Spec => []InOneEmail
<1>1. Init => SendsInv
  BY DEF Init, SendsInv
<1>2. IInv /\ SendsInv => InOneEmail
  BY DEF IInv, EmailInv, SendsInv, InOneEmail
<1> QED
  BY Invariance, <1>1, <1>2, SendsStep, PTL DEF Spec

(* A window closed as sent had its email accepted by a provider. *)
THEOREM SentMeansEmailedAlways == Spec => []SentMeansEmailed
<1>1. IInv => SentMeansEmailed
  BY DEF IInv
<1> QED
  BY Invariance, <1>1, PTL

(* Only a transaction that commits when its window has ended leaves a row  *)
(* in a closed one.                                                        *)
THEOREM NothingLeftBehindAlways == Spec => []NothingLeftBehind
<1>1. IInv => NothingLeftBehind
  BY DEF IInv
<1> QED
  BY Invariance, <1>1, PTL
-----------------------------------------------------------------------------
(* A closed window is final: no late sender, release, reclaim or attach    *)
(* reopens or recloses it or sends its email again.  A settled row waits   *)
(* no more and stays in its window.                                        *)
Final ==
    /\ \A d \in Windows : digest[d].state \in {"sent", "empty"} =>
          digest'[d] = digest[d] /\ emailed'[d] = emailed[d] /\ sends'[d] = sends[d]
    /\ \A i \in Items : item[i].state \in Settled =>
          item'[i].state \in Settled /\ item'[i].window = item[i].window

(* A step that leaves the digests, the rows and the emails as they are.    *)
LEMMA NothingMoves ==
    ASSUME digest' = digest, item' = item, UNCHANGED mail PROVE Final
  BY DEF Final

LEMMA FinalStep == IInv /\ [Next]_vars => Final
<1> SUFFICES ASSUME IInv, [Next]_vars PROVE Final
  OBVIOUS
<1>T. digest \in [Windows -> Window] /\ item \in [Items -> Item] /\ sender \in [Senders -> Sender]
      /\ emailed \in [Windows -> SUBSET Items] /\ sends \in [Windows -> Nat]
  BY DEF IInv, TypeOK
<1>W. ASSUME NEW s \in Senders, sender[s].pc # "idle"
      PROVE  sender[s].window \in Windows /\ digest[sender[s].window].state = "open"
  <2>1. sender[s].window \in 1..clock /\ digest[sender[s].window] = [state |-> "open", claim |-> "held"]
    BY <1>W DEF IInv, SenderInv
  <2> QED
    BY <2>1, ConstantsAssumption DEF IInv, TypeOK, Windows
<1>1. CASE \/ Tick \/ EndPasses \/ (\E i \in Items : AttachRead(i)) \/ (\E s \in Senders : Crash(s)) \/ UNCHANGED vars
  BY <1>1, NothingMoves DEF Tick, EndPasses, AttachRead, Crash, vars
<1>2. ASSUME NEW a \in attach, AttachCommit(a) PROVE Final
  <2>1. a.item \in Items /\ a.window \in Windows /\ item[a.item].state = "pending"
    BY DEF IInv, TypeOK, AttachInv
  <2>2. \A d \in Windows : digest[d].state # "absent" => digest'[d] = digest[d]
    BY <1>2, <1>T, <2>1 DEF AttachCommit
  <2>3. \A i \in Items : i # a.item => item'[i] = item[i]
    BY <1>2, <1>T DEF AttachCommit
  <2>4. UNCHANGED mail
    BY <1>2 DEF AttachCommit
  <2> QED
    BY <2>1, <2>2, <2>3, <2>4 DEF Final, Settled
<1>3. ASSUME NEW d \in Windows, Expire(d) PROVE Final
  <2>1. digest[d].state = "open" /\ item' = item /\ UNCHANGED mail
    BY <1>3 DEF Expire
  <2>2. \A c \in Windows : c # d => digest'[c] = digest[c]
    BY <1>3, <1>T DEF Expire
  <2> QED
    BY <2>1, <2>2 DEF Final
<1>4. ASSUME NEW i \in Items, ForgetEntity(i) PROVE Final
  <2>1. item[i].state \notin Settled /\ digest' = digest /\ UNCHANGED mail
    BY <1>4 DEF ForgetEntity, Settled
  <2>2. \A j \in Items : j # i => item'[j] = item[j]
    BY <1>4, <1>T DEF ForgetEntity
  <2> QED
    BY <2>1, <2>2 DEF Final
<1>5. ASSUME NEW s \in Senders, NEW d \in Windows, PlanEmpty(s, d) PROVE Final
  <2>1. digest[d].state = "open" /\ UNCHANGED mail
    BY <1>5 DEF PlanEmpty, Due, Claimable
  <2>2. \A c \in Windows : c # d => digest'[c] = digest[c]
    BY <1>5, <1>T DEF PlanEmpty, ClosedEmpty
  <2>3. \A i \in Items : item[i].state \in Settled => item'[i] = item[i]
    BY <1>5, <1>T DEF PlanEmpty, Settle, Deferred, Settled
  <2> QED
    BY <2>1, <2>2, <2>3 DEF Final
<1>6. ASSUME NEW s \in Senders, NEW d \in Windows, PlanSend(s, d) PROVE Final
  <2>1. digest[d].state = "open" /\ UNCHANGED mail
    BY <1>6 DEF PlanSend, Due, Claimable
  <2>2. \A c \in Windows : c # d => digest'[c] = digest[c]
    BY <1>6, <1>T DEF PlanSend, ClosedEmpty
  <2>3. \A i \in Items : item[i].state \in Settled => item'[i] = item[i]
    BY <1>6, <1>T DEF PlanSend, Deferred, Settled
  <2> QED
    BY <2>1, <2>2, <2>3 DEF Final
<1>7. ASSUME NEW s \in Senders, Send(s) \/ SendError(s) PROVE Final
  <2>1. sender[s].pc # "idle" /\ digest' = digest /\ item' = item
    BY <1>7 DEF Send, SendError
  <2>2. \A d \in Windows : d # sender[s].window => emailed'[d] = emailed[d] /\ sends'[d] = sends[d]
    BY <1>7, <1>T DEF Send, SendError, Accept
  <2> QED
    BY <1>W, <2>1, <2>2 DEF Final
<1>8. ASSUME NEW s \in Senders, ReleaseDigestClaim(s) PROVE Final
  <2>1. item' = item /\ UNCHANGED mail
    BY <1>8 DEF ReleaseDigestClaim
  <2>2. \A d \in Windows : digest[d].state # "open" => digest'[d] = digest[d]
    BY <1>8, <1>T DEF ReleaseDigestClaim
  <2> QED
    BY <2>1, <2>2 DEF Final
<1>9. ASSUME NEW s \in Senders, RecordSent(s) PROVE Final
  <2>1. sender[s].pc # "idle" /\ UNCHANGED mail
    BY <1>9 DEF RecordSent
  <2>2. \A d \in Windows : d # sender[s].window => digest'[d] = digest[d]
    BY <1>9, <1>T DEF RecordSent
  <2>3. \A i \in Items : item'[i] = item[i] \/ item'[i] = [item[i] EXCEPT !.state = "dispatched"]
    BY <1>9 DEF RecordSent, Settle
  <2>4. \A i \in Items : /\ [item[i] EXCEPT !.state = "dispatched"].state = "dispatched"
                         /\ [item[i] EXCEPT !.state = "dispatched"].window = item[i].window
    BY <1>T DEF Item
  <2>5. \A i \in Items : item[i].state \in Settled => item'[i].state \in Settled /\ item'[i].window = item[i].window
    BY <2>3, <2>4 DEF Settled
  <2> QED
    BY <1>W, <2>1, <2>2, <2>5 DEF Final
<1> QED
  BY <1>1, <1>2, <1>3, <1>4, <1>5, <1>6, <1>7, <1>8, <1>9, ActionCases

(* Once a window is closed, its verdict and its email are final, and so is *)
(* the end of every row, whatever sender, retry or transaction is late.    *)
THEOREM FinalAlways == Spec => [][Final]_vars
<1>1. IInv /\ [Next]_vars => [Final]_vars
  BY FinalStep
<1> QED
  BY <1>1, Invariance, PTL DEF Spec
=============================================================================
