-------------------------- MODULE SettleWatchProofs --------------------------
(***************************************************************************)
(* Proofs about SettleWatch, for each of the five implementations, any     *)
(* number of tasks that wait, any number of redirects and any length of    *)
(* the feed: its types, that the fallback only ever speaks of the page's   *)
(* own documents, that walls are told, except by Node's, that the session  *)
(* is released once, when the fallback may answer, and that everyone is    *)
(* told the same, wherever the implementation does not let two waits run   *)
(* side by side.                                                           *)
(*                                                                         *)
(* What is read from the feed was true when the page said it: the          *)
(* invariant says so of the events still on their way, and of what the     *)
(* tracker keeps of those that were read.                                  *)
(***************************************************************************)
EXTENDS SettleWatch, TLAPS

\* The watch has been armed.
Armed == {"armed", "closing", "closed", "abandoned"}

\* Until the window closes nothing but the replay is on its way, and then the
\* incumbent has been written off; nobody waits before that; only Rust's close()
\* can be seen half way.
PhaseOK == /\ phase = "window" => \A i \in 1 .. Len(feed) : feed[i].loader = 0
           /\ phase \in Armed => 0 \in stale
           /\ phase \in {"closing", "abandoned"} => client = "rust"
           /\ \A w \in Waiter : pc[w] # "idle" => phase \in Armed

\* A session is attached until close() has ended, or arming failed.
SessionOK == /\ phase \in {"arming", "window", "armed", "closing", "abandoned"} => detaches = 0
             /\ SessionReleased

\* A signal of the main frame was emitted by the document it names.
Genuine(e) == e.main /\ e.name \in Signals /\ e.loader # 0 => e.name \in fired[e.loader]

FeedOK == \A i \in 1 .. Len(feed) : Genuine(feed[i])

\* A document the fallback may report: Node's is the last one it was shown.
Own(n, d) == d \in Documents /\ n \in fired[d] /\ (client = "node" => IsLast(d))

SeenOK == \A n \in Signals : seen[n] # NoDoc => Own(n, seen[n])

\* An answer of the command is about a document that is there, and tells a wall if
\* the client found an outcome in the reply.
Told(a) == a.via = "waitForSettle" =>
             /\ a.doc <= doc
             /\ ~a.unread /\ a.doc \in walls => Blocked(a)

\* Once Node remembers an answer its watch is closed, and the tracker rests.
StateOK == state # NoState => /\ client = "node" => phase = "closed"
                              /\ state.via \in Signals => Own(state.via, state.doc)
                              /\ Told(state)

RetOK == \A w \in Waiter : ret[w] # NoState => Told(ret[w])

\* Where waits do not overlap, or the later ones join the first.
Shared == client \in Overlapping => client = "node"

\* One wait at a time, none once there is an answer, and that answer for everyone.
TurnOK == Shared => /\ \A v, w \in Waiter : Waiting(v) /\ Waiting(w) => v = w
                    /\ \A w \in Waiter : Waiting(w) => state = NoState
                    /\ \A w \in Waiter : ret[w] # NoState => ret[w] = state

IInv == /\ TypeOK
        /\ PhaseOK
        /\ SessionOK
        /\ FeedOK
        /\ SeenOK
        /\ StateOK
        /\ RetOK
        /\ TurnOK

-----------------------------------------------------------------------------

\* The invariant is as strong as the properties the runs check.
LEMMA Strong == IInv => /\ OwnDocument /\ SessionReleased
                        /\ WallsTold
                        /\ Shared => OneAnswer
<1> SUFFICES ASSUME IInv PROVE /\ OwnDocument /\ SessionReleased
                               /\ WallsTold
                               /\ Shared => OneAnswer
  OBVIOUS
<1>1. OwnDocument
  BY DEF IInv, SeenOK, StateOK, Own, OwnDocument
<1>2. WallsTold
  BY DEF IInv, RetOK, Told, WallsTold
<1>3. SessionReleased
  BY DEF IInv, SessionOK
<1>4. Shared => OneAnswer
  BY DEF IInv, TurnOK, OneAnswer
<1> QED  BY <1>1, <1>2, <1>3, <1>4

\* A watch that is about to be armed.
LEMMA InitIInv == Init => IInv
<1> SUFFICES ASSUME Init PROVE IInv
  OBVIOUS
<1> USE DEF Init, PageInit
<1>1. TypeOK
  <2>1. PageTypeOK
    <3>1. doc \in 0 .. MaxDoc  BY MaxDocAssumption
    <3>2. fired \in [Documents -> SUBSET Signals]  OBVIOUS
    <3>3. feed \in Seq(Event)  OBVIOUS
    <3>4. subframe \in BOOLEAN /\ gone \in BOOLEAN /\ walls \in SUBSET Documents  OBVIOUS
    <3> QED  BY <3>1, <3>2, <3>3, <3>4 DEF PageTypeOK
  <2>2. registered \in BOOLEAN /\ owned \in BOOLEAN /\ prefer \in BOOLEAN
    OBVIOUS
  <2>3. /\ pc \in [Waiter -> {"idle", "command", "fallback", "joined", "closing",
                              "returned", "raised", "cancelled"}]
        /\ \A w \in Waiter : pc[w] # "closing"
    OBVIOUS
  <2>4. seen \in [Signals -> 0 .. MaxDoc \cup {NoDoc}] /\ loaders \in Seq(Documents)
    OBVIOUS
  <2> QED  BY <2>1, <2>2, <2>3, <2>4 DEF TypeOK
<1>2. PhaseOK /\ SessionOK
  BY DEF PhaseOK, Armed, SessionOK, SessionReleased
<1>3. FeedOK /\ SeenOK /\ StateOK /\ RetOK /\ TurnOK
  BY DEF FeedOK, SeenOK, StateOK, RetOK, TurnOK, Waiting
<1> QED  BY <1>1, <1>2, <1>3 DEF IInv

-----------------------------------------------------------------------------
(* The session.                                                            *)

\* An armed watch that is released is closed, and its session detached once.
LEMMA ReleaseOnce ==
  ASSUME TypeOK, SessionOK, phase \in Armed, Release, UNCHANGED setup
  PROVE  phase' = "closed" /\ detaches' \in Nat /\ SessionOK'
<1>1. CASE phase = "closed"
  BY <1>1 DEF TypeOK, SessionOK, SessionReleased, Release, setup
<1>2. CASE phase # "closed"
  <2>1. detaches = 0  BY <1>2 DEF SessionOK, Armed
  <2>2. phase' = "closed" /\ detaches' = (IF owned THEN 1 ELSE 0)
    BY <1>2, <2>1 DEF Release, Detach
  <2>3. owned' = owned /\ client' = client  BY DEF setup
  <2> QED  BY <2>2, <2>3 DEF SessionOK, SessionReleased
<1> QED  BY <1>1, <1>2

\* What a wait leaves of the watch: Node's is closed, the others' as it was.
LEMMA AfterWaitPhase ==
  ASSUME TypeOK, SessionOK, phase \in Armed, AfterWait, UNCHANGED setup
  PROVE  /\ phase' = (IF client = "node" THEN "closed" ELSE phase)
         /\ detaches' \in Nat /\ SessionOK'
<1>1. CASE client = "node"
  BY <1>1, ReleaseOnce DEF AfterWait
<1>2. CASE client # "node"
  BY <1>2 DEF AfterWait, TypeOK, SessionOK, SessionReleased, setup
<1> QED  BY <1>1, <1>2

-----------------------------------------------------------------------------
(* The end of a wait.                                                      *)

Place == {"idle", "command", "fallback", "joined", "closing",
          "returned", "raised", "cancelled"}

\* The types a wait can disturb.
WaitsTyped == /\ state \in Answer \cup {NoState}
              /\ pc \in [Waiter -> Place]
              /\ \A w \in Waiter :
                   pc[w] = "closing" => client = "node" /\ owned /\ phase = "closed"
              /\ late \in [Waiter -> BOOLEAN]
              /\ ret \in [Waiter -> Answer \cup {NoState}]

\* What a step of the waits leaves alone.
LEMMA WaitFrame ==
  ASSUME IInv, UNCHANGED <<pageVars, setup, tracker>>,
         WaitsTyped', phase' \in {phase, "closed"}, detaches' \in Nat, phase \in Armed
  PROVE  /\ TypeOK' /\ FeedOK' /\ SeenOK'
         /\ phase' \in Armed
         /\ \A n \in Signals, d \in Documents : Own(n, d) => Own(n, d)'
         /\ \A x \in Answer : Told(x) => Told(x)'
<1>1. TypeOK'
  BY DEF IInv, TypeOK, PageTypeOK, pageVars, setup, tracker, WaitsTyped, Place, Armed
<1>2. FeedOK' /\ SeenOK'
  BY DEF IInv, FeedOK, Genuine, SeenOK, Own, IsLast, pageVars, setup, tracker
<1>3. phase' \in Armed  BY DEF Armed
<1>4. \A n \in Signals, d \in Documents : Own(n, d) => Own(n, d)'
  BY DEF Own, IsLast, pageVars, setup, tracker
<1>5. \A x \in Answer : Told(x) => Told(x)'
  BY DEF Told, Blocked, pageVars, setup
<1> QED  BY <1>1, <1>2, <1>3, <1>4, <1>5

\* Where waits share, nobody has an answer before the one that waits gets it.
LEMMA FirstAnswer ==
  ASSUME IInv, Shared, NEW w \in Waiter, Waiting(w)
  PROVE  /\ state = NoState
         /\ \A v \in Waiter : ret[v] = NoState
         /\ \A v \in Waiter : Waiting(v) => v = w
BY DEF IInv, TurnOK

\* An answer that is one ends the wait of whoever waited for it.
LEMMA SettleIInv ==
  ASSUME IInv, NEW w \in Waiter, Waiting(w), NEW a \in Answer,
         a.via \in Signals => Own(a.via, a.doc), Told(a), Settle(w, a)
  PROVE  IInv'
<1>1. /\ state' = a /\ Ends(w, "returned", a) /\ AfterWait
      /\ UNCHANGED <<pageVars, setup, tracker>>
  BY DEF Settle
<1>2. TypeOK /\ PhaseOK /\ SessionOK /\ phase \in Armed
  BY DEF IInv, PhaseOK, Waiting
<1>3. /\ phase' = (IF client = "node" THEN "closed" ELSE phase)
      /\ detaches' \in Nat /\ SessionOK'
  BY <1>1, <1>2, AfterWaitPhase
<1>4. WaitsTyped'
  BY <1>1, <1>2, <1>3 DEF TypeOK, Ends, AwaitsDetach, WaitsTyped, Place, setup
<1>5. /\ TypeOK' /\ FeedOK' /\ SeenOK' /\ phase' \in Armed
      /\ \A n \in Signals, d \in Documents : Own(n, d) => Own(n, d)'
      /\ \A x \in Answer : Told(x) => Told(x)'
  BY <1>1, <1>2, <1>3, <1>4, WaitFrame
<1>6. PhaseOK'
  BY <1>1, <1>2, <1>3, <1>5 DEF PhaseOK, Armed, pageVars, setup, tracker
<1>7. StateOK'
  <2>1. a.via \in Signals => Own(a.via, a.doc)'
    BY <1>5 DEF Own
  <2> QED  BY <1>1, <1>3, <1>5, <2>1 DEF StateOK, setup
<1>8. RetOK'
  <2>1. ASSUME NEW v \in Waiter, NEW x, x = ret'[v], x # NoState PROVE Told(x)'
    <3>1. CASE x = a  BY <1>5, <3>1
    <3>2. CASE x # a
      <4>1. x = ret[v]  BY <1>1, <2>1, <3>2 DEF Ends
      <4>2. x \in Answer /\ Told(x)  BY <1>2, <2>1, <4>1 DEF TypeOK, IInv, RetOK
      <4> QED  BY <1>5, <4>2
    <3> QED  BY <3>1, <3>2
  <2> QED  BY <2>1 DEF RetOK, Told
<1>9. TurnOK'
  <2> SUFFICES ASSUME Shared' PROVE /\ \A v \in Waiter : ~Waiting(v)'
                                    /\ \A v \in Waiter : ret'[v] # NoState => ret'[v] = state'
    BY DEF TurnOK
  <2>1. Shared  BY <1>1 DEF Shared, setup
  <2>2. /\ \A v \in Waiter : ret[v] = NoState
        /\ \A v \in Waiter : Waiting(v) => v = w
    BY <2>1, FirstAnswer
  <2>3. \A v \in Waiter : ~Waiting(v)'
    BY <1>1, <1>2, <2>2 DEF Ends, Waiting, TypeOK
  <2>4. \A v \in Waiter : ret'[v] # NoState => ret'[v] = state'
    BY <1>1, <1>2, <2>2 DEF Ends
  <2> QED  BY <2>3, <2>4
<1> QED  BY <1>3, <1>5, <1>6, <1>7, <1>8, <1>9 DEF IInv

\* An exception ends it with no answer at all.
LEMMA RaiseIInv ==
  ASSUME IInv, NEW w \in Waiter, Waiting(w), Raise(w)
  PROVE  IInv'
<1>1. /\ Ends(w, "raised", NoState) /\ AfterWait
      /\ UNCHANGED <<pageVars, setup, tracker, state>>
  BY DEF Raise
<1>2. TypeOK /\ PhaseOK /\ SessionOK /\ phase \in Armed
  BY DEF IInv, PhaseOK, Waiting
<1>3. /\ phase' = (IF client = "node" THEN "closed" ELSE phase)
      /\ detaches' \in Nat /\ SessionOK'
  BY <1>1, <1>2, AfterWaitPhase
<1>4. WaitsTyped'
  BY <1>1, <1>2, <1>3 DEF TypeOK, Ends, AwaitsDetach, WaitsTyped, Place, setup
<1>5. /\ TypeOK' /\ FeedOK' /\ SeenOK' /\ phase' \in Armed
      /\ \A n \in Signals, d \in Documents : Own(n, d) => Own(n, d)'
      /\ \A x \in Answer : Told(x) => Told(x)'
  BY <1>1, <1>2, <1>3, <1>4, WaitFrame
<1>6. PhaseOK'
  BY <1>1, <1>2, <1>3, <1>5 DEF PhaseOK, Armed, pageVars, setup, tracker
<1>7. StateOK'
  <2>1. ASSUME NEW x, x = state, x # NoState
        PROVE  /\ client = "node" => phase' = "closed"
               /\ x.via \in Signals => Own(x.via, x.doc)'
               /\ Told(x)'
    <3>1. x \in Answer /\ Told(x) /\ (x.via \in Signals => Own(x.via, x.doc))
      BY <1>2, <2>1 DEF TypeOK, IInv, StateOK
    <3>2. x.via \in Signals => Own(x.via, x.doc)'
      BY <1>5, <3>1 DEF Own
    <3> QED  BY <1>3, <1>5, <3>1, <3>2
  <2> QED  BY <1>1, <2>1 DEF StateOK, Own, IsLast, Told, setup
<1>8. RetOK'
  <2>1. ASSUME NEW v \in Waiter, NEW x, x = ret'[v], x # NoState PROVE Told(x)'
    <3>1. x = ret[v]  BY <1>1, <2>1 DEF Ends
    <3>2. x \in Answer /\ Told(x)  BY <1>2, <2>1, <3>1 DEF TypeOK, IInv, RetOK
    <3> QED  BY <1>5, <3>2
  <2> QED  BY <2>1 DEF RetOK, Told
<1>9. TurnOK'
  <2> SUFFICES ASSUME Shared' PROVE /\ \A v \in Waiter : ~Waiting(v)'
                                    /\ \A v \in Waiter : ret'[v] = NoState
    BY DEF TurnOK
  <2>1. Shared  BY <1>1 DEF Shared, setup
  <2>2. /\ \A v \in Waiter : ret[v] = NoState
        /\ \A v \in Waiter : Waiting(v) => v = w
    BY <2>1, FirstAnswer
  <2>3. \A v \in Waiter : ~Waiting(v)'
    BY <1>1, <1>2, <2>2 DEF Ends, Waiting, TypeOK
  <2>4. \A v \in Waiter : ret'[v] = NoState
    BY <1>1, <1>2, <2>2 DEF Ends
  <2> QED  BY <2>3, <2>4
<1> QED  BY <1>3, <1>5, <1>6, <1>7, <1>8, <1>9 DEF IInv

-----------------------------------------------------------------------------
(* What a wait can end in.                                                 *)

\* The fallback answers with what was seen, and that is the page's own.
LEMMA FallbackAnswer ==
  ASSUME IInv
  PROVE  \E a \in Answer : /\ a = FallbackState
                           /\ a.via \in Signals => Own(a.via, a.doc)
                           /\ Told(a)
                           /\ a.via # "waitForSettle"
                           /\ a.via \in {"load", "timeout"} => ~AlmostIdle
<1> DEFINE Settled(n) == [via |-> n, doc |-> seen[n], outcome |-> "settled", bad |-> FALSE,
                        unread |-> FALSE]
           Nothing == [via |-> "timeout", doc |-> 0, outcome |-> "timeout", bad |-> FALSE,
                       unread |-> FALSE]
<1>1. ASSUME NEW n \in Signals, seen[n] # NoDoc
      PROVE  Settled(n) \in Answer /\ Own(n, seen[n])
  <2>1. Own(n, seen[n])  BY <1>1 DEF IInv, SeenOK
  <2>2. seen[n] \in 0 .. MaxDoc  BY <2>1, MaxDocAssumption DEF Own, Documents
  <2> QED  BY <2>1, <2>2 DEF Answer
<1>2. Nothing \in Answer  BY MaxDocAssumption DEF Answer
<1>3. FallbackState = IF AlmostIdle THEN Settled("networkAlmostIdle")
                      ELSE IF seen["load"] # NoDoc THEN Settled("load") ELSE Nothing
  BY DEF FallbackState, Result
<1> HIDE DEF Settled, Nothing
<1>4. CASE AlmostIdle
  <2>1. Settled("networkAlmostIdle") \in Answer /\ Own("networkAlmostIdle", seen["networkAlmostIdle"])
    BY <1>1, <1>4 DEF Signals, AlmostIdle
  <2> QED  BY <1>3, <1>4, <2>1 DEF Settled, Told
<1>5. CASE ~AlmostIdle /\ seen["load"] # NoDoc
  <2>1. Settled("load") \in Answer /\ Own("load", seen["load"])
    BY <1>1, <1>5 DEF Signals
  <2> QED  BY <1>3, <1>5, <2>1 DEF Settled, Told
<1>6. CASE ~AlmostIdle /\ seen["load"] = NoDoc
  BY <1>2, <1>3, <1>6 DEF Nothing, Told, Signals
<1> QED  BY <1>4, <1>5, <1>6

\* A verdict is one of the three outcomes, and a wall's says so on either half.
LEMMA VerdictTells ==
  ASSUME NEW v \in Verdicts
  PROVE  /\ v.outcome \in {"settled", "timeout", "challenge"} /\ v.bad \in BOOLEAN
         /\ doc \in walls => v.outcome = "challenge" \/ v.bad
<1>1. CASE doc \in walls
  <2>1. \/ v = [outcome |-> "challenge", bad |-> TRUE]
        \/ v = [outcome |-> "challenge", bad |-> FALSE]
        \/ v = [outcome |-> "timeout", bad |-> TRUE]
    BY <1>1 DEF Verdicts
  <2>2. CASE v = [outcome |-> "challenge", bad |-> TRUE]  BY <2>2
  <2>3. CASE v = [outcome |-> "challenge", bad |-> FALSE]  BY <2>3
  <2>4. CASE v = [outcome |-> "timeout", bad |-> TRUE]  BY <2>4
  <2> QED  BY <2>1, <2>2, <2>3, <2>4
<1>2. CASE doc \notin walls
  <2>1. PICK o \in {"settled", "timeout"} : v = [outcome |-> o, bad |-> FALSE]
    BY <1>2 DEF Verdicts
  <2> QED  BY <1>2, <2>1
<1> QED  BY <1>1, <1>2

\* The command answers about the document that is there; a wall is told where the
\* outcome is found.
LEMMA CommandAnswer ==
  ASSUME IInv, NEW r \in Replies, ~Raises(r), ~FallsBack(r)
  PROVE  \E a \in Answer : /\ a = FromReply(r)
                           /\ a.via = "waitForSettle"
                           /\ Told(a)
<1>1. doc \in 0 .. MaxDoc /\ doc <= doc
  <2>1. doc \in 0 .. MaxDoc  BY DEF IInv, TypeOK, PageTypeOK
  <2> QED  BY <2>1, MaxDocAssumption
<1>2. \/ r.kind \in {"answer", "envelope"} /\ r.verdict \in Verdicts
      \/ r.kind = "drifted" /\ r.verdict \in [outcome : {"timeout"}, bad : BOOLEAN]
  BY DEF Replies, Raises, FallsBack, Reply, NoVerdict
<1>3. /\ r.verdict.outcome \in {"settled", "timeout", "challenge"}
      /\ r.verdict.bad \in BOOLEAN
      /\ doc \in walls /\ r.kind # "drifted" => r.verdict.outcome = "challenge" \/ r.verdict.bad
  BY <1>2, VerdictTells
<1> DEFINE unopened == client = "node" /\ r.kind = "envelope"
           v == IF unopened THEN NoVerdict ELSE r.verdict
<1>4. /\ v.outcome \in {"settled", "timeout", "challenge"} /\ v.bad \in BOOLEAN
      /\ ~unopened /\ doc \in walls /\ r.kind # "drifted"
           => v.outcome = "challenge" \/ v.bad
  BY <1>3 DEF NoVerdict
<1>5. PICK un \in BOOLEAN : un = (unopened \/ r.kind = "drifted")
  OBVIOUS
<1>6. FromReply(r) = [via |-> "waitForSettle", doc |-> doc, outcome |-> v.outcome,
                      bad |-> v.bad, unread |-> un]
  BY <1>5 DEF FromReply, Result
<1>7. ~un /\ doc \in walls => v.outcome = "challenge" \/ v.bad
  BY <1>4, <1>5
<1> HIDE DEF v, unopened
<1>8. FromReply(r) \in Answer
  BY <1>1, <1>4, <1>6 DEF Answer
<1>9. /\ FromReply(r).via = "waitForSettle" /\ FromReply(r).doc = doc
      /\ FromReply(r).outcome = v.outcome /\ FromReply(r).bad = v.bad
      /\ FromReply(r).unread = un
  BY <1>6
<1>10. Told(FromReply(r))
  BY <1>1, <1>7, <1>9, Zenon DEF Told, Blocked
<1> QED  BY <1>8, <1>9, <1>10

\* The reply to the command: an exception, an answer, or on to the fallback.
LEMMA CommandRepliesIInv ==
  ASSUME IInv, NEW w \in Waiter, CommandReplies(w)
  PROVE  IInv'
<1>1. Waiting(w)  BY DEF CommandReplies, Waiting
<1>2. PICK r \in Replies :
        \/ Raises(r) /\ Raise(w)
        \/ ~Raises(r) /\ ~FallsBack(r) /\ Settle(w, FromReply(r))
        \/ /\ FallsBack(r)
           /\ Goto(w, "fallback")
           /\ UNCHANGED <<pageVars, setup, phase, tracker, state, late, ret, detaches>>
  BY DEF CommandReplies
<1>3. CASE Raise(w)  BY <1>1, <1>3, RaiseIInv
<1>4. CASE ~Raises(r) /\ ~FallsBack(r) /\ Settle(w, FromReply(r))
  <2>1. PICK a \in Answer : a = FromReply(r) /\ a.via = "waitForSettle" /\ Told(a)
    BY <1>4, CommandAnswer
  <2>2. a.via \notin Signals  BY <2>1 DEF Signals
  <2> QED  BY <1>1, <1>4, <2>1, <2>2, SettleIInv
<1>5. CASE /\ Goto(w, "fallback")
           /\ UNCHANGED <<pageVars, setup, phase, tracker, state, late, ret, detaches>>
  <2>1. TypeOK /\ PhaseOK /\ SessionOK /\ StateOK /\ RetOK /\ TurnOK /\ phase \in Armed
    BY <1>1 DEF IInv, PhaseOK, Waiting
  <2>2. WaitsTyped' /\ detaches' \in Nat /\ phase' = phase
    BY <1>5, <2>1 DEF TypeOK, Goto, WaitsTyped, Place, setup
  <2>3. TypeOK' /\ FeedOK' /\ SeenOK'
    BY <1>5, <2>1, <2>2, WaitFrame
  <2>4. PhaseOK' /\ SessionOK'
    BY <1>5, <2>1 DEF PhaseOK, SessionOK, SessionReleased, pageVars, setup, tracker
  <2>5. StateOK' /\ RetOK'
    BY <1>5, <2>1 DEF StateOK, RetOK, Own, IsLast, Told, Blocked, pageVars, setup, tracker
  <2>6. \A v \in Waiter : Waiting(v)' => Waiting(v)
    BY <1>1, <1>5, <2>1 DEF Goto, Waiting, TypeOK
  <2>7. TurnOK'
    BY <1>5, <2>1, <2>6 DEF TurnOK, Shared, setup
  <2> QED  BY <2>3, <2>4, <2>5, <2>7 DEF IInv
<1> QED  BY <1>2, <1>3, <1>4, <1>5

\* The deadline beats the command, or the fallback has what it waited for.
LEMMA FallsBackIInv ==
  ASSUME IInv, NEW w \in Waiter, CommandCutOff(w) \/ FallBack(w)
  PROVE  IInv'
<1>1. Waiting(w) /\ Settle(w, FallbackState)
  BY DEF CommandCutOff, FallBack, Waiting
<1>2. PICK a \in Answer : /\ a = FallbackState
                          /\ a.via \in Signals => Own(a.via, a.doc)
                          /\ Told(a)
  BY FallbackAnswer
<1> QED  BY <1>1, <1>2, SettleIInv

-----------------------------------------------------------------------------
(* The other steps of a wait.                                              *)

\* A wait begins, joins another, or is answered from memory.
LEMMA CallIInv ==
  ASSUME IInv, NEW w \in Waiter, Call(w)
  PROVE  IInv'
<1>1. /\ pc[w] = "idle" /\ phase \in Armed
      /\ UNCHANGED <<pageVars, setup, phase, tracker, state, late, detaches>>
  BY DEF Call, Armed
<1>2. TypeOK /\ PhaseOK /\ SessionOK /\ StateOK /\ RetOK /\ TurnOK
  BY DEF IInv
<1>3. PICK p \in Place \ {"closing"} : Goto(w, p)
  BY DEF Call, Place
<1>4. ret' = ret \/ (state # NoState /\ ret' = [ret EXCEPT ![w] = state])
  BY DEF Call, Memo
<1>5. WaitsTyped' /\ detaches' \in Nat
  BY <1>1, <1>2, <1>3, <1>4 DEF TypeOK, Goto, WaitsTyped, Place, setup
<1>6. TypeOK' /\ FeedOK' /\ SeenOK'
  BY <1>1, <1>5, WaitFrame
<1>7. PhaseOK' /\ SessionOK'
  BY <1>1, <1>2, <1>3 DEF PhaseOK, SessionOK, SessionReleased, pageVars, setup, tracker
<1>8. StateOK'
  BY <1>1, <1>2 DEF StateOK, Own, IsLast, Told, Blocked, pageVars, setup, tracker
<1>9. RetOK'
  <2>1. ASSUME NEW v \in Waiter, ret'[v] # NoState
        PROVE  \/ ret'[v] = ret[v] /\ ret[v] # NoState
               \/ ret'[v] = state /\ state # NoState
    <3>1. ret \in [Waiter -> Answer \cup {NoState}]  BY <1>2 DEF TypeOK
    <3> QED  BY <1>4, <2>1, <3>1
  <2> QED  BY <1>1, <1>2, <2>1 DEF RetOK, StateOK, Told, Blocked, pageVars, setup
<1>10. TurnOK'
  <2> SUFFICES ASSUME Shared' PROVE TurnOK'
    BY DEF TurnOK
  <2>1. /\ Shared
        /\ \A u, v \in Waiter : Waiting(u) /\ Waiting(v) => u = v
        /\ \A v \in Waiter : Waiting(v) => state = NoState
        /\ \A v \in Waiter : ret[v] # NoState => ret[v] = state
    BY <1>1, <1>2 DEF TurnOK, Shared, setup
  <2>2. \A v \in Waiter : ret'[v] # NoState => ret'[v] = state'
    BY <1>1, <1>2, <1>4, <2>1 DEF TypeOK
  <2>3. \A v \in Waiter \ {w} : Waiting(v)' <=> Waiting(v)
    BY <1>2, <1>3 DEF Goto, Waiting, TypeOK
  <2>4. ASSUME Waiting(w)' PROVE state = NoState /\ \A v \in Waiter : ~Waiting(v)
    <3>1. state = NoState
      BY <1>2, <2>4 DEF Call, Memo, Goto, Waiting, TypeOK
    <3>2. ASSUME NEW v \in Waiter, Waiting(v) PROVE FALSE
      <4>1. client = "node"  BY <2>1, <3>2 DEF Call, Busy, Shared
      <4>2. pc'[w] \in {"joined", "returned", "raised"}
        BY <1>2, <3>2, <4>1 DEF Call, Goto, TypeOK
      <4> QED  BY <2>4, <4>2 DEF Waiting
    <3> QED  BY <3>1, <3>2
  <2> QED  BY <1>1, <2>1, <2>2, <2>3, <2>4 DEF TurnOK
<1> QED  BY <1>6, <1>7, <1>8, <1>9, <1>10 DEF IInv

\* Node's detach() is answered, and what was decided comes out.
LEMMA DetachedIInv == IInv /\ Detached => IInv'
<1> SUFFICES ASSUME IInv, Detached PROVE IInv'
  OBVIOUS
<1>1. /\ \E w \in Waiter : pc[w] = "closing"
      /\ pc' = [w \in Waiter |-> IF pc[w] # "closing" THEN pc[w]
                                ELSE IF state = NoState THEN "raised" ELSE "returned"]
      /\ ret' = [w \in Waiter |-> IF pc[w] = "closing" THEN state ELSE ret[w]]
      /\ UNCHANGED <<pageVars, setup, phase, tracker, state, late, detaches>>
  BY DEF Detached
<1>2. TypeOK /\ PhaseOK /\ SessionOK /\ StateOK /\ RetOK /\ TurnOK /\ phase \in Armed
  BY <1>1 DEF IInv, PhaseOK
<1>3. WaitsTyped' /\ detaches' \in Nat
  BY <1>1, <1>2 DEF TypeOK, WaitsTyped, Place
<1>4. TypeOK' /\ FeedOK' /\ SeenOK'
  BY <1>1, <1>2, <1>3, WaitFrame
<1>5. PhaseOK' /\ SessionOK'
  BY <1>1, <1>2 DEF PhaseOK, SessionOK, SessionReleased, pageVars, setup, tracker
<1>6. StateOK'
  BY <1>1, <1>2 DEF StateOK, Own, IsLast, Told, Blocked, pageVars, setup, tracker
<1>7. RetOK'
  <2>1. ASSUME NEW v \in Waiter, NEW x, x = ret'[v], x # NoState PROVE Told(x)
    <3>1. x = state \/ x = ret[v]  BY <1>1, <2>1
    <3> QED  BY <1>2, <2>1, <3>1 DEF StateOK, RetOK
  <2> QED  BY <1>1, <2>1 DEF RetOK, Told, Blocked, pageVars, setup
<1>8. TurnOK'
  <2>1. \A v \in Waiter : Waiting(v)' => Waiting(v)
    BY <1>1 DEF Waiting
  <2>2. \A v \in Waiter : ret'[v] = state \/ ret'[v] = ret[v]
    BY <1>1
  <2> QED  BY <1>1, <1>2, <2>1, <2>2 DEF TurnOK, Shared, setup
<1> QED  BY <1>4, <1>5, <1>6, <1>7, <1>8 DEF IInv

\* A deadline passes, or the caller gives up.
LEMMA LeaveIInv ==
  ASSUME IInv, NEW w \in Waiter, DeadlinePasses(w) \/ Cancel(w)
  PROVE  IInv'
<1>1. /\ Waiting(w)
      /\ UNCHANGED <<pageVars, setup, phase, tracker, state, ret, detaches>>
      /\ UNCHANGED pc \/ Goto(w, "cancelled")
      /\ \E b \in BOOLEAN : late' = [late EXCEPT ![w] = b]
  BY DEF DeadlinePasses, Cancel
<1>2. TypeOK /\ PhaseOK /\ SessionOK /\ StateOK /\ RetOK /\ TurnOK /\ phase \in Armed
  BY <1>1 DEF IInv, PhaseOK, Waiting
<1>3. WaitsTyped' /\ detaches' \in Nat
  BY <1>1, <1>2 DEF TypeOK, Goto, WaitsTyped, Place, setup
<1>4. TypeOK' /\ FeedOK' /\ SeenOK'
  BY <1>1, <1>2, <1>3, WaitFrame
<1>5. PhaseOK' /\ SessionOK'
  BY <1>1, <1>2 DEF PhaseOK, SessionOK, SessionReleased, pageVars, setup, tracker
<1>6. StateOK' /\ RetOK'
  BY <1>1, <1>2 DEF StateOK, RetOK, Own, IsLast, Told, Blocked, pageVars, setup, tracker
<1>7. \A v \in Waiter : Waiting(v)' => Waiting(v)
  BY <1>1, <1>2 DEF Goto, Waiting, TypeOK
<1>8. TurnOK'
  BY <1>1, <1>2, <1>7 DEF TurnOK, Shared, setup
<1> QED  BY <1>4, <1>5, <1>6, <1>8 DEF IInv

-----------------------------------------------------------------------------
(* Arming and closing.                                                     *)

Phase == {"arming", "window", "armed", "failed", "closing", "closed", "abandoned"}

\* What a step of the watch's life alone has to show.
LEMMA PhaseIInv ==
  ASSUME IInv, UNCHANGED <<pageVars, setup, tracker, waits>>,
         phase' \in Phase, detaches' \in Nat,
         phase = "closed" => phase' = "closed", PhaseOK', SessionOK'
  PROVE  IInv'
<1>1. TypeOK'
  BY DEF IInv, TypeOK, PageTypeOK, pageVars, setup, tracker, waits, Phase
<1>2. FeedOK' /\ SeenOK'
  BY DEF IInv, FeedOK, Genuine, SeenOK, Own, IsLast, pageVars, setup, tracker
<1>3. StateOK' /\ RetOK' /\ TurnOK'
  BY DEF IInv, StateOK, RetOK, TurnOK, Own, IsLast, Told, Blocked, Shared, Waiting,
         pageVars, setup, tracker, waits
<1> QED  BY <1>1, <1>2, <1>3 DEF IInv

\* Arming fails before anyone waits, and except in Python releases the session.
LEMMA ArmFailsIInv == IInv /\ ArmFails => IInv'
<1> SUFFICES ASSUME IInv, ArmFails PROVE IInv'
  OBVIOUS
<1>1. /\ phase = "arming" /\ phase' = "failed"
      /\ IF client \in Python THEN UNCHANGED detaches ELSE Detach
      /\ UNCHANGED <<pageVars, setup, tracker, waits>>
  BY DEF ArmFails
<1>2. TypeOK /\ PhaseOK /\ SessionOK  BY DEF IInv
<1>3. detaches = 0  BY <1>1, <1>2 DEF SessionOK
<1>4. PhaseOK'
  BY <1>1, <1>2 DEF PhaseOK, Armed, setup, waits
<1>5. detaches' \in Nat /\ SessionOK'
  BY <1>1, <1>2, <1>3 DEF TypeOK, SessionOK, SessionReleased, Detach, setup
<1> QED  BY <1>1, <1>4, <1>5, PhaseIInv DEF Phase

\* The window closes once the incumbent has been written off.
LEMMA CloseWindowIInv == IInv /\ CloseWindow => IInv'
<1> SUFFICES ASSUME IInv, CloseWindow PROVE IInv'
  OBVIOUS
<1>1. /\ phase = "window" /\ 0 \in stale /\ phase' = "armed"
      /\ UNCHANGED <<pageVars, setup, tracker, waits, detaches>>
  BY DEF CloseWindow
<1>2. TypeOK /\ PhaseOK /\ SessionOK  BY DEF IInv
<1>3. PhaseOK'
  BY <1>1, <1>2 DEF PhaseOK, Armed, setup, tracker, waits
<1>4. detaches' \in Nat /\ SessionOK'
  BY <1>1, <1>2 DEF TypeOK, SessionOK, SessionReleased, setup
<1> QED  BY <1>1, <1>3, <1>4, PhaseIInv DEF Phase

\* close(), in the two steps of Rust's or in one, or given up between the two.
LEMMA CloseIInv == IInv /\ (Close \/ CloseEnds \/ CancelClose) => IInv'
<1> SUFFICES ASSUME IInv, Close \/ CloseEnds \/ CancelClose PROVE IInv'
  OBVIOUS
<1>1. /\ phase \in {"armed", "closing"}
      /\ UNCHANGED <<pageVars, setup, tracker, waits>>
  BY DEF Close, CloseEnds, CancelClose
<1>2. TypeOK /\ PhaseOK /\ SessionOK /\ phase \in Armed
  BY <1>1 DEF IInv, Armed
<1>3. CASE Release
  <2>1. phase' = "closed" /\ detaches' \in Nat /\ SessionOK'
    BY <1>1, <1>2, <1>3, ReleaseOnce
  <2>2. PhaseOK'
    BY <1>1, <1>2, <2>1 DEF PhaseOK, Armed, setup, tracker, waits
  <2> QED  BY <1>1, <2>1, <2>2, PhaseIInv DEF Phase
<1>4. CASE phase' \in {"closing", "abandoned"} /\ client = "rust" /\ UNCHANGED detaches
  <2>1. PhaseOK'
    BY <1>1, <1>2, <1>4 DEF PhaseOK, Armed, setup, tracker, waits
  <2>2. detaches' \in Nat /\ SessionOK'
    BY <1>1, <1>2, <1>4 DEF TypeOK, SessionOK, SessionReleased, setup
  <2> QED  BY <1>1, <1>4, <2>1, <2>2, PhaseIInv DEF Phase
<1>5. Release \/ (phase' \in {"closing", "abandoned"} /\ client = "rust" /\ UNCHANGED detaches)
  BY <1>2 DEF Close, CloseEnds, CancelClose, PhaseOK
<1> QED  BY <1>3, <1>4, <1>5

\* The replay is all there is to read at first.
LEMMA EnableIInv == IInv /\ Enable => IInv'
<1> SUFFICES ASSUME IInv, Enable PROVE IInv'
  OBVIOUS
<1>1. /\ phase = "arming" /\ phase' = "window"
      /\ stale' \in SUBSET {0}
      /\ feed' = <<MainEvent(0, "load"), MainEvent(0, "networkAlmostIdle")>>
      /\ UNCHANGED <<doc, fired, subframe, walls, gone>>
      /\ UNCHANGED <<setup, loaders, seen, waits, detaches>>
  BY DEF Enable, Replay
<1>2. TypeOK /\ PhaseOK /\ SessionOK  BY DEF IInv
<1>3. TypeOK'
  <2>1. MainEvent(0, "load") \in Event /\ MainEvent(0, "networkAlmostIdle") \in Event
    BY MaxDocAssumption DEF MainEvent, Event, Signals
  <2>2. feed' \in Seq(Event)  BY <1>1, <2>1
  <2>3. PageTypeOK'  BY <1>1, <1>2, <2>2 DEF TypeOK, PageTypeOK
  <2> QED  BY <1>1, <1>2, <2>3 DEF TypeOK, setup, waits
<1>4. Len(feed') = 2 /\ \A i \in 1 .. Len(feed') : feed'[i].loader = 0
  BY <1>1 DEF MainEvent
<1>5. PhaseOK'
  BY <1>1, <1>2, <1>4 DEF PhaseOK, Armed, setup, waits
<1>6. SessionOK'
  BY <1>1, <1>2 DEF SessionOK, SessionReleased, setup
<1>7. FeedOK'
  BY <1>4 DEF FeedOK, Genuine
<1>8. SeenOK' /\ StateOK'
  BY <1>1 DEF IInv, SeenOK, StateOK, Own, IsLast, Told, Blocked, setup, waits
<1>9. RetOK' /\ TurnOK'
  BY <1>1 DEF IInv, RetOK, TurnOK, Told, Blocked, Shared, Waiting, setup, waits
<1> QED  BY <1>3, <1>5, <1>6, <1>7, <1>8, <1>9 DEF IInv

-----------------------------------------------------------------------------
(* The page, and what is read of it.                                       *)

\* The page takes nothing back: it adds an event that is true to the feed, and
\* what it says of the documents there already stays as it is.
LEMMA PageOnward ==
  ASSUME IInv, PageStep
  PROVE  /\ PageTypeOK'
         /\ \A d \in Documents : fired[d] \subseteq fired'[d]
         /\ doc \in Nat /\ doc' \in Nat /\ doc <= doc'
         /\ \A d \in Nat : d <= doc /\ d \in walls' => d \in walls
         /\ \/ UNCHANGED feed
            \/ \E e \in Event : feed' = Append(feed, e) /\ Genuine(e)'
<1>1. /\ doc \in 0 .. MaxDoc /\ doc \in Nat /\ MaxDoc \in Nat
      /\ fired \in [Documents -> SUBSET Signals]
      /\ subframe \in BOOLEAN /\ walls \in SUBSET Documents
      /\ feed \in Seq(Event) /\ gone \in BOOLEAN
  BY MaxDocAssumption DEF IInv, TypeOK, PageTypeOK
<1>2. CASE Commit
  <2>1. /\ doc < MaxDoc /\ doc' = doc + 1
        /\ walls' \in {walls, walls \cup {doc + 1}}
        /\ feed' = Append(feed, MainEvent(doc + 1, "commit"))
        /\ UNCHANGED <<fired, subframe, gone>>
    BY <1>2 DEF Commit, Emit
  <2>2. MainEvent(doc + 1, "commit") \in Event /\ Genuine(MainEvent(doc + 1, "commit"))
    BY <1>1, <2>1 DEF MainEvent, Event, Genuine, Signals
  <2>3. PICK e \in Event : e = MainEvent(doc + 1, "commit") /\ e.name \notin Signals
    BY <2>2 DEF MainEvent, Signals
  <2>4. feed' = Append(feed, e) /\ Genuine(e)'  BY <2>1, <2>3 DEF Genuine
  <2>5. doc' \in 0 .. MaxDoc /\ walls' \in SUBSET Documents
    BY <1>1, <2>1 DEF Documents
  <2>6. feed' \in Seq(Event)  BY <1>1, <2>4
  <2>7. \A d \in Nat : d <= doc /\ d \in walls' => d \in walls  BY <1>1, <2>1
  <2>8. PageTypeOK'  BY <1>1, <2>1, <2>5, <2>6 DEF PageTypeOK
  <2> QED  BY <1>1, <2>1, <2>4, <2>7, <2>8
<1>3. ASSUME NEW n \in Signals, Fire(n)
      PROVE  /\ PageTypeOK'
             /\ \A d \in Documents : fired[d] \subseteq fired'[d]
             /\ UNCHANGED <<doc, walls>>
             /\ \E e \in Event : feed' = Append(feed, e) /\ Genuine(e)'
  <2>1. /\ doc > 0 /\ fired' = [fired EXCEPT ![doc] = @ \cup {n}]
        /\ feed' = Append(feed, MainEvent(doc, n))
        /\ UNCHANGED <<doc, subframe, walls, gone>>
    BY <1>3 DEF Fire, Emit
  <2>2. PICK e \in Event : e = MainEvent(doc, n) /\ e.name = n /\ e.loader = doc
    <3>1. MainEvent(doc, n) \in Event  BY <1>1 DEF MainEvent, Event
    <3>2. MainEvent(doc, n).name = n /\ MainEvent(doc, n).loader = doc  BY DEF MainEvent
    <3> QED  BY <3>1, <3>2
  <2>3. doc \in Documents  BY <1>1, <2>1 DEF Documents
  <2>4. Genuine(e)'  BY <1>1, <2>1, <2>2, <2>3 DEF Genuine
  <2>5. fired' \in [Documents -> SUBSET Signals] /\ \A d \in Documents : fired[d] \subseteq fired'[d]
    BY <1>1, <2>1, <2>3
  <2>6. feed' \in Seq(Event)  BY <1>1, <2>1, <2>2
  <2>7. PageTypeOK'  BY <1>1, <2>1, <2>5, <2>6 DEF PageTypeOK
  <2> QED  BY <2>1, <2>2, <2>4, <2>5, <2>7
<1>4. CASE SubframeIdle
  <2>1. /\ subframe' = TRUE
        /\ feed' = Append(feed, [main |-> FALSE, loader |-> doc, name |-> "networkAlmostIdle"])
        /\ UNCHANGED <<doc, fired, walls, gone>>
    BY <1>4 DEF SubframeIdle, Emit
  <2>2. PICK e \in Event : /\ e = [main |-> FALSE, loader |-> doc, name |-> "networkAlmostIdle"]
                           /\ ~e.main
    <3> DEFINE f == [main |-> FALSE, loader |-> doc, name |-> "networkAlmostIdle"]
    <3>1. f \in Event  BY <1>1 DEF Event, Signals
    <3>2. ~f.main  OBVIOUS
    <3> QED  BY <3>1, <3>2
  <2>3. feed' = Append(feed, e) /\ Genuine(e)'  BY <2>1, <2>2 DEF Genuine
  <2>4. feed' \in Seq(Event)  BY <1>1, <2>3
  <2>5. subframe' \in BOOLEAN  BY <2>1
  <2>6. PageTypeOK'  BY <1>1, <2>1, <2>4, <2>5 DEF PageTypeOK
  <2> QED  BY <1>1, <2>1, <2>3, <2>6
<1>5. CASE PageGone
  <2>1. PageTypeOK'
    <3>1. gone' \in BOOLEAN  BY <1>5 DEF PageGone
    <3> QED  BY <1>1, <1>5, <3>1 DEF PageGone, PageTypeOK
  <2> QED  BY <1>1, <1>5, <2>1 DEF PageGone
<1> QED  BY <1>1, <1>2, <1>3, <1>4, <1>5 DEF PageStep

\* Whatever the page goes through.
LEMMA PageStepIInv == IInv /\ PageStep => IInv'
<1> SUFFICES ASSUME IInv, PageStep PROVE IInv'
  OBVIOUS
<1>1. phase = "armed" /\ UNCHANGED watchVars  BY DEF PageStep
<1>2. TypeOK /\ PhaseOK /\ SessionOK /\ FeedOK /\ SeenOK /\ StateOK /\ RetOK /\ TurnOK
  BY DEF IInv
<1>3. /\ PageTypeOK'
      /\ \A d \in Documents : fired[d] \subseteq fired'[d]
      /\ doc \in Nat /\ doc' \in Nat /\ doc <= doc'
      /\ \A d \in Nat : d <= doc /\ d \in walls' => d \in walls
      /\ \/ UNCHANGED feed
         \/ \E e \in Event : feed' = Append(feed, e) /\ Genuine(e)'
  BY PageOnward
<1>4. TypeOK'
  BY <1>1, <1>2, <1>3 DEF TypeOK, watchVars
<1>5. PhaseOK' /\ SessionOK'
  BY <1>1, <1>2 DEF PhaseOK, Armed, SessionOK, SessionReleased, watchVars
<1>6. \A e \in Event : Genuine(e) => Genuine(e)'
  <2>1. \A e \in Event : e.loader # 0 => e.loader \in Documents
    BY MaxDocAssumption DEF Event, Documents
  <2> QED  BY <1>3, <2>1 DEF Genuine
<1>7. FeedOK'
  <2>1. feed \in Seq(Event)  BY <1>2 DEF TypeOK, PageTypeOK
  <2>2. \A i \in 1 .. Len(feed) : feed[i] \in Event  BY <2>1
  <2>3. CASE UNCHANGED feed  BY <1>2, <1>6, <2>2, <2>3 DEF FeedOK, Genuine
  <2>4. ASSUME NEW e \in Event, feed' = Append(feed, e), Genuine(e)' PROVE FeedOK'
    <3>1. ASSUME NEW i \in 1 .. Len(feed'), NEW x, x = feed'[i] PROVE Genuine(x)'
      <4>1. CASE i = Len(feed) + 1  BY <2>1, <2>4, <3>1, <4>1
      <4>2. CASE i # Len(feed) + 1
        <5>1. i \in 1 .. Len(feed) /\ x = feed[i]  BY <2>1, <2>4, <3>1, <4>2
        <5> QED  BY <1>2, <1>6, <2>2, <5>1 DEF FeedOK
      <4> QED  BY <4>1, <4>2
    <3> QED  BY <3>1 DEF FeedOK, Genuine
  <2> QED  BY <1>3, <2>3, <2>4
<1>8. \A n \in Signals, d \in Documents : Own(n, d) => Own(n, d)'
  BY <1>1, <1>3 DEF Own, IsLast, watchVars
<1>9. \A x \in Answer : Told(x) => Told(x)'
  <2>1. \A x \in Answer : x.doc \in Nat  BY DEF Answer
  <2>2. UNCHANGED client  BY <1>1 DEF watchVars
  <2> QED  BY <1>3, <2>1, <2>2 DEF Told, Blocked
<1>10. SeenOK'
  <2>1. ASSUME NEW n \in Signals, NEW d, d = seen[n], d # NoDoc PROVE Own(n, d)'
    BY <1>2, <1>8, <2>1 DEF SeenOK, Own
  <2> QED  BY <1>1, <2>1 DEF SeenOK, Own, watchVars
<1>11. StateOK'
  <2>1. ASSUME NEW x, x = state, x # NoState
        PROVE  /\ client = "node" => phase = "closed"
               /\ x.via \in Signals => Own(x.via, x.doc)'
               /\ Told(x)'
    <3>1. x \in Answer  BY <1>2, <2>1 DEF TypeOK
    <3>2. /\ client = "node" => phase = "closed"
          /\ x.via \in Signals => Own(x.via, x.doc)
          /\ Told(x)
      BY <1>2, <2>1 DEF StateOK
    <3> QED  BY <1>8, <1>9, <3>1, <3>2 DEF Own
  <2> QED  BY <1>1, <2>1 DEF StateOK, Own, Told, watchVars
<1>12. RetOK'
  <2>1. ASSUME NEW v \in Waiter, NEW x, x = ret[v], x # NoState PROVE Told(x)'
    <3>1. x \in Answer /\ Told(x)  BY <1>2, <2>1 DEF TypeOK, RetOK
    <3> QED  BY <1>9, <3>1
  <2> QED  BY <1>1, <2>1 DEF RetOK, Told, watchVars
<1>13. TurnOK'
  BY <1>1, <1>2 DEF TurnOK, Shared, Waiting, watchVars
<1> QED  BY <1>4, <1>5, <1>7, <1>10, <1>11, <1>12, <1>13 DEF IInv

Evidence == [Signals -> 0 .. MaxDoc \cup {NoDoc}]

\* What is recorded is what was recorded before, or the event's own document.
LEMMA RecordKeeps ==
  ASSUME NEW s \in Evidence, NEW e \in Event
  PROVE  /\ Record(s, e) \in Evidence
         /\ \A n \in Signals : \/ Record(s, e)[n] = s[n]
                               \/ Record(s, e)[n] = e.loader /\ n = e.name
<1>1. e.loader \in 0 .. MaxDoc  BY DEF Event
<1> QED  BY <1>1 DEF Record, Evidence

\* One event of this navigation, in an armed watch: the tracker stays true.
LEMMA TrackIInv ==
  ASSUME IInv, NEW e \in Event, Genuine(e), e.main, e.loader \in Documents,
         IF client = "node" THEN Restart(e) ELSE Keep(e),
         UNCHANGED <<client, fired>>
  PROVE  /\ loaders' \in Seq(Documents)
         /\ seen' \in Evidence
         /\ SeenOK'
<1>1. loaders \in Seq(Documents) /\ seen \in Evidence  BY DEF IInv, TypeOK, Evidence
<1>2. SeenOK  BY DEF IInv
<1>3. e.loader # 0  BY DEF Documents
<1>4. e.name \in Signals => e.name \in fired[e.loader]  BY <1>3 DEF Genuine
<1>5. NoDoc \notin Documents  BY NoneAssumption, MaxDocAssumption DEF Documents
<1>6. CASE client # "node"
  <2>1. /\ loaders' \in {loaders, Append(loaders, e.loader)}
        /\ seen' = Record(seen, e)
    BY <1>6 DEF Keep
  <2>2. seen' \in Evidence /\ \A n \in Signals : \/ seen'[n] = seen[n]
                                                 \/ seen'[n] = e.loader /\ n = e.name
    BY <1>1, <2>1, RecordKeeps
  <2>3. loaders' \in Seq(Documents)  BY <1>1, <2>1
  <2>4. SeenOK'  BY <1>2, <1>4, <1>6, <2>2 DEF SeenOK, Own
  <2> QED  BY <2>2, <2>3, <2>4
<1>7. CASE client = "node" /\ IsLast(e.loader)
  <2>1. seen' = Record(seen, e) /\ UNCHANGED loaders  BY <1>7 DEF Restart
  <2>2. seen' \in Evidence /\ \A n \in Signals : \/ seen'[n] = seen[n]
                                                 \/ seen'[n] = e.loader /\ n = e.name
    BY <1>1, <2>1, RecordKeeps
  <2>3. SeenOK'  BY <1>2, <1>4, <1>7, <2>1, <2>2 DEF SeenOK, Own, IsLast
  <2> QED  BY <1>1, <2>1, <2>2, <2>3
<1>8. CASE client = "node" /\ ~IsLast(e.loader)
  <2>1. /\ loaders' = Append(loaders, e.loader)
        /\ seen' = Record([n \in Signals |-> NoDoc], e)
    BY <1>8 DEF Restart
  <2>2. [n \in Signals |-> NoDoc] \in Evidence  BY DEF Evidence
  <2>3. seen' \in Evidence /\ \A n \in Signals : \/ seen'[n] = NoDoc
                                                 \/ seen'[n] = e.loader /\ n = e.name
    BY <2>1, <2>2, RecordKeeps
  <2>4. loaders' \in Seq(Documents) /\ IsLast(e.loader)'
    BY <1>1, <2>1 DEF IsLast
  <2>5. SeenOK'
    <3>1. ASSUME NEW n \in Signals, NEW d, d = seen'[n], d # NoDoc PROVE Own(n, d)'
      <4>1. d = e.loader /\ n = e.name  BY <2>3, <3>1
      <4> QED  BY <1>4, <2>4, <4>1 DEF Own, IsLast
    <3> QED  BY <3>1 DEF SeenOK, Own, IsLast
  <2> QED  BY <2>3, <2>4, <2>5
<1> QED  BY <1>6, <1>7, <1>8

\* Reading an event of the feed.
LEMMA ObserveIInv == IInv /\ Observe => IInv'
<1> SUFFICES ASSUME IInv, Observe PROVE IInv'
  OBVIOUS
<1>1. /\ Reading /\ feed # <<>> /\ feed' = Tail(feed) /\ Note(Head(feed))
      /\ UNCHANGED <<doc, fired, subframe, walls, gone>>
      /\ UNCHANGED <<setup, phase, waits, detaches>>
  BY DEF Observe, Read
<1>2. TypeOK /\ PhaseOK /\ SessionOK /\ FeedOK /\ SeenOK /\ StateOK /\ RetOK /\ TurnOK
  BY DEF IInv
<1>3. feed \in Seq(Event) /\ loaders \in Seq(Documents) /\ seen \in Evidence /\ stale \in SUBSET {0}
  BY <1>2 DEF TypeOK, PageTypeOK, Evidence
<1>4. PICK e \in Event : e = Head(feed) /\ e = feed[1] /\ Len(feed) >= 1
  BY <1>1, <1>3
<1>5. /\ feed' \in Seq(Event) /\ Len(feed') = Len(feed) - 1
      /\ \A i \in 1 .. Len(feed') : feed'[i] = feed[i + 1] /\ i + 1 \in 1 .. Len(feed)
  BY <1>1, <1>3
<1>6. Genuine(e) /\ (phase = "window" => e.loader = 0)
  BY <1>2, <1>3, <1>4 DEF FeedOK, PhaseOK
<1>7. phase = "window" \/ phase \in Armed
  BY <1>1, <1>2 DEF Reading, PhaseOK, Armed
<1>8. /\ stale' \in SUBSET {0} /\ stale \subseteq stale'
      /\ loaders' \in Seq(Documents) /\ seen' \in Evidence /\ SeenOK'
  <2>1. CASE phase = "window"
    <3>1. stale' = stale \cup {0} /\ UNCHANGED <<loaders, seen>>
      BY <1>1, <1>4, <1>6, <2>1 DEF Note, Arming
    <3>2. SeenOK'
      BY <1>1, <1>2, <3>1 DEF SeenOK, Own, IsLast, setup
    <3> QED  BY <1>3, <3>1, <3>2
  <2>2. CASE phase # "window" /\ ~Counts(e)
    <3>1. UNCHANGED <<stale, loaders, seen>>
      BY <1>1, <1>4, <2>2 DEF Note, Arming
    <3>2. SeenOK'
      BY <1>1, <1>2, <3>1 DEF SeenOK, Own, IsLast, setup
    <3> QED  BY <1>3, <3>1, <3>2
  <2>3. CASE phase # "window" /\ Counts(e)
    <3>1. UNCHANGED stale /\ IF client = "node" THEN Restart(e) ELSE Keep(e)
      BY <1>1, <1>4, <2>3 DEF Note, Arming
    <3>2. 0 \in stale  BY <1>2, <1>7, <2>3 DEF PhaseOK
    <3>3. e.main /\ e.loader # 0  BY <2>3, <3>2 DEF Counts
    <3>4. e.loader \in Documents  BY <3>3, MaxDocAssumption DEF Event, Documents
    <3> QED  BY <1>1, <1>3, <1>6, <3>1, <3>3, <3>4, TrackIInv DEF setup
  <2> QED  BY <2>1, <2>2, <2>3
<1>9. TypeOK'
  <2>1. PageTypeOK'  BY <1>1, <1>2, <1>5 DEF TypeOK, PageTypeOK
  <2> QED  BY <1>1, <1>2, <1>8, <2>1 DEF TypeOK, Evidence, setup, waits
<1>10. PhaseOK'
  BY <1>1, <1>2, <1>5, <1>8 DEF PhaseOK, Armed, setup, waits
<1>11. SessionOK'
  BY <1>1, <1>2 DEF SessionOK, SessionReleased, setup
<1>12. FeedOK'
  BY <1>1, <1>2, <1>5 DEF FeedOK, Genuine
<1>13. StateOK'
  <2>1. CASE state = NoState  BY <1>1, <2>1 DEF StateOK, waits
  <2>2. CASE state # NoState
    <3>1. client # "node"
      <4>1. SUFFICES ASSUME client = "node" PROVE FALSE  OBVIOUS
      <4>2. phase = "closed"  BY <1>2, <2>2, <4>1 DEF StateOK
      <4> QED  BY <1>1, <4>1, <4>2 DEF Reading, Rust
    <3> QED  BY <1>1, <1>2, <3>1 DEF StateOK, Own, Told, Blocked, setup, waits
  <2> QED  BY <2>1, <2>2
<1>14. RetOK' /\ TurnOK'
  BY <1>1, <1>2 DEF RetOK, TurnOK, Told, Blocked, Shared, Waiting, setup, waits
<1> QED  BY <1>8, <1>9, <1>10, <1>11, <1>12, <1>13, <1>14 DEF IInv

-----------------------------------------------------------------------------

\* Every step keeps the invariant.
LEMMA NextIInv == IInv /\ [Next]_vars => IInv'
<1> SUFFICES ASSUME IInv, [Next]_vars PROVE IInv'
  OBVIOUS
<1>1. CASE Enable \/ ArmFails \/ CloseWindow \/ Observe \/ PageStep
  BY <1>1, EnableIInv, ArmFailsIInv, CloseWindowIInv, ObserveIInv, PageStepIInv
<1>2. CASE Close \/ CloseEnds \/ CancelClose
  BY <1>2, CloseIInv
<1>3. CASE Detached
  BY <1>3, DetachedIInv
<1>4. ASSUME NEW w \in Waiter,
             \/ Call(w) \/ CommandReplies(w) \/ DeadlinePasses(w)
             \/ CommandCutOff(w) \/ FallBack(w) \/ Cancel(w)
      PROVE  IInv'
  BY <1>4, CallIInv, CommandRepliesIInv, LeaveIInv, FallsBackIInv
<1>5. CASE UNCHANGED vars
  <2>1. UNCHANGED <<pageVars, setup, tracker, waits, phase, detaches>>
    BY <1>5 DEF vars, pageVars, watchVars, setup, tracker, waits
  <2>2. phase' \in Phase /\ detaches' \in Nat /\ PhaseOK' /\ SessionOK'
    BY <2>1 DEF IInv, TypeOK, PhaseOK, SessionOK, SessionReleased, Phase, Armed,
                pageVars, setup, tracker, waits
  <2> QED  BY <2>1, <2>2, PhaseIInv
<1> QED  BY <1>1, <1>2, <1>3, <1>4, <1>5 DEF Next

\* The inductive invariant holds of every run of the watch.
THEOREM Invariant == Spec => []IInv
<1> QED  BY InitIInv, NextIInv, PTL DEF Spec

\* Every variable keeps its type, and no loader but the incumbent's is written off.
THEOREM TypeCorrect == Spec => []TypeOK
<1>1. IInv => TypeOK  BY DEF IInv
<1> QED  BY <1>1, Invariant, PTL

\* Whatever is replayed, redirected or left unread, and for all five clients: the
\* fallback only ever speaks of a signal the main frame emitted, for a document
\* committed after the watch was armed; Node's, of the last one it was shown.
THEOREM SourceCorrect == Spec => []OwnDocument
<1> QED  BY Invariant, Strong, PTL

\* An answer of the command about a wall, in which the client found an outcome, is
\* classified as blocked for everyone who is given it, also much later and from memory.
\* (settle_body, fromReply, _state_from_reply, wait)
THEOREM WallsCorrect == Spec => []WallsTold
<1> QED  BY Invariant, Strong, PTL

\* The session is detached at most once, by its owner alone, and it is detached when
\* a close() has ended.  (close, detach)
THEOREM ReleaseCorrect == Spec => []SessionReleased
<1> QED  BY Invariant, Strong, PTL

\* Everyone is told the same, in each implementation in which waits do not overlap
\* or join: all but the asyncio one.
THEOREM SharedAnswer == Spec => [](Shared => OneAnswer)
<1> QED  BY Invariant, Strong, PTL

\* So it is where a caller of the asyncio client does not overlap its waits either.
THEOREM AnswerCorrect ==
  ASSUME Overlapping \subseteq {"node"}
  PROVE  Spec => []OneAnswer
<1>1. Shared  BY DEF Shared
<1> QED  BY <1>1, SharedAnswer, PTL

\* The fallback answers only once the command is out of the picture, and with load
\* or nothing only when nothing better can come.  (fallback_state, wait)
THEOREM FallbackCorrect == Spec => LastResort
<1> DEFINE Last == state' # state /\ state'.via # "waitForSettle" =>
                     \E w \in Waiter :
                       /\ pc[w] = "fallback" \/ late[w] \/ gone
                       /\ state'.via \in {"load", "timeout"} => late[w] \/ gone \/ phase = "closed"
<1>1. IInv /\ [Next]_vars => [Last]_vars
  <2> SUFFICES ASSUME IInv, Next, state' # state, state'.via # "waitForSettle"
               PROVE  \E w \in Waiter :
                        /\ pc[w] = "fallback" \/ late[w] \/ gone
                        /\ state'.via \in {"load", "timeout"} => late[w] \/ gone \/ phase = "closed"
    OBVIOUS
  <2>1. PICK w \in Waiter : CommandReplies(w) \/ CommandCutOff(w) \/ FallBack(w)
    BY DEF Next, Enable, ArmFails, CloseWindow, Observe, PageStep, Close, CloseEnds,
           CancelClose, Detached, Call, DeadlinePasses, Cancel, waits, watchVars
  <2>2. PICK a \in Answer : /\ a = FallbackState
                            /\ a.via \in {"load", "timeout"} => ~AlmostIdle
    BY FallbackAnswer
  <2>3. CASE CommandReplies(w)
    <3>1. PICK r \in Replies : ~Raises(r) /\ ~FallsBack(r) /\ state' = FromReply(r)
      BY <2>3 DEF CommandReplies, Raise, Settle
    <3>2. state'.via = "waitForSettle"  BY <3>1, CommandAnswer
    <3> QED  BY <3>2
  <2>4. CASE CommandCutOff(w)
    BY <2>4 DEF CommandCutOff, FeedEnds
  <2>5. CASE FallBack(w)
    <3>1. state' = a /\ pc[w] = "fallback" /\ FallbackOver(w)
      BY <2>2, <2>5 DEF FallBack, Settle
    <3> QED  BY <2>2, <3>1 DEF FallbackOver, FeedEnds
  <2> QED  BY <2>1, <2>3, <2>4, <2>5
<1>2. LastResort <=> [][Last]_vars
  BY DEF LastResort
<1> QED  BY <1>1, <1>2, Invariant, PTL DEF Spec
==============================================================================
