----------------------------- MODULE SettleWatch -----------------------------
(***************************************************************************)
(* A page-completion watch, armed before a navigation and waited on after  *)
(* it: Chromeleon.waitForSettle, with the main frame's lifecycle events as *)
(* the fallback.  The five implementations are the values of client:       *)
(*   "rust", "rust_blocking"   rust/src/settle.rs SettleWatch and its twin *)
(*   "node"                    node/src/settle.js SettleWatch              *)
(*   "python", "python_async"  python/chromeleon/settle.py SettleWatch,    *)
(*                             AsyncSettleWatch                            *)
(* One watch, one page; several tasks may call wait() on it.               *)
(***************************************************************************)
EXTENDS Page

CONSTANTS Clients,      \* the implementations to consider
          Waiter,       \* the tasks that call wait(), once each
          Overlapping,  \* the implementations whose callers may overlap their waits
          NoDoc, NoState

Implementations == {"rust", "rust_blocking", "node", "python", "python_async"}

ASSUME ClientsAssumption == Clients \subseteq Implementations
\* &mut self, or the one thread of a blocking caller, excludes a second wait.
ASSUME OverlappingAssumption == Overlapping \subseteq {"node", "python_async"}

VARIABLES client,
          registered, \* was the browser launched with --page-settle?
          prefer,     \* the caller asked for networkAlmostIdle instead
          owned,      \* the watch attached its session itself
          phase,      \* of the watch
          stale,      \* loaders written off as the incumbent's
          loaders,    \* loaders counted as this navigation's, in order
          seen,       \* [Signals -> document]: the evidence for the fallback
          state,      \* the remembered answer
          pc,         \* [Waiter -> where its wait() is]
          late,       \* [Waiter -> has its deadline passed, while it waits?]
          ret,        \* [Waiter -> the answer wait() returned]
          detaches    \* how often the session was told to detach

watchVars == <<client, registered, prefer, owned, phase, stale, loaders, seen,
               state, pc, late, ret, detaches>>
vars == <<pageVars, watchVars>>

Rust == {"rust", "rust_blocking"}
Blocking == {"rust_blocking", "python"}
Python == {"python", "python_async"}

Answer == [via : Signals \cup {"waitForSettle", "timeout"}, doc : 0 .. MaxDoc,
           outcome : {"settled", "timeout", "challenge"}, bad : BOOLEAN,
           unread : BOOLEAN]  \* history: the client found no outcome in the reply

ASSUME NoneAssumption == NoDoc \notin 0 .. MaxDoc /\ NoState \notin Answer

\* Only the incumbent's loader is ever written off, and only Node's wait() still has
\* its session to release once its outcome is known.
TypeOK == /\ PageTypeOK
          /\ client \in Clients
          /\ registered \in BOOLEAN /\ prefer \in BOOLEAN /\ owned \in BOOLEAN
          /\ phase \in {"arming", "window", "armed", "failed", "closing", "closed", "abandoned"}
          /\ stale \in SUBSET {0}
          /\ loaders \in Seq(Documents)
          /\ seen \in [Signals -> 0 .. MaxDoc \cup {NoDoc}]
          /\ state \in Answer \cup {NoState}
          /\ pc \in [Waiter -> {"idle", "command", "fallback", "joined", "closing",
                                "returned", "raised", "cancelled"}]
          /\ \A w \in Waiter :
               pc[w] = "closing" => client = "node" /\ owned /\ phase = "closed"
          /\ late \in [Waiter -> BOOLEAN]
          /\ ret \in [Waiter -> Answer \cup {NoState}]
          /\ detaches \in Nat

Init == /\ PageInit
        /\ client \in Clients
        /\ prefer \in BOOLEAN
        /\ registered \in IF prefer THEN {TRUE} ELSE BOOLEAN
        /\ owned \in IF client \in Rust THEN {TRUE} ELSE BOOLEAN
        /\ phase = "arming"
        /\ stale = {}
        /\ loaders = <<>>
        /\ seen = [n \in Signals |-> NoDoc]
        /\ state = NoState
        /\ pc = [w \in Waiter |-> "idle"]
        /\ late = [w \in Waiter |-> FALSE]
        /\ ret = [w \in Waiter |-> NoState]
        /\ detaches = 0

setup == <<client, registered, prefer, owned>>
tracker == <<stale, loaders, seen>>
waits == <<state, pc, late, ret>>

Waiting(w) == pc[w] \in {"command", "fallback"}

Busy(w) == Waiting(w) \/ pc[w] = "closing"

-----------------------------------------------------------------------------
(* Arming *)

\* The commands up to Page.setLifecycleEventsEnabled.  Python also writes off the
\* loader Page.getFrameTree names; the others learn it from the replay alone.
Enable == /\ phase = "arming"
          /\ phase' = "window"
          /\ stale' = IF client \in Python THEN {0} ELSE {}
          /\ Replay
          /\ UNCHANGED <<setup, loaders, seen, waits, detaches>>

Detach == detaches' = IF owned THEN detaches + 1 ELSE detaches

\* One of those commands fails.  In Python the exception leaves __enter__, so that
\* __exit__ never runs and nothing detaches the session.
ArmFails == /\ phase = "arming"
            /\ phase' = "failed"
            /\ IF client \in Python THEN UNCHANGED detaches ELSE Detach
            /\ UNCHANGED <<pageVars, setup, tracker, waits>>

\* The replay window ends.  External: it is long enough for the replay to have
\* begun, though some of it may still come.
CloseWindow == /\ phase = "window" /\ 0 \in stale
               /\ phase' = "armed"
               /\ UNCHANGED <<pageVars, setup, tracker, waits, detaches>>

-----------------------------------------------------------------------------
(* The lifecycle tracker *)

\* Mutants: the replay window never closes; the first signal of a redirect chain is
\* kept.
MutAlwaysArming == phase \in {"window", "armed"}

Arming == phase = "window"

Counts(e) == e.main /\ e.loader \notin stale

Record(s, e) == IF e.name \in Signals /\ s[e.name] = NoDoc
                  THEN [s EXCEPT ![e.name] = e.loader] ELSE s

IsLast(d) == loaders # <<>> /\ loaders[Len(loaders)] = d

\* Rust and Python: the first signal of any document since arming is kept.
Keep(e) ==
  /\ loaders' = IF \E i \in DOMAIN loaders : loaders[i] = e.loader
                  THEN loaders ELSE Append(loaders, e.loader)
  /\ seen' = Record(seen, e)

MutNotRestarted(e) ==
  /\ loaders' = IF IsLast(e.loader) THEN loaders ELSE Append(loaders, e.loader)
  /\ seen' = Record(seen, e)

\* Node: a document not seen before starts over.
Restart(e) ==
  IF IsLast(e.loader)
    THEN seen' = Record(seen, e) /\ UNCHANGED loaders
    ELSE /\ loaders' = Append(loaders, e.loader)
         /\ seen' = Record([n \in Signals |-> NoDoc], e)

Note(e) ==
  IF Arming THEN stale' = stale \cup {e.loader} /\ UNCHANGED <<loaders, seen>>
  ELSE /\ UNCHANGED stale
       /\ IF ~Counts(e) THEN UNCHANGED <<loaders, seen>>
          ELSE IF client = "node" THEN Restart(e) ELSE Keep(e)

AlmostIdle == seen["networkAlmostIdle"] # NoDoc

\* Callbacks run from the subscription on.  The Rust watches read only while they
\* arm and drain: next to the command (async only) and until almost idle after it.
Reading ==
  \/ phase = "window"
  \/ client \notin Rust /\ phase = "armed"
  \/ client \in Rust /\ \E w \in Waiter :
       /\ ~late[w]
       /\ \/ pc[w] = "command" /\ client = "rust"
          \/ pc[w] = "fallback" /\ ~AlmostIdle

Observe == /\ Reading
           /\ Read
           /\ Note(Head(feed))
           /\ UNCHANGED <<setup, phase, waits, detaches>>

-----------------------------------------------------------------------------
(* The answer *)

Result(via, d, v) == [via |-> via, doc |-> d, outcome |-> v.outcome, bad |-> v.bad,
                      unread |-> FALSE]

\* Mutant: the classification looks at the outcome alone.
MutOutcomeOnly(a) == a.outcome = "challenge"

\* A bot wall, by the outcome or by the status.
Blocked(a) == a.outcome = "challenge" \/ a.bad

\* What the lifecycle can honestly say: networkAlmostIdle, else load, else nothing.
FallbackState ==
  LET Settled(n) == Result(n, seen[n], [outcome |-> "settled", bad |-> FALSE])
  IN IF AlmostIdle THEN Settled("networkAlmostIdle")
     ELSE IF seen["load"] # NoDoc THEN Settled("load")
     ELSE Result("timeout", 0, [outcome |-> "timeout", bad |-> FALSE])

\* Replies to the command: a verdict, as a driver hands it over or in the envelope
\* of a raw DevTools socket; an error that says the command is unknown; another error
\* in the reply; a reply without an outcome, which may still carry the status; a
\* failure of the driver.
Reply(k, v) == [kind |-> k, verdict |-> v]
NoVerdict == [outcome |-> "timeout", bad |-> FALSE]

Replies ==
  IF gone \/ detaches > 0 THEN {Reply("raised", NoVerdict)}
  ELSE IF ~registered
    THEN {Reply("unavailable", NoVerdict), Reply("raised", NoVerdict)}
    ELSE {Reply(k, v) : k \in {"answer", "envelope"}, v \in Verdicts}
         \cup {Reply("drifted", v) :
                  v \in {u \in [outcome : {"timeout"}, bad : BOOLEAN] : u.bad => doc \in walls}}
         \cup {Reply("refused", NoVerdict), Reply("raised", NoVerdict)}

\* Rust falls back on every reply it cannot use, the others on an unknown command.
FallsBack(r) == \/ r.kind = "unavailable"
                \/ client \in Rust /\ r.kind \in {"refused", "drifted"}

Raises(r) == \/ r.kind = "raised"
             \/ client \notin Rust /\ r.kind = "refused"

\* The verdict as sent; Node and Python read a missing outcome as "timeout".  Node
\* does not look into the envelope, and misses the status with the outcome.
FromReply(r) ==
  LET unopened == client = "node" /\ r.kind = "envelope"
  IN [Result("waitForSettle", doc, IF unopened THEN NoVerdict ELSE r.verdict)
        EXCEPT !.unread = unopened \/ r.kind = "drifted"]

-----------------------------------------------------------------------------
(* wait() and close() *)

\* Mutant: close() forgets that the session is released already.
MutReleaseAgain == Detach /\ phase' = "closed"

Release == IF phase = "closed" THEN UNCHANGED <<phase, detaches>>
           ELSE Detach /\ phase' = "closed"

\* Node's wait() closes the watch on every way out.
AfterWait == IF client = "node" THEN Release ELSE UNCHANGED <<phase, detaches>>

\* That awaits detach(), without a deadline, unless close() has been there before.
AwaitsDetach == client = "node" /\ owned /\ phase # "closed"

\* w's wait is decided, with those that share it: a result, or an exception.
Ends(w, p, a) ==
  LET Mine(v) == v = w \/ pc[v] = "joined"
  IN /\ pc' = [v \in Waiter |-> IF ~Mine(v) THEN pc[v]
                                ELSE IF AwaitsDetach THEN "closing" ELSE p]
     /\ ret' = [v \in Waiter |-> IF Mine(v) /\ ~AwaitsDetach THEN a ELSE ret[v]]
     /\ late' = [late EXCEPT ![w] = FALSE]

Settle(w, a) == /\ state' = a
                /\ Ends(w, "returned", a)
                /\ AfterWait
                /\ UNCHANGED <<pageVars, setup, tracker>>

Raise(w) == /\ Ends(w, "raised", NoState)
            /\ AfterWait
            /\ UNCHANGED <<pageVars, setup, tracker, state>>

\* The answer to detach(), or its failure, lets the result out.
Detached ==
  LET Closing(w) == pc[w] = "closing"
  IN /\ \E w \in Waiter : Closing(w)
     /\ pc' = [w \in Waiter |-> IF ~Closing(w) THEN pc[w]
                               ELSE IF state = NoState THEN "raised" ELSE "returned"]
     /\ ret' = [w \in Waiter |-> IF Closing(w) THEN state ELSE ret[w]]
     /\ UNCHANGED <<pageVars, setup, phase, tracker, state, late, detaches>>

Goto(w, p) == pc' = [pc EXCEPT ![w] = p]

\* Mutant: nothing is remembered.
MutForgotten == NoState

Memo == state

\* wait() up to its first await.
Call(w) ==
  /\ pc[w] = "idle" /\ phase \in {"armed", "closed", "abandoned"}
  /\ client \in Overlapping \/ \A v \in Waiter : ~Busy(v)
  /\ \/ /\ Memo # NoState
        /\ Goto(w, "returned")
        /\ ret' = [ret EXCEPT ![w] = Memo]
     \/ /\ Memo = NoState
        /\ phase = "closed" /\ client \notin Rust
        /\ Goto(w, "raised")
        /\ UNCHANGED ret
     \/ /\ Memo = NoState
        /\ phase = "armed" \/ client \in Rust
        /\ Goto(w, IF client = "node" /\ \E v \in Waiter : Waiting(v) THEN "joined"
                   ELSE IF prefer THEN "fallback" ELSE "command")
        /\ UNCHANGED ret
  /\ UNCHANGED <<pageVars, setup, phase, tracker, state, late, detaches>>

\* The command is answered before the deadline has ended the wait.
CommandReplies(w) ==
  /\ pc[w] = "command"
  /\ \E r \in Replies :
       \/ Raises(r) /\ Raise(w)
       \/ ~Raises(r) /\ ~FallsBack(r) /\ Settle(w, FromReply(r))
       \/ /\ FallsBack(r)
          /\ Goto(w, "fallback")
          /\ UNCHANGED <<pageVars, setup, phase, tracker, state, late, ret, detaches>>

DeadlinePasses(w) ==
  /\ Waiting(w) /\ ~late[w]
  /\ late' = [late EXCEPT ![w] = TRUE]
  /\ UNCHANGED <<pageVars, setup, phase, tracker, state, pc, ret, detaches>>

\* To a Rust watch a closed event channel says that nothing more is coming.
FeedEnds == client \in Rust /\ gone /\ feed = <<>>

\* Mutants: only the end of the feed cuts the command off; load ends the fallback.
MutNeverCutOff(w) == /\ pc[w] = "command" /\ client \notin Blocking
                     /\ FeedEnds
                     /\ Settle(w, FallbackState)

MutLoadIsEnough(w) == seen["load"] # NoDoc \/ AlmostIdle \/ late[w]

\* The deadline beats the command: the drain was the clock.  A blocking send cannot
\* be cut off.
CommandCutOff(w) == /\ pc[w] = "command" /\ client \notin Blocking
                    /\ late[w] \/ FeedEnds
                    /\ Settle(w, FallbackState)

FallbackOver(w) == \/ AlmostIdle \/ late[w] \/ FeedEnds
                   \/ client = "node" /\ phase = "closed"

FallBack(w) == /\ pc[w] = "fallback"
               /\ FallbackOver(w)
               /\ Settle(w, FallbackState)

\* The caller drops the future, or cancels the asyncio task.
Cancel(w) == /\ client \in {"rust", "python_async"} /\ Waiting(w)
             /\ Goto(w, "cancelled")
             /\ late' = [late EXCEPT ![w] = FALSE]
             /\ UNCHANGED <<pageVars, setup, phase, tracker, state, ret, detaches>>

Close == /\ phase = "armed"
         /\ client \in {"node", "python_async"} \/ \A w \in Waiter : ~Waiting(w)
         /\ IF client = "rust" THEN phase' = "closing" /\ UNCHANGED detaches ELSE Release
         /\ UNCHANGED <<pageVars, setup, tracker, waits>>

\* Rust marks the watch closed, awaits a last command, and only then detaches.
CloseEnds == /\ phase = "closing"
             /\ Release
             /\ UNCHANGED <<pageVars, setup, tracker, waits>>

\* A close() dropped during that await can not be made up for: the watch counts
\* as closed, and nothing detaches the session any more.
CancelClose == /\ phase = "closing"
               /\ phase' = "abandoned"
               /\ UNCHANGED <<pageVars, setup, tracker, waits, detaches>>

\* What the page does once the answer is known and nobody waits is left out.
PageStep == /\ phase = "armed"
            /\ state = NoState \/ \E w \in Waiter : Waiting(w)
            /\ Commit \/ SubframeIdle \/ PageGone \/ \E n \in Signals : Fire(n)
            /\ UNCHANGED watchVars

Next == \/ Enable \/ ArmFails \/ CloseWindow \/ Observe \/ PageStep
        \/ Close \/ CloseEnds \/ CancelClose \/ Detached
        \/ \E w \in Waiter : \/ Call(w) \/ CommandReplies(w) \/ DeadlinePasses(w)
                             \/ CommandCutOff(w) \/ FallBack(w) \/ Cancel(w)

\* Time passes, and a wait that can end ends.  A command is sure to be answered only
\* where the code relies on it: a blocking send, bounded by the timeoutMs it carries.
\* Nothing bounds the answer to detach().
Fairness ==
  \A w \in Waiter : /\ WF_vars(DeadlinePasses(w))
                    /\ WF_vars(CommandCutOff(w)) /\ WF_vars(FallBack(w))
                    /\ WF_vars(client \in Blocking /\ CommandReplies(w))

Spec == Init /\ [][Next]_vars /\ Fairness

-----------------------------------------------------------------------------
(* Properties *)

\* Every signal that counts was emitted by the main frame, for a document committed
\* after the watch was armed: neither the incumbent's replay, even where it outlasts
\* the replay window, nor an iframe ever answers for the page.  Node's fallback also
\* reports the last document it was shown, not one that a redirect has replaced.
OwnDocument ==
  /\ \A n \in Signals : seen[n] # NoDoc => seen[n] \in Documents /\ n \in fired[seen[n]]
  /\ state # NoState /\ state.via \in Signals =>
       /\ state.doc \in Documents /\ state.via \in fired[state.doc]
       /\ client = "node" => IsLast(state.doc)

\* Everyone who waits on one watch is told the same, whoever overlapped, cancelled or
\* came back after close(): one watch spans one navigation.
OneAnswer == \A v, w \in Waiter :
               ret[v] # NoState /\ ret[w] # NoState => ret[v] = ret[w]

\* A fallback answer is given only once the command is out of the picture, and load,
\* or nothing at all, only when there is nothing left to wait for.
LastResort ==
  [][state' # state /\ state'.via # "waitForSettle" =>
       \E w \in Waiter :
         /\ pc[w] = "fallback" \/ late[w] \/ gone
         /\ state'.via \in {"load", "timeout"} => late[w] \/ gone \/ phase = "closed"]_vars

\* An answer of the command about a bot wall is classified as blocked, also where the
\* wall was too short to be called a challenge or carried an ordinary status, for
\* everyone who is given it, provided that the client found the outcome.  It does not
\* where the reply has none, and Node's does not in the envelope of a raw socket: a
\* wall in there is a plain "timeout" to it.
WallsTold == \A w \in Waiter :
  ret[w] # NoState /\ ret[w].via = "waitForSettle" /\ ~ret[w].unread /\ ret[w].doc \in walls
    => Blocked(ret[w])

\* The session is detached at most once and only by a watch that attached it; it is
\* detached when a close() has run to its end, and, except in Python, when arming
\* fails.
SessionReleased ==
  /\ detaches = 0 \/ (owned /\ detaches = 1)
  /\ phase = "closed" /\ owned => detaches = 1
  /\ phase = "failed" /\ owned /\ client \notin Python => detaches = 1

\* Every wait comes to a result, whatever the browser does or fails to answer: by its
\* deadline, by a blocking send's own, or because the caller gave up.  That is all
\* that can be said of Node's: it may then be kept "closing" by detach(), for good.
WaitsDecided == \A w \in Waiter :
  pc[w] \in {"command", "fallback", "joined"} ~>
    pc[w] \in {"closing", "returned", "raised", "cancelled"}
===============================================================================
