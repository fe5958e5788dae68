---------------------------- MODULE ProxyHandshake ----------------------------
(***************************************************************************)
(* The register-then-create handshake every adapter runs, under the        *)
(* abstract per-key lock and against the browser.  One task is one call of *)
(* an adapter:                                                             *)
(*   rust/src/adapters.rs   new_proxy_context_with / _raw (and _blocking)  *)
(*   rust/src/oxide.rs      new_proxy_context(_with_id)                    *)
(*   python/.../adapters.py new_proxy_context(_async)                      *)
(*   node/src/adapters.js   newProxyContext, ...Puppeteer, ...With         *)
(* They differ in three ways, all constants: Playwright and Puppeteer send *)
(* the registration over a session they attach and detach, oxide can tag a *)
(* registration with a credentialsId, and the asyncio adapter waits for    *)
(* the lock in a blocking acquire() on its event loop's thread.            *)
(***************************************************************************)
EXTENDS Browser

CONSTANTS ViaSession,  \* tasks of an adapter that registers over a session
          WithId,      \* tasks that pass a credentialsId
          Impatient,   \* tasks that may be cancelled or time out
          Loops        \* the asyncio loops, each the set of its tasks

ASSUME AdapterAssumption == /\ ViaSession \cup WithId \cup Impatient \subseteq Task
                            /\ Loops \subseteq SUBSET ViaSession

VARIABLES waiting, inside,  \* the lock
          step,             \* how far each task is
          key,              \* the key it works on
          leftBehind        \* history: keys a task left between its two commands

clientVars == <<waiting, inside, step, key, leftBehind>>
vars == <<browserVars, clientVars>>

Lock == INSTANCE ProxyLock

Running == {"entered", "register", "cleanup", "detach", "create"}
Step == {"start", "queued", "ok", "failed"} \cup Running

TypeOK == /\ BrowserTypeOK
          /\ Lock!TypeOK
          /\ step \in [Task -> Step]
          /\ key \in [Task -> Key]
          /\ leftBehind \in SUBSET Key
          /\ \A t \in Task : /\ step[t] = "queued" <=> t \in waiting[key[t]]
                             /\ step[t] \in Running <=> t \in inside[key[t]]

Init == /\ BrowserInit
        /\ Lock!Init
        /\ step = [t \in Task |-> "start"]
        /\ key \in [Task -> Key]
        /\ leftBehind = {}

\* oxide's new_proxy_context_with_id is for v151.5 and later.
UsesId(t) == t \in WithId /\ version = "v151.5"

Goto(t, s) == step' = [step EXCEPT ![t] = s] /\ UNCHANGED key

\* The spec parses and is registrable: ask for the slot of (conn, server).
Ask(t) ==
  /\ step[t] = "start"
  /\ Lock!Ask(t, key[t])
  /\ Goto(t, "queued")
  /\ UNCHANGED <<browserVars, leftBehind>>

\* The future waiting for the slot is dropped.  Only the Rust lock allows it,
\* so no adapter that attaches a session.
GiveUpWaiting(t) ==
  /\ t \in Impatient \ ViaSession
  /\ step[t] = "queued"
  /\ Lock!GiveUp(t, key[t])
  /\ Goto(t, "failed")
  /\ UNCHANGED <<browserVars, leftBehind>>

\* Mutant: the credentialsId goes to the create and not to the registration.
MutIdNotRegistered(t) ==
  /\ step[t] = "queued"
  /\ Lock!Enter(t, key[t])
  /\ IF t \in ViaSession
     THEN Goto(t, "entered") /\ UNCHANGED browserVars
     ELSE Goto(t, "register") /\ Send("register", t, key[t], FALSE)
  /\ UNCHANGED leftBehind

\* A direct adapter registers in the step that takes the lock; the others
\* first attach a session.
Enter(t) ==
  /\ step[t] = "queued"
  /\ Lock!Enter(t, key[t])
  /\ IF t \in ViaSession
     THEN Goto(t, "entered") /\ UNCHANGED browserVars
     ELSE Goto(t, "register") /\ Send("register", t, key[t], UsesId(t))
  /\ UNCHANGED leftBehind

Attached(t) ==
  /\ step[t] = "entered"
  /\ Send("register", t, key[t], UsesId(t))
  /\ Goto(t, "register")
  /\ UNCHANGED <<waiting, inside, leftBehind>>

SendCreate(t) ==
  /\ Send("create", t, key[t], UsesId(t))
  /\ Goto(t, "create")
  /\ UNCHANGED <<waiting, inside, leftBehind>>

\* Mutants: check_registration forgotten; the lock held for the registration only.
MutUnchecked(t) ==
  /\ step[t] = "register"
  /\ answer[t] \in {"ok", "refused"}
  /\ SendCreate(t)

MutUnlockEarly(t) ==
  /\ step[t] = "register"
  /\ answer[t] = "ok"
  /\ Lock!Leave(t, key[t])
  /\ Goto(t, "detach")
  /\ UNCHANGED <<browserVars, leftBehind>>

\* check_registration passed.  A session is detached before the create.
Registered(t) ==
  /\ step[t] = "register"
  /\ answer[t] = "ok"
  /\ IF t \in ViaSession
     THEN Goto(t, "detach") /\ UNCHANGED <<browserVars, waiting, inside, leftBehind>>
     ELSE SendCreate(t)

Detached(t) ==
  /\ step[t] = "detach"
  /\ SendCreate(t)

\* Mutant: the lock is not released on the way out.
MutKeepsLock(t, s) ==
  /\ Goto(t, s)
  /\ Forget(t)
  /\ UNCHANGED <<waiting, inside>>

\* The adapter returns, and the lock is released on every path out of it.
Finish(t, s) ==
  /\ Lock!Leave(t, key[t])
  /\ Goto(t, s)
  /\ Forget(t)

\* The registration was refused or failed; `finally` detaches a session first.
Cleanup(t) == IF t \in ViaSession
              THEN /\ Goto(t, "cleanup")
                   /\ Forget(t)
                   /\ UNCHANGED <<waiting, inside>>
              ELSE Finish(t, "failed")

Refused(t) ==
  /\ step[t] = "register"
  /\ answer[t] \in {"refused", "error"}
  /\ Cleanup(t)
  /\ UNCHANGED leftBehind

\* The session could not be attached, has been detached after a refusal, or
\* the create failed: the error returns from the body.
Fail(t) ==
  /\ \/ step[t] \in {"entered", "cleanup"}
     \/ step[t] = "create" /\ answer[t] = "error"
  /\ Finish(t, "failed")
  /\ UNCHANGED leftBehind

Created(t) ==
  /\ step[t] = "create"
  /\ answer[t] = "ok"
  /\ Finish(t, "ok")
  /\ UNCHANGED leftBehind

\* The task is dropped, cancelled or times out inside the lock, or an error
\* of its own ends it between the commands (a failed detach, bad options of
\* the create).  Commands already sent stay on the wire; without a create,
\* nothing will use up the registration.
GiveUpInside(t) ==
  /\ t \in Impatient
  /\ step[t] \in {"register", "detach", "create"}
  /\ IF step[t] = "register" THEN Cleanup(t) ELSE Finish(t, "failed")
  /\ leftBehind' = IF step[t] = "create" THEN leftBehind ELSE leftBehind \cup {key[t]}

BrowserStep == /\ \/ \E c \in Conn : Process(c) \/ Close(c)
                  \/ \E k \in Key : Settle(k)
               /\ UNCHANGED clientVars

\* A task that waits in acquire() has its loop's thread, and every other task
\* of the loop, ready or not, waits with it.
LoopIsFree(t) ==
  \A loop \in Loops : t \in loop => \A u \in loop \ {t} : step[u] # "queued"

TaskStep(t) == /\ LoopIsFree(t)
               /\ \/ Ask(t) \/ GiveUpWaiting(t) \/ Enter(t) \/ Attached(t)
                  \/ Registered(t) \/ Refused(t) \/ Detached(t) \/ Created(t)
                  \/ Fail(t) \/ GiveUpInside(t)

Next == (\E t \in Task : TaskStep(t)) \/ BrowserStep

Spec == Init /\ [][Next]_vars

(***************************************************************************)
(* Fairness: a task whose await is ready is polled, unless its loop is     *)
(* blocked; the browser answers commands and bounds deferrals; a lock that *)
(* is let go of again and again is granted to each waiter in the end.      *)
(* Nobody has to start, give up or close.                                  *)
(***************************************************************************)
Advance(t) == /\ LoopIsFree(t)
              /\ \/ Attached(t) \/ Registered(t) \/ Refused(t) \/ Detached(t)
                 \/ Created(t) \/ Fail(t)

FairSpec ==
  /\ Spec
  /\ \A t \in Task : WF_vars(Advance(t)) /\ SF_vars(LoopIsFree(t) /\ Enter(t))
  /\ \A c \in Conn : WF_vars(Process(c) /\ UNCHANGED clientVars)
  /\ \A k \in Key : WF_vars(Settle(k) /\ UNCHANGED clientVars)

-----------------------------------------------------------------------------
\* A context is authenticated with the credentials its own caller registered:
\* never another task's, never none.
OwnCredentials == \A x \in contexts : x.creds = x.task

\* A registration the browser still holds belongs to a task between its two
\* commands or has its create on the way, or somebody gave up on that key.
CreateOnWire(t, k) ==
  \E i \in DOMAIN wire[k[1]] : LET m == wire[k[1]][i] IN m.op = "create" /\ m.task = t

NothingLeftPending ==
  \A k \in Key : LET t == pending[k] IN
    t # NoTask /\ k \notin leftBehind =>
      key[t] = k /\ (step[t] \in Running \/ CreateOnWire(t, k))

\* The client's lock makes the browser's own serialization moot: nobody is
\* refused for, or kept waiting by, another registration, except after one
\* was left behind on the key; and "tokened registrations are independent and
\* never queue at all".
DisturbedOnlyByLeftover ==
  /\ \A t \in Task : answer[t] = "refused" => key[t] \in leftBehind /\ ~UsesId(t)
  /\ \A k \in Key : deferred[k] # <<>> => k \in leftBehind

\* On this key, one task of an event loop is in acquire() for what another of that
\* loop holds, which the blocked loop can not resume.
Stuck(k) == \E loop \in Loops : \E t, u \in loop :
              t # u /\ step[t] = "queued" /\ step[u] \in Running /\ key[t] = k /\ key[u] = k

\* A call that asked for the slot returns: nobody holds the lock for good, or keeps
\* the holder from going on; except where calls of one asyncio loop meet on a key.
CallsReturn ==
  \A t \in Task : step[t] = "queued" ~> step[t] \in {"ok", "failed"} \/ Stuck(key[t])
===============================================================================
