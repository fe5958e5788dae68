------------------------------- MODULE Browser --------------------------------
(***************************************************************************)
(* The browser's side of the proxy handshake, as the clients rely on it    *)
(* (rust/src/registration.rs:1-21 and 43-52, HANDSHAKE.md invariant 3).    *)
(* It is not part of the repository.                                       *)
(*                                                                         *)
(* Commands of one root connection arrive in the order they were sent.  A  *)
(* registration stays pending until the matching create consumes it, even  *)
(* a create that then fails, or until its connection closes.               *)
(***************************************************************************)
EXTENDS Naturals, Sequences

CONSTANTS Task, Conn, Server, NoTask

ASSUME NoTaskAssumption == NoTask \notin Task

Key == Conn \X Server
Version == {"v151.4", "v151.5"}

VARIABLES version,   \* which binary this is; the clients cannot know
          wire,      \* [Conn -> Seq(Command)]: sent and not yet processed
          pending,   \* [Key -> Task or NoTask]: whose credentials are registered
          tokens,    \* [Key -> SUBSET Task]: those registered under a credentialsId
          deferred,  \* [Key -> Seq(Task)]: registrations whose reply waits
          answer,    \* [Task -> Answer]: the reply to the call a task waits for
          contexts,  \* the contexts created, each with the credentials it got
          closed     \* the connections that are gone

browserVars == <<version, wire, pending, tokens, deferred, answer, contexts, closed>>

Command == [op : {"register", "create"}, task : Task, key : Key, token : BOOLEAN]
Answer == {"none", "awaited", "ok", "refused", "error"}
Context == [task : Task, creds : Task \cup {NoTask}]

BrowserTypeOK == /\ version \in Version
                 /\ wire \in [Conn -> Seq(Command)]
                 /\ pending \in [Key -> Task \cup {NoTask}]
                 /\ tokens \in [Key -> SUBSET Task]
                 /\ deferred \in [Key -> Seq(Task)]
                 /\ answer \in [Task -> Answer]
                 /\ contexts \in SUBSET Context
                 /\ closed \in SUBSET Conn

BrowserInit == /\ version \in Version
               /\ wire = [c \in Conn |-> <<>>]
               /\ pending = [k \in Key |-> NoTask]
               /\ tokens = [k \in Key |-> {}]
               /\ deferred = [k \in Key |-> <<>>]
               /\ answer = [t \in Task |-> "none"]
               /\ contexts = {}
               /\ closed = {}

-----------------------------------------------------------------------------
(* What a driver does. *)

\* A command sent on a connection that is gone fails at once.
Send(op, t, k, token) ==
  /\ IF k[1] \in closed
     THEN /\ answer' = [answer EXCEPT ![t] = "error"]
          /\ UNCHANGED wire
     ELSE /\ answer' = [answer EXCEPT ![t] = "awaited"]
          /\ wire' = [wire EXCEPT ![k[1]] =
                        Append(@, [op |-> op, task |-> t, key |-> k, token |-> token])]
  /\ UNCHANGED <<version, pending, tokens, deferred, contexts, closed>>

\* The call is over, or its caller gone: a later reply to it is dropped.
Forget(t) ==
  /\ answer' = [answer EXCEPT ![t] = "none"]
  /\ UNCHANGED <<version, wire, pending, tokens, deferred, contexts, closed>>

-----------------------------------------------------------------------------
(* What the browser does. *)

Reply(t, a) == answer' = IF answer[t] = "awaited" THEN [answer EXCEPT ![t] = a] ELSE answer

Receive(c, op) == /\ wire[c] # <<>>
                  /\ Head(wire[c]).op = op
                  /\ wire' = [wire EXCEPT ![c] = Tail(@)]

RegisterTokened(c) ==
  /\ Receive(c, "register")
  /\ LET m == Head(wire[c])
     IN  /\ m.token
         /\ tokens' = [tokens EXCEPT ![m.key] = @ \cup {m.task}]
         /\ Reply(m.task, "ok")
  /\ UNCHANGED <<version, pending, deferred, contexts, closed>>

Register(c) ==
  /\ Receive(c, "register")
  /\ LET m == Head(wire[c])
     IN  /\ ~m.token
         /\ \/ /\ pending[m.key] = NoTask
               /\ pending' = [pending EXCEPT ![m.key] = m.task]
               /\ Reply(m.task, "ok")
               /\ UNCHANGED deferred
            \/ /\ pending[m.key] # NoTask /\ version = "v151.4"
               /\ Reply(m.task, "refused")
               /\ UNCHANGED <<pending, deferred>>
            \/ /\ pending[m.key] # NoTask /\ version = "v151.5"
               /\ deferred' = [deferred EXCEPT ![m.key] = Append(@, m.task)]
               /\ UNCHANGED <<pending, answer>>
  /\ UNCHANGED <<version, tokens, contexts, closed>>

\* The slot freed: the oldest deferred registration gets it and its reply.
Undefer(k) ==
  /\ deferred[k] # <<>>
  /\ pending[k] = NoTask
  /\ pending' = [pending EXCEPT ![k] = Head(deferred[k])]
  /\ Reply(Head(deferred[k]), "ok")
  /\ deferred' = [deferred EXCEPT ![k] = Tail(@)]
  /\ UNCHANGED <<version, wire, tokens, contexts, closed>>

\* Deferral is bounded by a timeout: the oldest one is refused.
DeferralExpires(k) ==
  /\ deferred[k] # <<>>
  /\ Reply(Head(deferred[k]), "refused")
  /\ deferred' = [deferred EXCEPT ![k] = Tail(@)]
  /\ UNCHANGED <<version, wire, pending, tokens, contexts, closed>>

\* A create uses up the registration it matches, whether or not it succeeds;
\* without one its context has no credentials.
Matching(m) == CASE ~m.token -> pending[m.key]
                 [] m.token /\ m.task \in tokens[m.key] -> m.task
                 [] OTHER -> NoTask

Create(c) ==
  /\ Receive(c, "create")
  /\ LET m == Head(wire[c])
     IN  /\ pending' = IF m.token THEN pending ELSE [pending EXCEPT ![m.key] = NoTask]
         /\ tokens' = IF m.token THEN [tokens EXCEPT ![m.key] = @ \ {m.task}] ELSE tokens
         /\ \/ /\ contexts' = contexts \cup {[task |-> m.task, creds |-> Matching(m)]}
               /\ Reply(m.task, "ok")
            \/ /\ Reply(m.task, "error")
               /\ UNCHANGED contexts
  /\ UNCHANGED <<version, deferred, closed>>

\* Closing a connection clears what is pending on it and fails the calls it
\* had not answered; replies already delivered stay delivered.
Close(c) ==
  LET mine == {k \in Key : k[1] = c}
      inFlight == {wire[c][i].task : i \in 1..Len(wire[c])}
      waiting == UNION {{deferred[k][i] : i \in 1..Len(deferred[k])} : k \in mine}
  IN  /\ c \notin closed
      /\ closed' = closed \cup {c}
      /\ wire' = [wire EXCEPT ![c] = <<>>]
      /\ pending' = [k \in Key |-> IF k \in mine THEN NoTask ELSE pending[k]]
      /\ tokens' = [k \in Key |-> IF k \in mine THEN {} ELSE tokens[k]]
      /\ deferred' = [k \in Key |-> IF k \in mine THEN <<>> ELSE deferred[k]]
      /\ answer' = [t \in Task |-> IF answer[t] = "awaited" /\ t \in inFlight \cup waiting
                                   THEN "error" ELSE answer[t]]
      /\ UNCHANGED <<version, contexts>>

Process(c) == RegisterTokened(c) \/ Register(c) \/ Create(c)
Settle(k) == Undefer(k) \/ DeferralExpires(k)
===============================================================================
