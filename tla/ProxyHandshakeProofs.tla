------------------------- MODULE ProxyHandshakeProofs -------------------------
(***************************************************************************)
(* Safety of the register-then-create handshake for every set of calls,    *)
(* connections and servers, every mix of adapters and both browsers.       *)
(*                                                                         *)
(* That a context gets its own caller's credentials is not inductive.  The *)
(* proof follows every registration from the wire over the browser's slot  *)
(* (or the queue before it) to the create that uses it up: a create is on  *)
(* the wire only while the slot holds its own caller's registration, and   *)
(* nobody but that create, or the loss of the connection, frees the slot.  *)
(* That no call is disturbed unless one was left behind needs the lock,    *)
(* and the order of the wire, besides.                                     *)
(***************************************************************************)
EXTENDS ProxyHandshake, SequenceTheorems, TLAPS

\* The commands of a connection that the browser has not processed.
InFlight(c) == {wire[c][i] : i \in 1 .. Len(wire[c])}

AwaitsRegistration(t) == step[t] = "register" /\ answer[t] = "awaited"
GaveUp(t) == step[t] \in {"cleanup", "failed"} /\ key[t] \in leftBehind

\* A registration on the wire has its caller waiting for it, or was left
\* behind; a create has its caller's registration waiting for it.
CommandOK(c, m) ==
  /\ m.key = key[m.task] /\ m.key[1] = c
  /\ m.token <=> UsesId(m.task)
  /\ m.op = "register" => AwaitsRegistration(m.task) \/ GaveUp(m.task)
  /\ m.op = "create" =>
       /\ \/ step[m.task] = "create" /\ answer[m.task] = "awaited"
          \/ step[m.task] = "failed"
       /\ IF m.token THEN m.task \in tokens[m.key] ELSE pending[m.key] = m.task

WireOK == \A c \in Conn : \A m \in InFlight(c) : CommandOK(c, m)

\* A caller has at most one command on the wire.
OneEach ==
  \A c \in Conn : \A i, j \in 1 .. Len(wire[c]) :
    wire[c][i].task = wire[c][j].task => i = j

\* A create overtakes nobody's registration on its key, unless that was left
\* behind.
NotOvertaken ==
  \A c \in Conn : \A i, j \in 1 .. Len(wire[c]) :
    /\ i < j
    /\ wire[c][i].op = "register" /\ wire[c][j].op = "create"
    /\ wire[c][i].key = wire[c][j].key
    => wire[c][i].key \in leftBehind

\* A deferred registration has its caller waiting for it, or was left behind.
DeferredOK ==
  \A k \in Key : \A i \in 1 .. Len(deferred[k]) :
    LET t == deferred[k][i]
    IN  /\ key[t] = k /\ ~UsesId(t) /\ k \in leftBehind
        /\ AwaitsRegistration(t) \/ GaveUp(t)
        /\ \A m \in InFlight(k[1]) : m.task # t

DeferredOnce ==
  \A k \in Key : \A i, j \in 1 .. Len(deferred[k]) : deferred[k][i] = deferred[k][j] => i = j

HasCreateInFlight(t) == \E m \in InFlight(key[t][1]) : m.op = "create" /\ m.task = t

\* Whose registration the browser holds: its caller knows and has not sent
\* the create, or has sent it, or left it behind.
PendingOK ==
  \A k \in Key : pending[k] # NoTask =>
    LET t == pending[k]
    IN  /\ key[t] = k /\ ~UsesId(t) /\ k[1] \notin closed
        /\ \/ step[t] = "register" /\ answer[t] = "ok"
           \/ step[t] = "detach"
           \/ HasCreateInFlight(t)
           \/ GaveUp(t)

\* A caller whose registration succeeded still has it, if it has a connection.
RegisteredOK ==
  \A t \in Task :
    (step[t] = "register" /\ answer[t] = "ok") \/ step[t] = "detach" =>
      \/ key[t][1] \in closed
      \/ IF UsesId(t) THEN t \in tokens[key[t]] ELSE pending[key[t]] = t

RefusedOK == \A t \in Task : answer[t] = "refused" => key[t] \in leftBehind /\ ~UsesId(t)

\* A connection that is gone carries nothing.
ClosedOK ==
  /\ \A c \in closed : wire[c] = <<>>
  /\ \A k \in Key : k[1] \in closed => deferred[k] = <<>>

\* The lock: at most one call is inside a key.
Alone == \A k \in Key : \A t, u \in inside[k] : t = u

Flow == /\ WireOK /\ OneEach /\ NotOvertaken /\ DeferredOK /\ DeferredOnce
        /\ PendingOK /\ RegisteredOK /\ RefusedOK /\ ClosedOK /\ OwnCredentials

IInv == TypeOK /\ Alone /\ Flow

-----------------------------------------------------------------------------
\* The wire and the queues are sequences of what their types say.
LEMMA Sequences ==
  ASSUME TypeOK
  PROVE  /\ \A c \in Conn : /\ wire[c] \in Seq(Command) /\ Len(wire[c]) \in Nat
                            /\ \A i \in 1 .. Len(wire[c]) : wire[c][i] \in Command
                            /\ \A m \in InFlight(c) : m \in Command
         /\ \A k \in Key : /\ deferred[k] \in Seq(Task) /\ Len(deferred[k]) \in Nat
                           /\ \A i \in 1 .. Len(deferred[k]) : deferred[k][i] \in Task
                           /\ k[1] \in Conn
         /\ \A t \in Task : key[t] \in Key /\ key[t][1] \in Conn
         /\ \A m \in Command : m.task \in Task /\ m.key \in Key /\ m.key[1] \in Conn
  <1>1. \A k \in Key : k[1] \in Conn
    BY DEF Key
  <1>2. ASSUME NEW c \in Conn
        PROVE  /\ wire[c] \in Seq(Command) /\ Len(wire[c]) \in Nat
               /\ \A i \in 1 .. Len(wire[c]) : wire[c][i] \in Command
               /\ \A m \in InFlight(c) : m \in Command
    BY LenProperties, ElementOfSeq DEF TypeOK, BrowserTypeOK, InFlight
  <1>3. ASSUME NEW k \in Key
        PROVE  /\ deferred[k] \in Seq(Task) /\ Len(deferred[k]) \in Nat
               /\ \A i \in 1 .. Len(deferred[k]) : deferred[k][i] \in Task
    BY LenProperties, ElementOfSeq DEF TypeOK, BrowserTypeOK
  <1>. QED  BY <1>1, <1>2, <1>3 DEF TypeOK, Command

\* The same of a command on the wire and its fields.
LEMMA OnWire ==
  ASSUME TypeOK
  PROVE  \A c \in Conn : \A m \in InFlight(c) :
           /\ m \in Command /\ m.task \in Task /\ m.key \in Key /\ m.key[1] \in Conn
           /\ m.op \in {"register", "create"} /\ m.token \in BOOLEAN
  <1>1. \A c \in Conn : \A m \in InFlight(c) : m \in Command
    BY Sequences
  <1>2. \A m \in Command : /\ m.task \in Task /\ m.key \in Key /\ m.key[1] \in Conn
                            /\ m.op \in {"register", "create"} /\ m.token \in BOOLEAN
    BY DEF Command, Key
  <1>. QED  BY <1>1, <1>2

\* What a command that is sent does to the wire.
LEMMA Sent ==
  ASSUME TypeOK, NEW c \in Conn, NEW m \in Command,
         wire' = [wire EXCEPT ![c] = Append(@, m)]
  PROVE  /\ wire' \in [Conn -> Seq(Command)]
         /\ Len(wire'[c]) = Len(wire[c]) + 1
         /\ \A i \in 1 .. Len(wire[c]) : wire'[c][i] = wire[c][i]
         /\ wire'[c][Len(wire[c]) + 1] = m
         /\ InFlight(c)' = InFlight(c) \cup {m}
         /\ \A d \in Conn \ {c} : wire'[d] = wire[d] /\ InFlight(d)' = InFlight(d)
  <1>1. wire[c] \in Seq(Command) /\ Len(wire[c]) \in Nat
    BY Sequences
  <1>2. wire' = [wire EXCEPT ![c] = Append(wire[c], m)]
    OBVIOUS
  <1>3. wire \in [Conn -> Seq(Command)]
    BY DEF TypeOK, BrowserTypeOK
  <1>4. /\ wire' \in [Conn -> Seq(Command)]
        /\ Len(wire'[c]) = Len(wire[c]) + 1
        /\ \A i \in 1 .. Len(wire[c]) : wire'[c][i] = wire[c][i]
        /\ wire'[c][Len(wire[c]) + 1] = m
    BY <1>1, <1>2, <1>3, AppendProperties
  <1>5. InFlight(c)' = InFlight(c) \cup {m}
    <2>1. 1 .. Len(wire'[c]) = (1 .. Len(wire[c])) \cup {Len(wire[c]) + 1}
      BY <1>1, <1>4
    <2>2. \A i \in 1 .. Len(wire[c]) : wire'[c][i] = wire[c][i]
      BY <1>4
    <2>3. wire'[c][Len(wire[c]) + 1] = m
      BY <1>4
    <2>. QED  BY ONLY <2>1, <2>2, <2>3 DEF InFlight
  <1>6. \A d \in Conn \ {c} : wire'[d] = wire[d] /\ InFlight(d)' = InFlight(d)
    BY <1>2, <1>3 DEF InFlight
  <1>. QED  BY <1>1, <1>4, <1>5, <1>6

\* What Receive takes off the wire.
LEMMA Received ==
  ASSUME TypeOK, OneEach, NEW c \in Conn, NEW op, Receive(c, op), NEW m, m = Head(wire[c])
  PROVE  /\ m \in InFlight(c) /\ m \in Command /\ m.op = op
         /\ m = wire[c][1] /\ Len(wire[c]) >= 1
         /\ wire' \in [Conn -> Seq(Command)]
         /\ Len(wire'[c]) = Len(wire[c]) - 1
         /\ \A i \in 1 .. Len(wire[c]) - 1 : wire'[c][i] = wire[c][i+1]
         /\ InFlight(c)' = InFlight(c) \ {m}
         /\ \A n \in InFlight(c)' : n.task # m.task
         /\ \A d \in Conn \ {c} : wire'[d] = wire[d] /\ InFlight(d)' = InFlight(d)
  <1>1. wire[c] \in Seq(Command) /\ Len(wire[c]) \in Nat /\ wire[c] # <<>>
    BY Sequences DEF Receive
  <1>2. Len(wire[c]) >= 1 /\ 1 \in 1 .. Len(wire[c]) /\ m = wire[c][1]
    BY <1>1, EmptySeq
  <1>3. wire' = [wire EXCEPT ![c] = Tail(wire[c])] /\ wire \in [Conn -> Seq(Command)]
    BY DEF Receive, TypeOK, BrowserTypeOK
  <1>4. /\ wire' \in [Conn -> Seq(Command)]
        /\ Len(wire'[c]) = Len(wire[c]) - 1
        /\ \A i \in 1 .. Len(wire[c]) - 1 : wire'[c][i] = wire[c][i+1]
    BY <1>1, <1>3, HeadTailProperties
  <1>5. \A i \in 1 .. Len(wire[c]) : wire[c][i].task = m.task => i = 1
    BY <1>2 DEF OneEach
  <1>6. InFlight(c)' = InFlight(c) \ {m}
    <2>1. ASSUME NEW i \in 1 .. Len(wire'[c])
          PROVE  /\ i + 1 \in 1 .. Len(wire[c]) /\ i + 1 # 1
                 /\ wire'[c][i] = wire[c][i+1]
      BY <1>1, <1>2, <1>4
    <2>2. ASSUME NEW i \in 1 .. Len(wire[c]), wire[c][i] # m
          PROVE  i - 1 \in 1 .. Len(wire'[c]) /\ wire'[c][i-1] = wire[c][i]
      BY <1>1, <1>2, <1>4, <2>2
    <2>3. ASSUME NEW i \in 1 .. Len(wire'[c])
          PROVE  wire'[c][i] \in InFlight(c) \ {m}
      BY <1>5, <2>1 DEF InFlight
    <2>4. ASSUME NEW i \in 1 .. Len(wire[c]), wire[c][i] # m
          PROVE  wire[c][i] \in InFlight(c)'
      BY <2>2, <2>4 DEF InFlight
    <2>. QED  BY <2>3, <2>4 DEF InFlight
  <1>7. \A n \in InFlight(c)' : n.task # m.task
    BY <1>5, <1>6, <1>2 DEF InFlight
  <1>8. \A d \in Conn \ {c} : wire'[d] = wire[d] /\ InFlight(d)' = InFlight(d)
    BY <1>3 DEF InFlight
  <1>9. m \in InFlight(c) /\ m \in Command /\ m.op = op
    BY <1>2, Sequences DEF InFlight, Receive
  <1>. QED  BY <1>2, <1>4, <1>6, <1>7, <1>8, <1>9

\* Nothing was sent yet.
LEMMA InitIInv == Init => IInv
  <1> SUFFICES ASSUME Init PROVE IInv
    OBVIOUS
  <1> USE NoTaskAssumption DEF Init, BrowserInit, Lock!Init
  <1>1. TypeOK
    BY EmptySeq DEF TypeOK, BrowserTypeOK, Lock!TypeOK, Answer, Step, Running
  <1>2. Alone
    BY DEF Alone
  <1>3. WireOK /\ OneEach /\ NotOvertaken
    BY EmptySeq DEF WireOK, InFlight, OneEach, NotOvertaken
  <1>4. DeferredOK /\ DeferredOnce
    BY EmptySeq DEF DeferredOK, DeferredOnce
  <1>5. PendingOK /\ RegisteredOK /\ RefusedOK /\ ClosedOK /\ OwnCredentials
    BY DEF PendingOK, RegisteredOK, RefusedOK, ClosedOK, OwnCredentials
  <1>. QED  BY <1>1, <1>2, <1>3, <1>4, <1>5 DEF IInv, Flow

-----------------------------------------------------------------------------
(* Steps of the callers *)

\* However a caller moves, it is in the lock's books where its step says.
LEMMA CallerInLock ==
  ASSUME IInv, NEW t \in Task, NEW s \in Step,
         step' = [step EXCEPT ![t] = s], UNCHANGED key,
         BrowserTypeOK', leftBehind' \in SUBSET Key,
         \/ /\ UNCHANGED <<waiting, inside>>
            /\ s # "queued" /\ step[t] # "queued" /\ s \in Running /\ step[t] \in Running
         \/ Lock!Ask(t, key[t]) /\ s = "queued"
         \/ Lock!GiveUp(t, key[t]) /\ s = "failed"
         \/ Lock!Enter(t, key[t]) /\ s \in Running
         \/ Lock!Leave(t, key[t]) /\ s \in {"ok", "failed"}
  PROVE  TypeOK' /\ Alone'
  <1>1. /\ step \in [Task -> Step] /\ key \in [Task -> Key]
        /\ waiting \in [Key -> SUBSET Task] /\ inside \in [Key -> SUBSET Task]
        /\ \A u \in Task : /\ step[u] = "queued" <=> u \in waiting[key[u]]
                           /\ step[u] \in Running <=> u \in inside[key[u]]
        /\ \A k \in Key : \A u, v \in inside[k] : u = v
    BY DEF IInv, TypeOK, Lock!TypeOK, Alone
  <1>2. step' \in [Task -> Step] /\ key' \in [Task -> Key] /\ "queued" \notin Running
    BY <1>1 DEF Running
  <1> SUFFICES /\ waiting' \in [Key -> SUBSET Task] /\ inside' \in [Key -> SUBSET Task]
               /\ \A u \in Task : /\ step'[u] = "queued" <=> u \in waiting'[key[u]]
                                  /\ step'[u] \in Running <=> u \in inside'[key[u]]
               /\ \A k \in Key : \A u, v \in inside'[k] : u = v
    BY <1>2 DEF TypeOK, Lock!TypeOK, Alone, Running
  <1>3. CASE /\ UNCHANGED <<waiting, inside>>
             /\ s # "queued" /\ step[t] # "queued" /\ s \in Running /\ step[t] \in Running
    BY <1>1, <1>3
  <1>4. CASE Lock!Ask(t, key[t]) /\ s = "queued"
    <2>1. t \notin inside[key[t]]
      BY <1>1, <1>4 DEF Lock!Ask, Lock!Busy
    <2>. QED  BY <1>1, <1>2, <1>4, <2>1 DEF Lock!Ask
  <1>5. CASE Lock!GiveUp(t, key[t]) /\ s = "failed"
    <2>1. step[t] = "queued" /\ t \notin inside[key[t]] /\ s \notin Running
      BY <1>1, <1>2, <1>5 DEF Lock!GiveUp, Running
    <2>. QED  BY <1>1, <1>2, <1>5, <2>1 DEF Lock!GiveUp
  <1>6. CASE Lock!Enter(t, key[t]) /\ s \in Running
    BY <1>1, <1>2, <1>6 DEF Lock!Enter
  <1>7. CASE Lock!Leave(t, key[t]) /\ s \in {"ok", "failed"}
    <2>1. step[t] # "queued" /\ t \notin waiting[key[t]] /\ s \notin Running /\ s # "queued"
      BY <1>1, <1>2, <1>7 DEF Lock!Leave, Running
    <2>. QED  BY <1>1, <1>2, <1>7, <2>1 DEF Lock!Leave
  <1>. QED  BY <1>3, <1>4, <1>5, <1>6, <1>7

\* A caller moves on without a command: whatever it leaves on the wire, in the
\* queue or in the slot it leaves behind, unless that is a create.
LEMMA CallerMoves ==
  ASSUME IInv, NEW t \in Task, NEW s \in Step \ {"register", "create"},
         step' = [step EXCEPT ![t] = s], UNCHANGED key,
         UNCHANGED <<version, wire, pending, tokens, deferred, contexts, closed>>,
         answer' \in {answer, [answer EXCEPT ![t] = "none"]},
         leftBehind \subseteq leftBehind',
         step[t] # "failed",
         s = "detach" => step[t] = "register" /\ answer[t] = "ok",
         step[t] = "create" /\ answer[t] = "awaited" => s = "failed",
         \/ AwaitsRegistration(t)
         \/ GaveUp(t)
         \/ step[t] = "detach"
         \/ step[t] = "register" /\ answer[t] = "ok" /\ s # "detach"
         => s \in {"cleanup", "failed"} /\ key[t] \in leftBehind'
  PROVE  Flow'
  <1> USE NoTaskAssumption DEF IInv, Flow
  <1>0. /\ step \in [Task -> Step] /\ answer \in [Task -> Answer]
        /\ step' \in [Task -> Step]
        /\ pending \in [Key -> Task \cup {NoTask}]
    BY DEF TypeOK, BrowserTypeOK
  <1>1. \A u \in Task : UsesId(u)' <=> UsesId(u)
    BY DEF UsesId
  <1>2. \A c \in Conn : InFlight(c)' = InFlight(c)
    BY DEF InFlight
  <1>3. \A u \in Task : AwaitsRegistration(u) \/ GaveUp(u)
                        => AwaitsRegistration(u)' \/ GaveUp(u)'
    BY <1>0 DEF AwaitsRegistration, GaveUp
  <1>4. \A u \in Task : GaveUp(u) => GaveUp(u)'
    BY <1>0 DEF GaveUp
  <1>5. WireOK'
    <2> SUFFICES ASSUME NEW c \in Conn, NEW m \in InFlight(c)
                 PROVE  CommandOK(c, m)'
      BY <1>2 DEF WireOK
    <2>1. m.task \in Task /\ m.key \in Key
      BY OnWire
    <2>2. CommandOK(c, m)
      BY DEF WireOK
    <2>3. /\ m.key = key[m.task] /\ m.key[1] = c
          /\ m.token <=> UsesId(m.task)
          /\ m.op = "register" => AwaitsRegistration(m.task) \/ GaveUp(m.task)
      BY <2>2 DEF CommandOK
    <2>4. m.op = "create" =>
            /\ \/ step[m.task] = "create" /\ answer[m.task] = "awaited"
               \/ step[m.task] = "failed"
            /\ IF m.token THEN m.task \in tokens[m.key] ELSE pending[m.key] = m.task
      BY <2>2 DEF CommandOK
    <2>5. m.op = "create" =>
            /\ \/ step'[m.task] = "create" /\ answer'[m.task] = "awaited"
               \/ step'[m.task] = "failed"
      BY <1>0, <2>1, <2>4
    <2>. QED  BY <1>1, <1>3, <2>1, <2>3, <2>4, <2>5 DEF CommandOK
  <1>6. OneEach' /\ NotOvertaken'
    BY DEF OneEach, NotOvertaken
  <1>7. DeferredOK' /\ DeferredOnce'
    <2>1. DeferredOnce'
      BY DEF DeferredOnce
    <2> SUFFICES ASSUME NEW k \in Key, NEW i \in 1 .. Len(deferred[k])
                 PROVE  /\ key[deferred[k][i]] = k /\ ~UsesId(deferred[k][i])'
                        /\ k \in leftBehind'
                        /\ AwaitsRegistration(deferred[k][i])' \/ GaveUp(deferred[k][i])'
                        /\ \A m \in InFlight(k[1])' : m.task # deferred[k][i]
      BY <2>1 DEF DeferredOK
    <2>2. deferred[k][i] \in Task /\ k[1] \in Conn
      BY Sequences
    <2>3. /\ key[deferred[k][i]] = k /\ ~UsesId(deferred[k][i]) /\ k \in leftBehind
          /\ AwaitsRegistration(deferred[k][i]) \/ GaveUp(deferred[k][i])
          /\ \A m \in InFlight(k[1]) : m.task # deferred[k][i]
      BY DEF DeferredOK
    <2>. QED  BY <1>1, <1>2, <1>3, <2>2, <2>3
  <1>8. PendingOK'
    <2> SUFFICES ASSUME NEW k \in Key, pending[k] # NoTask
                 PROVE  /\ key[pending[k]] = k /\ ~UsesId(pending[k])' /\ k[1] \notin closed
                        /\ \/ step'[pending[k]] = "register" /\ answer'[pending[k]] = "ok"
                           \/ step'[pending[k]] = "detach"
                           \/ HasCreateInFlight(pending[k])'
                           \/ GaveUp(pending[k])'
      BY DEF PendingOK
    <2>1. pending[k] \in Task /\ key[pending[k]][1] \in Conn
      BY <1>0, Sequences
    <2>2. /\ key[pending[k]] = k /\ ~UsesId(pending[k]) /\ k[1] \notin closed
          /\ \/ step[pending[k]] = "register" /\ answer[pending[k]] = "ok"
             \/ step[pending[k]] = "detach"
             \/ HasCreateInFlight(pending[k])
             \/ GaveUp(pending[k])
      BY DEF PendingOK
    <2>3. HasCreateInFlight(pending[k]) => HasCreateInFlight(pending[k])'
      BY <1>2, <2>1 DEF HasCreateInFlight
    <2>4. CASE pending[k] = t
      BY <1>0, <1>1, <1>4, <2>1, <2>2, <2>3, <2>4 DEF GaveUp
    <2>5. CASE pending[k] # t
      BY <1>0, <1>1, <1>4, <2>1, <2>2, <2>3, <2>5
    <2>. QED  BY <2>4, <2>5
  <1>9. RegisteredOK'
    BY <1>0, <1>1 DEF RegisteredOK
  <1>10. RefusedOK'
    BY <1>0, <1>1 DEF RefusedOK
  <1>11. ClosedOK' /\ OwnCredentials'
    BY DEF ClosedOK, OwnCredentials
  <1>. QED  BY <1>5, <1>6, <1>7, <1>8, <1>9, <1>10, <1>11

\* A reply forgotten, or nothing at all: the browser's state keeps its type.
LEMMA QuietType ==
  ASSUME TypeOK, NEW t \in Task, UNCHANGED browserVars \/ Forget(t)
  PROVE  /\ BrowserTypeOK'
         /\ UNCHANGED <<version, wire, pending, tokens, deferred, contexts, closed>>
         /\ answer' \in {answer, [answer EXCEPT ![t] = "none"]}
  BY DEF TypeOK, BrowserTypeOK, browserVars, Forget, Answer

\* A caller asks for the lock.
LEMMA AskIInv ==
  ASSUME IInv, NEW t \in Task, Ask(t)
  PROVE  IInv'
  <1> USE DEF Ask, Goto
  <1>1. TypeOK /\ key[t] \in Key /\ leftBehind \in SUBSET Key
    BY DEF IInv, TypeOK
  <1>2. TypeOK' /\ Alone'
    BY <1>1, QuietType, CallerInLock DEF Step
  <1>3. Flow'
    BY <1>1, QuietType, CallerMoves DEF Step, Running, AwaitsRegistration, GaveUp
  <1>. QED  BY <1>2, <1>3 DEF IInv

\* It gives up while it waits, and has sent nothing.
LEMMA GiveUpWaitingIInv ==
  ASSUME IInv, NEW t \in Task, GiveUpWaiting(t)
  PROVE  IInv'
  <1> USE DEF GiveUpWaiting, Goto
  <1>1. TypeOK /\ key[t] \in Key /\ leftBehind \in SUBSET Key
    BY DEF IInv, TypeOK
  <1>2. TypeOK' /\ Alone'
    BY <1>1, QuietType, CallerInLock DEF Step
  <1>3. Flow'
    BY <1>1, QuietType, CallerMoves DEF Step, Running, AwaitsRegistration, GaveUp
  <1>. QED  BY <1>2, <1>3 DEF IInv

\* The call is over inside the lock, with what it leaves recorded.
LEMMA FinishIInv ==
  ASSUME IInv, NEW t \in Task, NEW s \in {"ok", "failed"}, Finish(t, s),
         step[t] \in Running, leftBehind' \in SUBSET Key, leftBehind \subseteq leftBehind',
         step[t] = "create" /\ answer[t] = "awaited" => s = "failed",
         \/ AwaitsRegistration(t)
         \/ GaveUp(t)
         \/ step[t] = "detach"
         \/ step[t] = "register" /\ answer[t] = "ok"
         => s = "failed" /\ key[t] \in leftBehind'
  PROVE  IInv'
  <1> USE DEF Finish, Goto
  <1>1. TypeOK /\ key[t] \in Key
    BY DEF IInv, TypeOK
  <1>2. /\ BrowserTypeOK'
        /\ UNCHANGED <<version, wire, pending, tokens, deferred, contexts, closed>>
        /\ answer' \in {answer, [answer EXCEPT ![t] = "none"]}
    BY <1>1, QuietType
  <1>3. TypeOK' /\ Alone'
    BY <1>1, <1>2, CallerInLock DEF Step
  <1>4. s \in Step \ {"register", "create"} /\ s # "detach" /\ step[t] # "failed"
    BY DEF Step, Running
  <1>5. Flow'
    BY <1>2, <1>4, CallerMoves
  <1>. QED  BY <1>3, <1>5 DEF IInv

\* The call lets go of its registration and, over a session, detaches that first.
LEMMA CleanupIInv ==
  ASSUME IInv, NEW t \in Task, Cleanup(t), step[t] = "register",
         leftBehind' \in SUBSET Key, leftBehind \subseteq leftBehind',
         AwaitsRegistration(t) \/ answer[t] = "ok" => key[t] \in leftBehind'
  PROVE  IInv'
  <1>1. CASE t \in ViaSession
    <2>1. /\ step' = [step EXCEPT ![t] = "cleanup"] /\ Forget(t)
          /\ UNCHANGED <<key, waiting, inside>>
      BY <1>1 DEF Cleanup, Goto
    <2>2. TypeOK /\ "cleanup" \in Step /\ "cleanup" \in Running /\ "register" \in Running
      BY DEF IInv, Step, Running
    <2>3. /\ BrowserTypeOK'
          /\ UNCHANGED <<version, wire, pending, tokens, deferred, contexts, closed>>
          /\ answer' \in {answer, [answer EXCEPT ![t] = "none"]}
      BY <2>1, <2>2, QuietType
    <2>4. TypeOK' /\ Alone'
      BY <2>1, <2>2, <2>3, CallerInLock
    <2>5. Flow'
      BY <2>1, <2>2, <2>3, CallerMoves DEF GaveUp
    <2>. QED  BY <2>4, <2>5 DEF IInv
  <1>2. CASE t \notin ViaSession
    <2>1. Finish(t, "failed") /\ step[t] \in Running
      BY <1>2 DEF Cleanup, Running
    <2>. QED  BY <2>1, FinishIInv DEF GaveUp
  <1>. QED  BY <1>1, <1>2

\* Every way out of the lock: a refusal, a failure, success, an abandoned call.
LEMMA RefusedIInv ==
  ASSUME IInv, NEW t \in Task, Refused(t)
  PROVE  IInv'
  <1>1. leftBehind \in SUBSET Key
    BY DEF IInv, TypeOK
  <1>. QED  BY <1>1, CleanupIInv DEF Refused, AwaitsRegistration

\* Something other than the browser fails.
LEMMA FailIInv ==
  ASSUME IInv, NEW t \in Task, Fail(t)
  PROVE  IInv'
  <1>1. leftBehind \in SUBSET Key /\ step[t] \in Running /\ step[t] \in {"entered", "cleanup", "create"}
    BY DEF IInv, TypeOK, Fail, Running
  <1>. QED  BY <1>1, FinishIInv DEF Fail, AwaitsRegistration, GaveUp

\* The context is there.
LEMMA CreatedIInv ==
  ASSUME IInv, NEW t \in Task, Created(t)
  PROVE  IInv'
  <1>1. leftBehind \in SUBSET Key /\ step[t] \in Running
    BY DEF IInv, TypeOK, Created, Running
  <1>. QED  BY <1>1, FinishIInv DEF Created, AwaitsRegistration, GaveUp

\* It gives up with a command out, and may leave a registration behind.
LEMMA GiveUpInsideIInv ==
  ASSUME IInv, NEW t \in Task, GiveUpInside(t)
  PROVE  IInv'
  <1>1. /\ leftBehind' \in SUBSET Key /\ leftBehind \subseteq leftBehind'
        /\ step[t] \in Running
        /\ step[t] # "create" => key[t] \in leftBehind'
    BY DEF IInv, TypeOK, GiveUpInside, Running
  <1>2. CASE step[t] = "register"
    BY <1>1, <1>2, CleanupIInv DEF GiveUpInside
  <1>3. CASE step[t] \in {"detach", "create"}
    <2>1. Finish(t, "failed")
      BY <1>3 DEF GiveUpInside
    <2>. QED  BY <1>1, <1>3, <2>1, FinishIInv DEF AwaitsRegistration, GaveUp
  <1>. QED  BY <1>2, <1>3 DEF GiveUpInside

\* A caller sends a command when it has none on the wire or in a queue: a
\* create only while the browser holds its registration, and after every
\* registration of a call that is still inside.
LEMMA CallerSends ==
  ASSUME IInv, NEW t \in Task, NEW op \in {"register", "create"},
         step' = [step EXCEPT ![t] = op], UNCHANGED <<key, leftBehind>>,
         Send(op, t, key[t], UsesId(t)),
         op = "register" => step[t] \in {"queued", "entered"},
         op = "create" => (step[t] = "register" /\ answer[t] = "ok") \/ step[t] = "detach"
  PROVE  Flow'
  <1> USE NoTaskAssumption DEF IInv, Flow
  <1>0. /\ step \in [Task -> Step] /\ answer \in [Task -> Answer]
        /\ pending \in [Key -> Task \cup {NoTask}]
        /\ key[t] \in Key /\ key[t][1] \in Conn
        /\ UNCHANGED <<version, pending, tokens, deferred, contexts, closed, key>>
        /\ \A u \in Task : UsesId(u)' <=> UsesId(u)
        /\ UsesId(t) \in BOOLEAN
    BY Sequences DEF TypeOK, BrowserTypeOK, Send, UsesId
  <1>1. \E a \in {"error", "awaited"} : answer' = [answer EXCEPT ![t] = a]
    BY DEF Send
  <1>2. ~AwaitsRegistration(t) /\ ~GaveUp(t) /\ step[t] \notin {"create", "failed"}
    BY DEF AwaitsRegistration, GaveUp
  <1>3. \A c \in Conn : \A m \in InFlight(c) : m.task # t
    <2> SUFFICES ASSUME NEW c \in Conn, NEW m \in InFlight(c), m.task = t
                 PROVE  FALSE
      OBVIOUS
    <2>1. CommandOK(c, m) /\ m.op \in {"register", "create"}
      BY OnWire DEF WireOK
    <2>. QED  BY <1>2, <2>1 DEF CommandOK
  <1>4. \A k \in Key : \A i \in 1 .. Len(deferred[k]) : deferred[k][i] # t
    BY <1>2 DEF DeferredOK
  <1>5. \A k \in Key : pending[k] = t => key[t] = k /\ op = "create"
    BY <1>0, <1>2, <1>3 DEF PendingOK, HasCreateInFlight
  <1>6. \A u \in Task \ {t} : /\ step'[u] = step[u] /\ answer'[u] = answer[u]
                              /\ AwaitsRegistration(u)' <=> AwaitsRegistration(u)
                              /\ GaveUp(u)' <=> GaveUp(u)
    BY <1>0, <1>1 DEF AwaitsRegistration, GaveUp
  <1>7. \A c \in Conn : \A m \in InFlight(c) : CommandOK(c, m)'
    <2> SUFFICES ASSUME NEW c \in Conn, NEW m \in InFlight(c)
                 PROVE  CommandOK(c, m)'
      OBVIOUS
    <2>1. CommandOK(c, m) /\ m.task \in Task \ {t} /\ m.key \in Key
      BY <1>3, OnWire DEF WireOK
    <2>. QED  BY <1>0, <1>6, <2>1 DEF CommandOK
  <1>8. DeferredOnce' /\ RefusedOK' /\ OwnCredentials' /\ RegisteredOK'
    <2>1. RefusedOK'
      BY <1>0, <1>1 DEF RefusedOK
    <2>2. DeferredOnce' /\ OwnCredentials'
      BY <1>0 DEF DeferredOnce, OwnCredentials
    <2>3. step'[t] = op /\ answer'[t] # "ok" /\ op # "detach"
      BY <1>0, <1>1
    <2>4. RegisteredOK'
      BY <1>0, <1>6, <2>3 DEF RegisteredOK
    <2>. QED  BY <2>1, <2>2, <2>4
  <1>9. \A k \in Key : \A i \in 1 .. Len(deferred[k]) :
          LET u == deferred[k][i]
          IN  /\ key[u] = k /\ ~UsesId(u)' /\ k \in leftBehind
              /\ u # t
              /\ AwaitsRegistration(u)' \/ GaveUp(u)'
              /\ \A m \in InFlight(k[1]) : m.task # u
    <2> SUFFICES ASSUME NEW k \in Key, NEW i \in 1 .. Len(deferred[k]), NEW u, u = deferred[k][i]
                 PROVE  /\ key[u] = k /\ ~UsesId(u)' /\ k \in leftBehind
                        /\ u # t
                        /\ AwaitsRegistration(u)' \/ GaveUp(u)'
                        /\ \A m \in InFlight(k[1]) : m.task # u
      BY <1>0
    <2>1. u \in Task \ {t}
      BY <1>4, Sequences
    <2>. QED  BY <1>0, <1>6, <2>1 DEF DeferredOK
  <1>10. CASE key[t][1] \in closed
    <2>1. wire' = wire /\ answer' = [answer EXCEPT ![t] = "error"]
      BY <1>10 DEF Send
    <2>2. WireOK' /\ OneEach' /\ NotOvertaken'
      BY <1>0, <1>7, <2>1 DEF WireOK, InFlight, OneEach, NotOvertaken
    <2>3. DeferredOK'
      BY <1>0, <1>9, <2>1 DEF DeferredOK, InFlight
    <2>4. \A k \in Key : pending[k] # t
      BY <1>5, <1>10 DEF PendingOK
    <2>5. PendingOK'
      <3> SUFFICES ASSUME NEW k \in Key, pending[k] # NoTask, NEW u, u = pending[k]
                   PROVE  /\ key[u] = k /\ ~UsesId(u)' /\ k[1] \notin closed
                          /\ \/ step'[u] = "register" /\ answer'[u] = "ok"
                             \/ step'[u] = "detach"
                             \/ HasCreateInFlight(u)'
                             \/ GaveUp(u)'
        BY <1>0 DEF PendingOK
      <3>1. u \in Task \ {t}
        BY <1>0, <2>4
      <3>2. HasCreateInFlight(u)' <=> HasCreateInFlight(u)
        BY <1>0, <2>1 DEF HasCreateInFlight, InFlight
      <3>. QED  BY <1>0, <1>6, <3>1, <3>2 DEF PendingOK
    <2>6. ClosedOK'
      BY <1>0, <2>1 DEF ClosedOK
    <2>. QED  BY <1>8, <2>2, <2>3, <2>5, <2>6
  <1>11. ASSUME NEW c \in Conn, c = key[t][1], c \notin closed, NEW m,
               m = [op |-> op, task |-> t, key |-> key[t], token |-> UsesId(t)]
         PROVE  Flow'
    <2>1. /\ Len(wire'[c]) = Len(wire[c]) + 1
          /\ \A i \in 1 .. Len(wire[c]) : wire'[c][i] = wire[c][i]
          /\ wire'[c][Len(wire[c]) + 1] = m
          /\ InFlight(c)' = InFlight(c) \cup {m}
          /\ \A d \in Conn \ {c} : wire'[d] = wire[d] /\ InFlight(d)' = InFlight(d)
      <3>1. wire' = [wire EXCEPT ![c] = Append(@, m)]
        BY <1>11 DEF Send
      <3>2. m \in Command
        BY <1>0, <1>11 DEF Command
      <3>. QED  BY <3>1, <3>2, Sent
    <2>2. answer' = [answer EXCEPT ![t] = "awaited"] /\ answer'[t] = "awaited" /\ step'[t] = op
      BY <1>0, <1>11 DEF Send
    <2>3. m.op = op /\ m.task = t /\ m.key = key[t] /\ m.token = UsesId(t)
      BY <1>11
    <2>4. Len(wire[c]) \in Nat
      BY Sequences
    <2>5. WireOK'
      <3>1. CommandOK(c, m)'
        <4>1. op = "create" => IF UsesId(t) THEN t \in tokens[key[t]] ELSE pending[key[t]] = t
          BY <1>11 DEF RegisteredOK
        <4>. QED  BY <1>0, <1>11, <2>2, <2>3, <4>1 DEF CommandOK, AwaitsRegistration
      <3>. QED  BY <1>7, <2>1, <3>1 DEF WireOK
    <2>6. OneEach'
      <3> SUFFICES ASSUME NEW d \in Conn, NEW i \in 1 .. Len(wire'[d]), NEW j \in 1 .. Len(wire'[d]),
                          wire'[d][i].task = wire'[d][j].task
                   PROVE  i = j
        BY DEF OneEach
      <3>1. CASE d # c
        BY <2>1, <3>1 DEF OneEach
      <3>2. CASE d = c
        <4>1. \A n \in 1 .. Len(wire[c]) : wire'[c][n].task = wire[c][n].task /\ wire[c][n].task # t
          BY <1>3, <2>1 DEF InFlight
        <4>2. wire'[c][Len(wire[c]) + 1].task = t
          BY <2>1, <2>3
        <4>3. \A n \in 1 .. Len(wire'[c]) : n \in 1 .. Len(wire[c]) \/ n = Len(wire[c]) + 1
          BY <2>1, <2>4
        <4>. QED  BY <3>2, <4>1, <4>2, <4>3 DEF OneEach
      <3>. QED  BY <3>1, <3>2
    <2>7. NotOvertaken'
      <3> SUFFICES ASSUME NEW d \in Conn, NEW i \in 1 .. Len(wire'[d]), NEW j \in 1 .. Len(wire'[d]),
                          i < j, wire'[d][i].op = "register", wire'[d][j].op = "create",
                          wire'[d][i].key = wire'[d][j].key
                   PROVE  wire'[d][i].key \in leftBehind
        BY <1>0 DEF NotOvertaken
      <3>1. CASE d # c
        BY <2>1, <3>1 DEF NotOvertaken
      <3>2. CASE d = c /\ j \in 1 .. Len(wire[c])
        <4>1. i \in 1 .. Len(wire[c])
          BY <2>1, <2>4, <3>2
        <4>. QED  BY <2>1, <3>2, <4>1 DEF NotOvertaken
      <3>3. CASE d = c /\ j \notin 1 .. Len(wire[c])
        <4>1. j = Len(wire[c]) + 1 /\ i \in 1 .. Len(wire[c])
          BY <2>1, <2>4, <3>3
        <4>2. wire'[c][i] = wire[c][i] /\ wire[c][i] \in InFlight(c) /\ wire'[c][j] = m
          BY <2>1, <4>1 DEF InFlight
        <4> DEFINE u == wire[c][i].task
        <4>3. u \in Task \ {t} /\ key[u] = key[t] /\ (AwaitsRegistration(u) \/ GaveUp(u))
              /\ wire[c][i].key = key[t] /\ op = "create"
          BY <1>3, <2>3, <3>3, <4>2, OnWire DEF WireOK, CommandOK
        <4>4. ~AwaitsRegistration(u)
          <5>1. step[t] \in Running
            BY <4>3 DEF Running
          <5>2. step[u] = "register" => step[u] \in Running
            BY DEF Running
          <5>. QED  BY <1>0, <4>3, <5>1, <5>2 DEF AwaitsRegistration, TypeOK, Alone
        <4>. QED  BY <3>3, <4>2, <4>3, <4>4 DEF GaveUp
      <3>. QED  BY <3>1, <3>2, <3>3
    <2>8. DeferredOK'
      <3>1. \A d \in Conn : \A n \in InFlight(d)' : n \in InFlight(d) \/ n.task = t
        BY <2>1, <2>3
      <3>2. \A k \in Key : k[1] \in Conn
        BY Sequences
      <3>. QED  BY <1>0, <1>9, <3>1, <3>2 DEF DeferredOK
    <2>9. PendingOK'
      <3> SUFFICES ASSUME NEW k \in Key, pending[k] # NoTask, NEW u, u = pending[k]
                   PROVE  /\ key[u] = k /\ ~UsesId(u)' /\ k[1] \notin closed
                          /\ \/ step'[u] = "register" /\ answer'[u] = "ok"
                             \/ step'[u] = "detach"
                             \/ HasCreateInFlight(u)'
                             \/ GaveUp(u)'
        BY <1>0 DEF PendingOK
      <3>1. u \in Task /\ key[u][1] \in Conn
        BY <1>0, Sequences
      <3>2. /\ key[u] = k /\ ~UsesId(u) /\ k[1] \notin closed
            /\ \/ step[u] = "register" /\ answer[u] = "ok"
               \/ step[u] = "detach"
               \/ HasCreateInFlight(u)
               \/ GaveUp(u)
        BY DEF PendingOK
      <3>3. HasCreateInFlight(u) => HasCreateInFlight(u)'
        BY <1>0, <2>1, <3>1 DEF HasCreateInFlight
      <3>4. u = t => HasCreateInFlight(u)'
        BY <1>0, <1>5, <1>11, <2>1, <2>3 DEF HasCreateInFlight
      <3>. QED  BY <1>0, <1>6, <3>1, <3>2, <3>3, <3>4
    <2>10. ClosedOK'
      BY <1>0, <1>11, <2>1 DEF ClosedOK, TypeOK, BrowserTypeOK
    <2>. QED  BY <1>8, <2>5, <2>6, <2>7, <2>8, <2>9, <2>10
  <1>. QED  BY <1>0, <1>10, <1>11

\* Whether a command goes out or not, the browser's state keeps its type.
LEMMA SendType ==
  ASSUME TypeOK, NEW t \in Task, NEW op \in {"register", "create"},
         Send(op, t, key[t], UsesId(t))
  PROVE  BrowserTypeOK'
  <1>1. [op |-> op, task |-> t, key |-> key[t], token |-> UsesId(t)] \in Command
        /\ key[t][1] \in Conn
    BY Sequences DEF UsesId, Command
  <1>2. wire' \in [Conn -> Seq(Command)]
    BY <1>1, Sent DEF Send, TypeOK, BrowserTypeOK
  <1>. QED  BY <1>2 DEF Send, TypeOK, BrowserTypeOK, Answer

\* It has the lock, and sends the registration unless it needs a session for it.
LEMMA EnterIInv ==
  ASSUME IInv, NEW t \in Task, Enter(t)
  PROVE  IInv'
  <1>1. /\ TypeOK /\ leftBehind' \in SUBSET Key /\ UNCHANGED <<key, leftBehind>>
        /\ step[t] = "queued" /\ Lock!Enter(t, key[t])
    BY DEF IInv, TypeOK, Enter, Goto
  <1>2. CASE t \in ViaSession
    <2>1. step' = [step EXCEPT ![t] = "entered"] /\ UNCHANGED browserVars
      BY <1>2 DEF Enter, Goto
    <2>2. "entered" \in Step /\ "entered" \in Running
      BY DEF Step, Running
    <2>3. TypeOK' /\ Alone'
      BY <1>1, <2>1, <2>2, QuietType, CallerInLock
    <2>4. Flow'
      BY <1>1, <2>1, <2>2, QuietType, CallerMoves DEF AwaitsRegistration, GaveUp
    <2>. QED  BY <2>3, <2>4 DEF IInv
  <1>3. CASE t \notin ViaSession
    <2>1. step' = [step EXCEPT ![t] = "register"] /\ Send("register", t, key[t], UsesId(t))
      BY <1>3 DEF Enter, Goto
    <2>2. "register" \in Step /\ "register" \in Running
      BY DEF Step, Running
    <2>3. TypeOK' /\ Alone'
      BY <1>1, <2>1, <2>2, SendType, CallerInLock
    <2>4. Flow'
      BY <1>1, <2>1, CallerSends
    <2>. QED  BY <2>3, <2>4 DEF IInv
  <1>. QED  BY <1>2, <1>3

\* The session is there: the registration goes out.
LEMMA AttachedIInv ==
  ASSUME IInv, NEW t \in Task, Attached(t)
  PROVE  IInv'
  <1>1. /\ TypeOK /\ leftBehind' \in SUBSET Key /\ UNCHANGED <<key, leftBehind, waiting, inside>>
        /\ step[t] = "entered" /\ step' = [step EXCEPT ![t] = "register"]
        /\ Send("register", t, key[t], UsesId(t))
    BY DEF IInv, TypeOK, Attached, Goto
  <1>2. "register" \in Step /\ "register" \in Running /\ "entered" \in Running
    BY DEF Step, Running
  <1>3. TypeOK' /\ Alone'
    BY <1>1, <1>2, SendType, CallerInLock
  <1>4. Flow'
    BY <1>1, CallerSends
  <1>. QED  BY <1>3, <1>4 DEF IInv

\* The create goes out after the registration of the same key.
LEMMA SendCreateIInv ==
  ASSUME IInv, NEW t \in Task, SendCreate(t),
         (step[t] = "register" /\ answer[t] = "ok") \/ step[t] = "detach"
  PROVE  IInv'
  <1>1. /\ TypeOK /\ leftBehind' \in SUBSET Key /\ UNCHANGED <<key, leftBehind, waiting, inside>>
        /\ step' = [step EXCEPT ![t] = "create"] /\ Send("create", t, key[t], UsesId(t))
    BY DEF IInv, TypeOK, SendCreate, Goto
  <1>2. "create" \in Step /\ "create" \in Running /\ step[t] \in Running /\ step[t] # "queued"
    BY DEF Step, Running
  <1>3. TypeOK' /\ Alone'
    BY <1>1, <1>2, SendType, CallerInLock
  <1>4. Flow'
    BY <1>1, CallerSends
  <1>. QED  BY <1>3, <1>4 DEF IInv

\* The registration is accepted.
LEMMA RegisteredIInv ==
  ASSUME IInv, NEW t \in Task, Registered(t)
  PROVE  IInv'
  <1>1. step[t] = "register" /\ answer[t] = "ok"
    BY DEF Registered
  <1>2. CASE t \in ViaSession
    <2>1. /\ step' = [step EXCEPT ![t] = "detach"] /\ UNCHANGED browserVars
          /\ UNCHANGED <<key, waiting, inside, leftBehind>>
      BY <1>2 DEF Registered, Goto
    <2>2. /\ TypeOK /\ leftBehind' \in SUBSET Key
          /\ "detach" \in Step /\ "detach" \in Running /\ "register" \in Running
      BY <2>1 DEF IInv, TypeOK, Step, Running
    <2>3. TypeOK' /\ Alone'
      BY <1>1, <2>1, <2>2, QuietType, CallerInLock
    <2>4. Flow'
      BY <1>1, <2>1, <2>2, QuietType, CallerMoves DEF AwaitsRegistration, GaveUp
    <2>. QED  BY <2>3, <2>4 DEF IInv
  <1>3. CASE t \notin ViaSession
    BY <1>1, <1>3, SendCreateIInv DEF Registered
  <1>. QED  BY <1>2, <1>3

\* The session it was sent through is gone.
LEMMA DetachedIInv ==
  ASSUME IInv, NEW t \in Task, Detached(t)
  PROVE  IInv'
  BY SendCreateIInv DEF Detached

-----------------------------------------------------------------------------
(* Steps of the browser *)

\* A browser step leaves the callers and their lock alone.
LEMMA BrowserTypes ==
  ASSUME IInv, BrowserTypeOK', UNCHANGED clientVars
  PROVE  TypeOK' /\ Alone'
  BY DEF IInv, TypeOK, Lock!TypeOK, Alone, clientVars

\* A reply reaches the one caller that waits for it, if it still does.
LEMMA Replied ==
  ASSUME IInv, UNCHANGED clientVars, UNCHANGED version,
         NEW v \in Task, NEW a \in {"ok", "refused", "error"}, Reply(v, a)
  PROVE  /\ answer' \in [Task -> Answer]
         /\ answer'[v] = IF answer[v] = "awaited" THEN a ELSE answer[v]
         /\ \A u \in Task : /\ UsesId(u)' <=> UsesId(u)
                            /\ GaveUp(u)' <=> GaveUp(u)
                            /\ answer[u] = "ok" => answer'[u] = "ok"
         /\ \A u \in Task \ {v} : /\ answer'[u] = answer[u]
                                  /\ AwaitsRegistration(u)' <=> AwaitsRegistration(u)
  BY DEF Reply, clientVars, IInv, TypeOK, BrowserTypeOK, Answer, UsesId, GaveUp, AwaitsRegistration

\* What is left on the wire after a receive: nothing more of that caller, and
\* in the order it was.
LEMMA ReceivedOrder ==
  ASSUME IInv, UNCHANGED clientVars, NEW c \in Conn, NEW op, Receive(c, op),
         NEW m, m = Head(wire[c])
  PROVE  /\ OneEach' /\ NotOvertaken'
         /\ m \in Command /\ m.op = op /\ m \in InFlight(c) /\ CommandOK(c, m) /\ c \notin closed
         /\ \A d \in Conn : \A n \in InFlight(d)' : n \in InFlight(d) /\ n.task # m.task
         /\ \A d \in Conn : \A n \in InFlight(d) : n # m => n \in InFlight(d)'
         /\ \A d \in closed : wire'[d] = wire[d]
  <1>1. /\ m \in InFlight(c) /\ m \in Command /\ m.op = op
        /\ wire' \in [Conn -> Seq(Command)]
        /\ Len(wire[c]) >= 1
        /\ Len(wire'[c]) = Len(wire[c]) - 1
        /\ \A i \in 1 .. Len(wire[c]) - 1 : wire'[c][i] = wire[c][i+1]
        /\ InFlight(c)' = InFlight(c) \ {m}
        /\ \A n \in InFlight(c)' : n.task # m.task
        /\ \A d \in Conn \ {c} : wire'[d] = wire[d] /\ InFlight(d)' = InFlight(d)
    BY Received DEF IInv, Flow
  <1>2. Len(wire[c]) \in Nat
    BY Sequences DEF IInv
  <1>3. \A i \in 1 .. Len(wire'[c]) : i + 1 \in 1 .. Len(wire[c]) /\ wire'[c][i] = wire[c][i+1]
    BY <1>1, <1>2
  <1>4. OneEach'
    <2> SUFFICES ASSUME NEW d \in Conn, NEW i \in 1 .. Len(wire'[d]), NEW j \in 1 .. Len(wire'[d]),
                        wire'[d][i].task = wire'[d][j].task
                 PROVE  i = j
      BY DEF OneEach
    <2>1. CASE d # c
      BY <1>1, <2>1 DEF IInv, Flow, OneEach
    <2>2. CASE d = c
      <3>1. i + 1 = j + 1
        BY <1>3, <2>2 DEF IInv, Flow, OneEach
      <3>. QED  BY <1>1, <1>2, <2>2, <3>1
    <2>. QED  BY <2>1, <2>2
  <1>5. NotOvertaken'
    <2> SUFFICES ASSUME NEW d \in Conn, NEW i \in 1 .. Len(wire'[d]), NEW j \in 1 .. Len(wire'[d]),
                        i < j, wire'[d][i].op = "register", wire'[d][j].op = "create",
                        wire'[d][i].key = wire'[d][j].key
                 PROVE  wire'[d][i].key \in leftBehind
      BY DEF NotOvertaken, clientVars
    <2>1. CASE d # c
      BY <1>1, <2>1 DEF IInv, Flow, NotOvertaken
    <2>2. CASE d = c
      <3>1. i + 1 < j + 1
        BY <1>1, <1>2, <2>2
      <3>. QED  BY <1>3, <2>2, <3>1 DEF IInv, Flow, NotOvertaken
    <2>. QED  BY <2>1, <2>2
  <1>6. CommandOK(c, m)
    BY <1>1 DEF IInv, Flow, WireOK
  <1>7. c \notin closed
    BY DEF IInv, Flow, ClosedOK, Receive
  <1>8. \A d \in Conn \ {c} : \A n \in InFlight(d) : n.task # m.task /\ n # m
    <2> SUFFICES ASSUME NEW d \in Conn \ {c}, NEW n \in InFlight(d)
                 PROVE  n.task # m.task /\ n # m
      OBVIOUS
    <2>1. CommandOK(d, n)
      BY DEF IInv, Flow, WireOK
    <2>. QED  BY <1>6, <2>1 DEF CommandOK
  <1>9. \A d \in closed : wire'[d] = wire[d]
    BY <1>1, <1>7 DEF IInv, TypeOK, BrowserTypeOK
  <1>. QED  BY <1>1, <1>4, <1>5, <1>6, <1>7, <1>8, <1>9

\* The browser holds another registration when one arrives: only after one was
\* left behind.  Otherwise both callers are inside, or the create of the first
\* went out after the second was sent.
LEMMA SlotTaken ==
  ASSUME IInv, NEW c \in Conn, Receive(c, "register"), NEW m, m = Head(wire[c]),
         ~m.token, pending[m.key] # NoTask
  PROVE  m.key \in leftBehind
  <1>1. /\ m \in InFlight(c) /\ m \in Command /\ m.op = "register"
        /\ m = wire[c][1] /\ Len(wire[c]) >= 1
    BY Received DEF IInv, Flow
  <1>2. /\ m.task \in Task /\ m.key \in Key /\ m.key = key[m.task] /\ m.key[1] = c
        /\ AwaitsRegistration(m.task) \/ GaveUp(m.task)
    BY <1>1, OnWire DEF IInv, Flow, WireOK, CommandOK
  <1> DEFINE v == pending[m.key]
  <1>3. v \in Task
    BY <1>2 DEF IInv, TypeOK, BrowserTypeOK
  <1>4. /\ key[v] = m.key
        /\ \/ step[v] = "register" /\ answer[v] = "ok"
           \/ step[v] = "detach"
           \/ HasCreateInFlight(v)
           \/ GaveUp(v)
    BY <1>2 DEF IInv, Flow, PendingOK
  <1> HIDE DEF v
  <1>5. CASE GaveUp(m.task) \/ GaveUp(v)
    BY <1>2, <1>4, <1>5 DEF GaveUp
  <1>6. CASE AwaitsRegistration(m.task) /\ HasCreateInFlight(v)
    <2>1. Len(wire[c]) \in Nat
      BY Sequences DEF IInv
    <2>2. PICK j \in 1 .. Len(wire[c]) : wire[c][j].op = "create" /\ wire[c][j].task = v
      BY <1>2, <1>4, <1>6 DEF HasCreateInFlight, InFlight
    <2>3. wire[c][j].key = m.key
      BY <1>4, <2>2 DEF IInv, Flow, WireOK, CommandOK, InFlight
    <2>4. j # 1
      BY <1>1, <2>2
    <2>5. 1 \in 1 .. Len(wire[c]) /\ 1 < j
      BY <1>1, <2>1, <2>4
    <2>. QED  BY <1>1, <2>2, <2>3, <2>5 DEF IInv, Flow, NotOvertaken
  <1>7. CASE /\ AwaitsRegistration(m.task)
             /\ (step[v] = "register" /\ answer[v] = "ok") \/ step[v] = "detach"
    <2>1. step[m.task] \in Running /\ step[v] \in Running
      BY <1>7 DEF AwaitsRegistration, Running
    <2>2. m.task = v
      BY <1>2, <1>3, <1>4, <2>1 DEF IInv, TypeOK, Alone
    <2>. QED  BY <1>7, <2>2 DEF AwaitsRegistration
  <1>. QED  BY <1>2, <1>4, <1>5, <1>6, <1>7

\* The commands behind the one received keep what they rest on: its reply is
\* nobody else's, and its effect on the slot is none of theirs.
LEMMA OthersWire ==
  ASSUME IInv, UNCHANGED clientVars, UNCHANGED version, NEW c \in Conn, NEW op, Receive(c, op),
         NEW m, m = Head(wire[c]),
         \A u \in Task \ {m.task} : answer'[u] = answer[u],
         \A k \in Key : pending'[k] = pending[k] \/ pending[k] \in {NoTask, m.task},
         \A k \in Key : tokens[k] \ {m.task} \subseteq tokens'[k]
  PROVE  WireOK'
  <1>1. \A d \in Conn : \A n \in InFlight(d)' : n \in InFlight(d) /\ n.task # m.task
    BY ReceivedOrder
  <1> SUFFICES ASSUME NEW d \in Conn, NEW n \in InFlight(d), n.task # m.task
               PROVE  CommandOK(d, n)'
    BY <1>1 DEF WireOK
  <1>2. n.task \in Task /\ n.key \in Key /\ n.task # NoTask
    BY OnWire, NoTaskAssumption DEF IInv
  <1>3. CommandOK(d, n)
    BY DEF IInv, Flow, WireOK
  <1>4. /\ UsesId(n.task)' <=> UsesId(n.task)
        /\ AwaitsRegistration(n.task)' <=> AwaitsRegistration(n.task)
        /\ GaveUp(n.task)' <=> GaveUp(n.task)
    BY <1>2 DEF UsesId, AwaitsRegistration, GaveUp, clientVars
  <1>5. /\ pending[n.key] = n.task => pending'[n.key] = n.task
        /\ n.task \in tokens[n.key] => n.task \in tokens'[n.key]
    BY <1>2
  <1>. QED  BY <1>2, <1>3, <1>4, <1>5 DEF CommandOK, clientVars

\* The queued keep what they rest on while a command from the wire is answered.
LEMMA DeferredStays ==
  ASSUME IInv, UNCHANGED clientVars, UNCHANGED deferred,
         NEW v, \A u \in Task : UsesId(u)' <=> UsesId(u),
         \A u \in Task : GaveUp(u)' <=> GaveUp(u),
         \A u \in Task \ {v} : AwaitsRegistration(u)' <=> AwaitsRegistration(u),
         \A d \in Conn : \A n \in InFlight(d)' : n \in InFlight(d),
         NEW c \in Conn, NEW m \in InFlight(c), m.task = v
  PROVE  DeferredOK'
  <1> SUFFICES ASSUME NEW k \in Key, NEW i \in 1 .. Len(deferred[k]), NEW u, u = deferred[k][i]
               PROVE  /\ key[u] = k /\ ~UsesId(u)' /\ k \in leftBehind
                      /\ AwaitsRegistration(u)' \/ GaveUp(u)'
                      /\ \A n \in InFlight(k[1])' : n.task # u
    BY DEF DeferredOK, clientVars
  <1>1. u \in Task /\ k[1] \in Conn
    BY Sequences DEF IInv
  <1>2. /\ key[u] = k /\ ~UsesId(u) /\ k \in leftBehind
        /\ AwaitsRegistration(u) \/ GaveUp(u)
        /\ \A n \in InFlight(k[1]) : n.task # u
    BY DEF IInv, Flow, DeferredOK
  <1>3. u # v
    BY <1>2 DEF IInv, Flow, WireOK, CommandOK
  <1>. QED  BY <1>1, <1>2, <1>3

\* The slot's owner keeps what its registration rests on while no create of
\* its own is received.
LEMMA PendingStays ==
  ASSUME IInv, UNCHANGED clientVars, UNCHANGED closed,
         \A k \in Key : pending'[k] # NoTask => pending'[k] = pending[k],
         \A u \in Task : UsesId(u)' <=> UsesId(u),
         \A u \in Task : GaveUp(u)' <=> GaveUp(u),
         \A u \in Task : answer[u] = "ok" => answer'[u] = "ok",
         NEW m, \A d \in Conn : \A n \in InFlight(d) : n # m => n \in InFlight(d)',
         m.op = "create" => \A k \in Key : pending'[k] # m.task
  PROVE  PendingOK'
  <1> SUFFICES ASSUME NEW k \in Key, pending'[k] # NoTask, NEW v, v = pending'[k]
               PROVE  /\ key[v] = k /\ ~UsesId(v)' /\ k[1] \notin closed
                      /\ \/ step[v] = "register" /\ answer'[v] = "ok"
                         \/ step[v] = "detach"
                         \/ HasCreateInFlight(v)'
                         \/ GaveUp(v)'
    BY DEF PendingOK, clientVars
  <1>1. v = pending[k] /\ v \in Task /\ key[v][1] \in Conn
    BY Sequences DEF IInv, TypeOK, BrowserTypeOK
  <1>2. /\ key[v] = k /\ ~UsesId(v) /\ k[1] \notin closed
        /\ \/ step[v] = "register" /\ answer[v] = "ok"
           \/ step[v] = "detach"
           \/ HasCreateInFlight(v)
           \/ GaveUp(v)
    BY <1>1 DEF IInv, Flow, PendingOK
  <1>3. HasCreateInFlight(v) => HasCreateInFlight(v)'
    <2> SUFFICES ASSUME NEW n \in InFlight(key[v][1]), n.op = "create", n.task = v
                 PROVE  HasCreateInFlight(v)'
      BY DEF HasCreateInFlight
    <2>1. n # m
      OBVIOUS
    <2>. QED  BY <1>1, <2>1 DEF HasCreateInFlight, clientVars
  <1>. QED  BY <1>1, <1>2, <1>3

\* A registration under a credentialsId is its caller's alone, and never waits.
LEMMA RegisterTokenedIInv ==
  ASSUME IInv, NEW c \in Conn, RegisterTokened(c), UNCHANGED clientVars
  PROVE  IInv'
  <1> DEFINE m == Head(wire[c])
  <1>1. /\ Receive(c, "register") /\ m.token
        /\ tokens' = [tokens EXCEPT ![m.key] = @ \cup {m.task}]
        /\ Reply(m.task, "ok")
        /\ UNCHANGED <<version, pending, deferred, contexts, closed>>
    BY DEF RegisterTokened
  <1> HIDE DEF m
  <1>2. /\ OneEach' /\ NotOvertaken'
        /\ m \in Command /\ m.op = "register" /\ m \in InFlight(c) /\ CommandOK(c, m)
        /\ c \notin closed
        /\ \A d \in Conn : \A n \in InFlight(d)' : n \in InFlight(d) /\ n.task # m.task
        /\ \A d \in Conn : \A n \in InFlight(d) : n # m => n \in InFlight(d)'
        /\ \A d \in closed : wire'[d] = wire[d]
        /\ wire' \in [Conn -> Seq(Command)]
    BY <1>1, ReceivedOrder, Received DEF m, IInv, Flow
  <1>3. /\ m.task \in Task /\ m.key = key[m.task] /\ m.key \in Key /\ UsesId(m.task)
        /\ AwaitsRegistration(m.task) \/ GaveUp(m.task)
    BY <1>1, <1>2, OnWire DEF IInv, CommandOK
  <1>4. /\ answer' \in [Task -> Answer]
        /\ answer'[m.task] = IF answer[m.task] = "awaited" THEN "ok" ELSE answer[m.task]
        /\ \A u \in Task : /\ UsesId(u)' <=> UsesId(u)
                           /\ GaveUp(u)' <=> GaveUp(u)
                           /\ answer[u] = "ok" => answer'[u] = "ok"
        /\ \A u \in Task \ {m.task} : /\ answer'[u] = answer[u]
                                      /\ AwaitsRegistration(u)' <=> AwaitsRegistration(u)
    BY <1>1, <1>3, Replied
  <1>5. TypeOK' /\ Alone'
    <2>1. tokens' \in [Key -> SUBSET Task]
      BY <1>1, <1>3 DEF IInv, TypeOK, BrowserTypeOK
    <2>2. BrowserTypeOK'
      BY <1>1, <1>2, <1>4, <2>1 DEF IInv, TypeOK, BrowserTypeOK
    <2>. QED  BY <2>2, BrowserTypes
  <1>6. \A k \in Key : tokens[k] \subseteq tokens'[k]
    BY <1>1, <1>3 DEF IInv, TypeOK, BrowserTypeOK
  <1>7. WireOK'
    BY <1>1, <1>4, <1>6, OthersWire DEF m
  <1>8. DeferredOK' /\ DeferredOnce'
    BY <1>1, <1>2, <1>4, DeferredStays DEF IInv, Flow, DeferredOnce
  <1>9. PendingOK'
    BY <1>1, <1>2, <1>4, PendingStays DEF IInv
  <1>10. RegisteredOK'
    <2>1. m.task \in tokens'[key[m.task]]
      BY <1>1, <1>3 DEF IInv, TypeOK, BrowserTypeOK
    <2>2. \A u \in Task : key[u] \in Key
      BY Sequences DEF IInv
    <2> SUFFICES ASSUME NEW u \in Task,
                        (step[u] = "register" /\ answer'[u] = "ok") \/ step[u] = "detach",
                        key[u][1] \notin closed
                 PROVE  IF UsesId(u) THEN u \in tokens'[key[u]] ELSE pending[key[u]] = u
      BY <1>1, <1>4 DEF RegisteredOK, clientVars
    <2>3. CASE u = m.task
      BY <1>3, <2>1, <2>3
    <2>4. CASE u # m.task
      BY <1>4, <1>6, <2>2, <2>4 DEF IInv, Flow, RegisteredOK
    <2>. QED  BY <2>3, <2>4
  <1>11. RefusedOK'
    BY <1>3, <1>4 DEF IInv, Flow, RefusedOK, clientVars
  <1>12. ClosedOK' /\ OwnCredentials'
    BY <1>1, <1>2 DEF IInv, Flow, ClosedOK, OwnCredentials
  <1>. QED  BY <1>2, <1>5, <1>7, <1>8, <1>9, <1>10, <1>11, <1>12 DEF IInv, Flow

\* A registration takes a free slot, is refused, or waits its turn.
LEMMA RegisterIInv ==
  ASSUME IInv, NEW c \in Conn, Register(c), UNCHANGED clientVars
  PROVE  IInv'
  <1> USE NoTaskAssumption
  <1> DEFINE m == Head(wire[c])
  <1>1. /\ Receive(c, "register") /\ ~m.token
        /\ UNCHANGED <<version, tokens, contexts, closed>>
    BY DEF Register
  <1>2. \/ /\ pending[m.key] = NoTask
           /\ pending' = [pending EXCEPT ![m.key] = m.task]
           /\ Reply(m.task, "ok")
           /\ UNCHANGED deferred
        \/ /\ pending[m.key] # NoTask
           /\ Reply(m.task, "refused")
           /\ UNCHANGED <<pending, deferred>>
        \/ /\ pending[m.key] # NoTask
           /\ deferred' = [deferred EXCEPT ![m.key] = Append(@, m.task)]
           /\ UNCHANGED <<pending, answer>>
    BY DEF Register
  <1>3. pending[m.key] # NoTask => m.key \in leftBehind
    BY <1>1, SlotTaken
  <1>4. /\ OneEach' /\ NotOvertaken'
        /\ m \in Command /\ m.op = "register" /\ m \in InFlight(c) /\ CommandOK(c, m)
        /\ c \notin closed
        /\ \A d \in Conn : \A n \in InFlight(d)' : n \in InFlight(d) /\ n.task # m.task
        /\ \A d \in Conn : \A n \in InFlight(d) : n # m => n \in InFlight(d)'
        /\ \A d \in closed : wire'[d] = wire[d]
        /\ wire' \in [Conn -> Seq(Command)]
    BY <1>1, ReceivedOrder, Received DEF IInv, Flow
  <1> HIDE DEF m
  <1>5. /\ m.task \in Task /\ m.key = key[m.task] /\ m.key \in Key /\ m.key[1] = c
        /\ ~UsesId(m.task) /\ m.task # NoTask
        /\ AwaitsRegistration(m.task) \/ GaveUp(m.task)
    BY <1>1, <1>4, OnWire DEF IInv, CommandOK
  <1>6. /\ \A u \in Task : UsesId(u)' <=> UsesId(u)
        /\ \A u \in Task : GaveUp(u)' <=> GaveUp(u)
    BY <1>1 DEF UsesId, GaveUp, clientVars
  <1>7. ClosedOK' <=> \A k \in Key : k[1] \in closed => deferred'[k] = <<>>
    BY <1>1, <1>4 DEF IInv, Flow, ClosedOK
  <1>8. OwnCredentials'
    BY <1>1 DEF IInv, Flow, OwnCredentials
  <1>9. \A k \in Key : pending[k] \in Task \cup {NoTask}
    BY DEF IInv, TypeOK, BrowserTypeOK
  <1>10. CASE /\ pending[m.key] = NoTask
              /\ pending' = [pending EXCEPT ![m.key] = m.task]
              /\ Reply(m.task, "ok")
              /\ UNCHANGED deferred
    <2>1. /\ answer' \in [Task -> Answer]
          /\ answer'[m.task] = IF answer[m.task] = "awaited" THEN "ok" ELSE answer[m.task]
          /\ \A u \in Task : answer[u] = "ok" => answer'[u] = "ok"
          /\ \A u \in Task \ {m.task} : /\ answer'[u] = answer[u]
                                        /\ AwaitsRegistration(u)' <=> AwaitsRegistration(u)
      BY <1>1, <1>5, <1>10, Replied
    <2>2. /\ pending'[m.key] = m.task
          /\ \A k \in Key \ {m.key} : pending'[k] = pending[k]
          /\ pending' \in [Key -> Task \cup {NoTask}]
      BY <1>5, <1>10 DEF IInv, TypeOK, BrowserTypeOK
    <2>3. BrowserTypeOK'
      BY <1>1, <1>4, <1>10, <2>1, <2>2 DEF IInv, TypeOK, BrowserTypeOK
    <2>4. WireOK'
      BY <1>1, <1>10, <2>1, <2>2, OthersWire DEF m
    <2>5. DeferredOK' /\ DeferredOnce'
      BY <1>4, <1>6, <1>10, <2>1, DeferredStays DEF IInv, Flow, DeferredOnce
    <2>6. PendingOK'
      <3> SUFFICES ASSUME NEW k \in Key, pending'[k] # NoTask, NEW v, v = pending'[k]
                   PROVE  /\ key[v] = k /\ ~UsesId(v)' /\ k[1] \notin closed
                          /\ \/ step[v] = "register" /\ answer'[v] = "ok"
                             \/ step[v] = "detach"
                             \/ HasCreateInFlight(v)'
                             \/ GaveUp(v)'
        BY <1>1 DEF PendingOK, clientVars
      <3>1. CASE k = m.key
        BY <1>4, <1>5, <1>6, <2>1, <2>2, <3>1 DEF AwaitsRegistration
      <3>2. CASE k # m.key
        <4>1. v = pending[k] /\ v \in Task /\ key[v][1] \in Conn
          BY <1>9, <2>2, <3>2, Sequences DEF IInv
        <4>2. /\ key[v] = k /\ ~UsesId(v) /\ k[1] \notin closed
              /\ \/ step[v] = "register" /\ answer[v] = "ok"
                 \/ step[v] = "detach"
                 \/ HasCreateInFlight(v)
                 \/ GaveUp(v)
          BY <4>1 DEF IInv, Flow, PendingOK
        <4>3. HasCreateInFlight(v) => HasCreateInFlight(v)'
          <5>1. \A n \in InFlight(key[v][1]) : n.op = "create" => n # m
            BY <1>4
          <5>. QED  BY <1>4, <4>1, <5>1 DEF HasCreateInFlight, clientVars
        <4>. QED  BY <1>6, <2>1, <4>1, <4>2, <4>3
      <3>. QED  BY <3>1, <3>2
    <2>7. RegisteredOK'
      <3> SUFFICES ASSUME NEW u \in Task,
                          (step[u] = "register" /\ answer'[u] = "ok") \/ step[u] = "detach",
                          key[u][1] \notin closed
                   PROVE  IF UsesId(u) THEN u \in tokens[key[u]] ELSE pending'[key[u]] = u
        BY <1>1, <1>6 DEF RegisteredOK, clientVars
      <3>1. CASE u = m.task
        BY <1>5, <2>2, <3>1
      <3>2. CASE u # m.task
        <4>1. IF UsesId(u) THEN u \in tokens[key[u]] ELSE pending[key[u]] = u
          BY <2>1, <3>2 DEF IInv, Flow, RegisteredOK
        <4>2. key[u] \in Key /\ u # NoTask
          BY Sequences DEF IInv
        <4>3. pending[key[u]] = u => pending'[key[u]] = u
          BY <1>10, <2>2, <4>2
        <4>. QED  BY <4>1, <4>3
      <3>. QED  BY <3>1, <3>2
    <2>8. RefusedOK'
      BY <1>5, <1>6, <2>1 DEF IInv, Flow, RefusedOK, clientVars
    <2>9. ClosedOK'
      BY <1>7, <1>10 DEF IInv, Flow, ClosedOK
    <2>. QED  BY <1>4, <1>8, <2>3, <2>4, <2>5, <2>6, <2>7, <2>8, <2>9, BrowserTypes DEF IInv, Flow
  <1>11. CASE /\ pending[m.key] # NoTask
              /\ Reply(m.task, "refused")
              /\ UNCHANGED <<pending, deferred>>
    <2>1. /\ answer' \in [Task -> Answer]
          /\ answer'[m.task] = IF answer[m.task] = "awaited" THEN "refused" ELSE answer[m.task]
          /\ \A u \in Task : answer[u] = "ok" => answer'[u] = "ok"
          /\ \A u \in Task \ {m.task} : /\ answer'[u] = answer[u]
                                        /\ AwaitsRegistration(u)' <=> AwaitsRegistration(u)
      BY <1>1, <1>5, <1>11, Replied
    <2>2. BrowserTypeOK'
      BY <1>1, <1>4, <1>11, <2>1 DEF IInv, TypeOK, BrowserTypeOK
    <2>3. WireOK'
      BY <1>1, <1>11, <2>1, OthersWire DEF m
    <2>4. DeferredOK' /\ DeferredOnce'
      BY <1>4, <1>6, <1>11, <2>1, DeferredStays DEF IInv, Flow, DeferredOnce
    <2>5. PendingOK'
      BY <1>1, <1>4, <1>6, <1>11, <2>1, PendingStays
    <2>6. RegisteredOK'
      BY <1>1, <1>6, <1>11, <2>1 DEF IInv, Flow, RegisteredOK, clientVars
    <2>7. RefusedOK'
      BY <1>3, <1>5, <1>6, <1>11, <2>1 DEF IInv, Flow, RefusedOK, clientVars
    <2>8. ClosedOK'
      BY <1>7, <1>11 DEF IInv, Flow, ClosedOK
    <2>. QED  BY <1>4, <1>8, <2>2, <2>3, <2>4, <2>5, <2>6, <2>7, <2>8, BrowserTypes DEF IInv, Flow
  <1>12. CASE /\ pending[m.key] # NoTask
              /\ deferred' = [deferred EXCEPT ![m.key] = Append(@, m.task)]
              /\ UNCHANGED <<pending, answer>>
    <2>1. deferred[m.key] \in Seq(Task) /\ Len(deferred[m.key]) \in Nat
      BY <1>5, Sequences DEF IInv
    <2>2. /\ deferred' \in [Key -> Seq(Task)]
          /\ Len(deferred'[m.key]) = Len(deferred[m.key]) + 1
          /\ \A i \in 1 .. Len(deferred[m.key]) : deferred'[m.key][i] = deferred[m.key][i]
          /\ deferred'[m.key][Len(deferred[m.key]) + 1] = m.task
          /\ \A k \in Key \ {m.key} : deferred'[k] = deferred[k]
      <3>1. deferred \in [Key -> Seq(Task)]
        BY DEF IInv, TypeOK, BrowserTypeOK
      <3>. QED  BY <1>5, <1>12, <2>1, <3>1, AppendProperties
    <2>3. \A i \in 1 .. Len(deferred'[m.key]) : i \in 1 .. Len(deferred[m.key]) \/ i = Len(deferred[m.key]) + 1
      BY <2>1, <2>2
    <2>4. BrowserTypeOK'
      BY <1>1, <1>4, <1>12, <2>2 DEF IInv, TypeOK, BrowserTypeOK
    <2>5. WireOK'
      BY <1>1, <1>12, OthersWire DEF m
    <2>6. \A u \in Task : AwaitsRegistration(u)' <=> AwaitsRegistration(u)
      BY <1>12 DEF AwaitsRegistration, clientVars
    <2>7. DeferredOK'
      <3> SUFFICES ASSUME NEW k \in Key, NEW i \in 1 .. Len(deferred'[k]), NEW u, u = deferred'[k][i]
                   PROVE  /\ key[u] = k /\ ~UsesId(u)' /\ k \in leftBehind
                          /\ AwaitsRegistration(u)' \/ GaveUp(u)'
                          /\ \A n \in InFlight(k[1])' : n.task # u
        BY DEF DeferredOK, clientVars
      <3>1. k[1] \in Conn
        BY Sequences DEF IInv
      <3>2. CASE k = m.key /\ u = m.task
        BY <1>3, <1>4, <1>5, <1>6, <1>12, <2>6, <3>1, <3>2
      <3>3. CASE i \in 1 .. Len(deferred[k]) /\ u = deferred[k][i]
        <4>1. u \in Task
          BY <3>3, Sequences DEF IInv
        <4>. QED  BY <1>4, <1>6, <2>6, <3>1, <3>3, <4>1 DEF IInv, Flow, DeferredOK
      <3>. QED  BY <2>2, <2>3, <3>2, <3>3
    <2>8. DeferredOnce'
      <3>1. \A i \in 1 .. Len(deferred[m.key]) : deferred[m.key][i] # m.task
        BY <1>4, <1>5 DEF IInv, Flow, DeferredOK
      <3> SUFFICES ASSUME NEW k \in Key, NEW i \in 1 .. Len(deferred'[k]), NEW j \in 1 .. Len(deferred'[k]),
                          deferred'[k][i] = deferred'[k][j]
                   PROVE  i = j
        BY DEF DeferredOnce
      <3>2. CASE k = m.key
        <4>1. \A n \in 1 .. Len(deferred[k]) : deferred'[k][n] = deferred[k][n] /\ deferred[k][n] # m.task
          BY <2>2, <3>1, <3>2
        <4>2. \A n, l \in 1 .. Len(deferred[k]) : deferred[k][n] = deferred[k][l] => n = l
          BY DEF IInv, Flow, DeferredOnce
        <4>3. deferred'[k][Len(deferred[k]) + 1] = m.task
          BY <2>2, <3>2
        <4>4. /\ i \in 1 .. Len(deferred[k]) \/ i = Len(deferred[k]) + 1
              /\ j \in 1 .. Len(deferred[k]) \/ j = Len(deferred[k]) + 1
          BY <2>3, <3>2
        <4>. QED  BY <4>1, <4>2, <4>3, <4>4
      <3>3. CASE k # m.key
        BY <2>2, <3>3 DEF IInv, Flow, DeferredOnce
      <3>. QED  BY <3>2, <3>3
    <2>9. PendingOK'
      BY <1>1, <1>4, <1>6, <1>12, PendingStays
    <2>10. RegisteredOK' /\ RefusedOK'
      BY <1>1, <1>6, <1>12 DEF IInv, Flow, RegisteredOK, RefusedOK, clientVars
    <2>11. ClosedOK'
      BY <1>4, <1>5, <1>7, <2>2 DEF IInv, Flow, ClosedOK
    <2>. QED  BY <1>4, <1>8, <2>4, <2>5, <2>7, <2>8, <2>9, <2>10, <2>11, BrowserTypes DEF IInv, Flow
  <1>. QED  BY <1>2, <1>10, <1>11, <1>12

\* The oldest registration of a queue is answered, and the others move up.
LEMMA DeferredShifts ==
  ASSUME IInv, NEW k \in Key, deferred[k] # <<>>, NEW v, v = Head(deferred[k]),
         deferred' = [deferred EXCEPT ![k] = Tail(@)],
         NEW a \in {"ok", "refused"}, Reply(v, a), UNCHANGED clientVars,
         UNCHANGED <<version, wire, tokens, contexts, closed>>
  PROVE  /\ deferred' \in [Key -> Seq(Task)]
         /\ v \in Task /\ key[v] = k /\ ~UsesId(v) /\ k \in leftBehind /\ k[1] \notin closed
         /\ AwaitsRegistration(v) \/ GaveUp(v)
         /\ \A d \in Conn : \A n \in InFlight(d) : n.task # v
         /\ DeferredOK' /\ DeferredOnce' /\ ClosedOK'
  <1>1. deferred[k] \in Seq(Task) /\ Len(deferred[k]) \in Nat
    BY Sequences DEF IInv
  <1>2. v = deferred[k][1] /\ 1 \in 1 .. Len(deferred[k])
    BY <1>1, EmptySeq
  <1>3. /\ deferred' \in [Key -> Seq(Task)]
        /\ Len(deferred'[k]) = Len(deferred[k]) - 1
        /\ \A i \in 1 .. Len(deferred'[k]) : /\ i + 1 \in 1 .. Len(deferred[k])
                                             /\ deferred'[k][i] = deferred[k][i+1]
        /\ \A j \in Key \ {k} : deferred'[j] = deferred[j]
    <2>1. deferred \in [Key -> Seq(Task)]
      BY DEF IInv, TypeOK, BrowserTypeOK
    <2>2. /\ Tail(deferred[k]) \in Seq(Task)
          /\ Len(Tail(deferred[k])) = Len(deferred[k]) - 1
          /\ \A i \in 1 .. Len(deferred[k]) - 1 : Tail(deferred[k])[i] = deferred[k][i+1]
      BY <1>1, HeadTailProperties
    <2>. QED  BY <1>1, <2>1, <2>2
  <1>4. /\ v \in Task /\ key[v] = k /\ ~UsesId(v) /\ k \in leftBehind
        /\ AwaitsRegistration(v) \/ GaveUp(v)
        /\ \A n \in InFlight(k[1]) : n.task # v
    <2>1. v \in Task
      BY <1>2, Sequences DEF IInv
    <2>. QED  BY <1>2, <2>1 DEF IInv, Flow, DeferredOK
  <1>5. k[1] \notin closed
    BY DEF IInv, Flow, ClosedOK
  <1>6. \A d \in Conn : \A n \in InFlight(d) : n.task # v
    BY <1>4 DEF IInv, Flow, WireOK, CommandOK
  <1>7. \A d \in Conn : InFlight(d)' = InFlight(d)
    BY DEF InFlight
  <1>8. DeferredOK'
    <2> SUFFICES ASSUME NEW j \in Key, NEW i \in 1 .. Len(deferred'[j]), NEW u, u = deferred'[j][i]
                 PROVE  /\ key[u] = j /\ ~UsesId(u)' /\ j \in leftBehind
                        /\ AwaitsRegistration(u)' \/ GaveUp(u)'
                        /\ \A n \in InFlight(j[1])' : n.task # u
      BY DEF DeferredOK, clientVars
    <2>1. PICK l \in 1 .. Len(deferred[j]) : u = deferred[j][l] /\ (j = k => l # 1)
      <3>1. CASE j = k
        <4>1. i + 1 # 1
          BY <1>1, <1>3, <3>1
        <4>. QED  BY <1>3, <3>1, <4>1
      <3>. QED  BY <1>3, <3>1
    <2>2. /\ key[u] = j /\ ~UsesId(u) /\ j \in leftBehind
          /\ AwaitsRegistration(u) \/ GaveUp(u)
          /\ \A n \in InFlight(j[1]) : n.task # u
      BY <2>1 DEF IInv, Flow, DeferredOK
    <2>3. u # v /\ u \in Task /\ j[1] \in Conn
      BY <1>2, <1>4, <2>1, <2>2, Sequences DEF IInv, Flow, DeferredOnce
    <2>. QED  BY <1>4, <1>7, <2>2, <2>3, Replied
  <1>9. DeferredOnce'
    <2> SUFFICES ASSUME NEW j \in Key, NEW i \in 1 .. Len(deferred'[j]), NEW l \in 1 .. Len(deferred'[j]),
                        deferred'[j][i] = deferred'[j][l]
                 PROVE  i = l
      BY DEF DeferredOnce
    <2>1. CASE j = k
      <3>1. i + 1 = l + 1
        BY <1>3, <2>1 DEF IInv, Flow, DeferredOnce
      <3>. QED  BY <1>1, <1>3, <2>1, <3>1
    <2>2. CASE j # k
      BY <1>3, <2>2 DEF IInv, Flow, DeferredOnce
    <2>. QED  BY <2>1, <2>2
  <1>10. ClosedOK'
    BY <1>3, <1>5 DEF IInv, Flow, ClosedOK
  <1>. QED  BY <1>3, <1>4, <1>5, <1>6, <1>8, <1>9, <1>10

\* The slot freed: its new owner is the oldest in the queue, and still waits or
\* was left behind.
LEMMA UndeferIInv ==
  ASSUME IInv, NEW k \in Key, Undefer(k), UNCHANGED clientVars
  PROVE  IInv'
  <1> USE NoTaskAssumption
  <1> DEFINE v == Head(deferred[k])
  <1>1. /\ deferred[k] # <<>> /\ pending[k] = NoTask
        /\ pending' = [pending EXCEPT ![k] = v]
        /\ Reply(v, "ok")
        /\ deferred' = [deferred EXCEPT ![k] = Tail(@)]
        /\ UNCHANGED <<version, wire, tokens, contexts, closed>>
    BY DEF Undefer
  <1>2. /\ deferred' \in [Key -> Seq(Task)]
        /\ v \in Task /\ key[v] = k /\ ~UsesId(v) /\ k \in leftBehind /\ k[1] \notin closed
        /\ AwaitsRegistration(v) \/ GaveUp(v)
        /\ \A d \in Conn : \A n \in InFlight(d) : n.task # v
        /\ DeferredOK' /\ DeferredOnce' /\ ClosedOK'
    BY <1>1, DeferredShifts
  <1> HIDE DEF v
  <1>3. /\ answer' \in [Task -> Answer]
        /\ answer'[v] = IF answer[v] = "awaited" THEN "ok" ELSE answer[v]
        /\ \A u \in Task : /\ UsesId(u)' <=> UsesId(u)
                           /\ GaveUp(u)' <=> GaveUp(u)
                           /\ answer[u] = "ok" => answer'[u] = "ok"
        /\ \A u \in Task \ {v} : /\ answer'[u] = answer[u]
                                 /\ AwaitsRegistration(u)' <=> AwaitsRegistration(u)
    BY <1>1, <1>2, Replied
  <1>4. /\ pending'[k] = v
        /\ \A j \in Key \ {k} : pending'[j] = pending[j]
        /\ pending' \in [Key -> Task \cup {NoTask}]
        /\ pending \in [Key -> Task \cup {NoTask}]
    BY <1>1, <1>2 DEF IInv, TypeOK, BrowserTypeOK
  <1>5. BrowserTypeOK'
    BY <1>1, <1>2, <1>3, <1>4 DEF IInv, TypeOK, BrowserTypeOK
  <1>6. WireOK'
    <2> SUFFICES ASSUME NEW d \in Conn, NEW n \in InFlight(d)
                 PROVE  CommandOK(d, n)'
      BY <1>1 DEF WireOK, InFlight
    <2>1. n.task \in Task \ {v} /\ n.key \in Key /\ n.task # NoTask
      BY <1>2, OnWire DEF IInv
    <2>2. CommandOK(d, n)
      BY DEF IInv, Flow, WireOK
    <2>3. pending[n.key] = n.task => pending'[n.key] = n.task
      BY <1>1, <1>4, <2>1
    <2>. QED  BY <1>1, <1>3, <2>1, <2>2, <2>3 DEF CommandOK, clientVars
  <1>7. OneEach' /\ NotOvertaken'
    BY <1>1 DEF IInv, Flow, OneEach, NotOvertaken, clientVars
  <1>8. PendingOK'
    <2> SUFFICES ASSUME NEW j \in Key, pending'[j] # NoTask, NEW u, u = pending'[j]
                 PROVE  /\ key[u] = j /\ ~UsesId(u)' /\ j[1] \notin closed
                        /\ \/ step[u] = "register" /\ answer'[u] = "ok"
                           \/ step[u] = "detach"
                           \/ HasCreateInFlight(u)'
                           \/ GaveUp(u)'
      BY <1>1 DEF PendingOK, clientVars
    <2>1. CASE j = k
      BY <1>2, <1>3, <1>4, <2>1 DEF AwaitsRegistration
    <2>2. CASE j # k
      <3>1. u = pending[j] /\ u \in Task
        BY <1>4, <2>2
      <3>2. /\ key[u] = j /\ ~UsesId(u) /\ j[1] \notin closed
            /\ \/ step[u] = "register" /\ answer[u] = "ok"
               \/ step[u] = "detach"
               \/ HasCreateInFlight(u)
               \/ GaveUp(u)
        BY <3>1 DEF IInv, Flow, PendingOK
      <3>3. HasCreateInFlight(u)' <=> HasCreateInFlight(u)
        BY <1>1 DEF HasCreateInFlight, InFlight, clientVars
      <3>. QED  BY <1>3, <3>1, <3>2, <3>3
    <2>. QED  BY <2>1, <2>2
  <1>9. RegisteredOK'
    <2> SUFFICES ASSUME NEW u \in Task,
                        (step[u] = "register" /\ answer'[u] = "ok") \/ step[u] = "detach",
                        key[u][1] \notin closed
                 PROVE  IF UsesId(u) THEN u \in tokens[key[u]] ELSE pending'[key[u]] = u
      BY <1>1, <1>3 DEF RegisteredOK, clientVars
    <2>1. CASE u = v
      BY <1>2, <1>4, <2>1
    <2>2. CASE u # v
      <3>1. IF UsesId(u) THEN u \in tokens[key[u]] ELSE pending[key[u]] = u
        BY <1>3, <2>2 DEF IInv, Flow, RegisteredOK
      <3>2. key[u] \in Key /\ u # NoTask
        BY Sequences DEF IInv
      <3>. QED  BY <1>1, <1>4, <3>1, <3>2
    <2>. QED  BY <2>1, <2>2
  <1>10. RefusedOK'
    BY <1>2, <1>3 DEF IInv, Flow, RefusedOK, clientVars
  <1>11. OwnCredentials'
    BY <1>1 DEF IInv, Flow, OwnCredentials
  <1>. QED  BY <1>2, <1>5, <1>6, <1>7, <1>8, <1>9, <1>10, <1>11, BrowserTypes DEF IInv, Flow

\* A queue that refuses its oldest was one behind a registration left behind.
LEMMA DeferralExpiresIInv ==
  ASSUME IInv, NEW k \in Key, DeferralExpires(k), UNCHANGED clientVars
  PROVE  IInv'
  <1> DEFINE v == Head(deferred[k])
  <1>1. /\ deferred[k] # <<>>
        /\ Reply(v, "refused")
        /\ deferred' = [deferred EXCEPT ![k] = Tail(@)]
        /\ UNCHANGED <<version, wire, pending, tokens, contexts, closed>>
    BY DEF DeferralExpires
  <1>2. /\ deferred' \in [Key -> Seq(Task)]
        /\ v \in Task /\ key[v] = k /\ ~UsesId(v) /\ k \in leftBehind
        /\ \A d \in Conn : \A n \in InFlight(d) : n.task # v
        /\ DeferredOK' /\ DeferredOnce' /\ ClosedOK'
    BY <1>1, DeferredShifts
  <1> HIDE DEF v
  <1>3. /\ answer' \in [Task -> Answer]
        /\ answer'[v] = IF answer[v] = "awaited" THEN "refused" ELSE answer[v]
        /\ \A u \in Task : /\ UsesId(u)' <=> UsesId(u)
                           /\ GaveUp(u)' <=> GaveUp(u)
                           /\ answer[u] = "ok" => answer'[u] = "ok"
        /\ \A u \in Task \ {v} : /\ answer'[u] = answer[u]
                                 /\ AwaitsRegistration(u)' <=> AwaitsRegistration(u)
    BY <1>1, <1>2, Replied
  <1>4. BrowserTypeOK'
    BY <1>1, <1>2, <1>3 DEF IInv, TypeOK, BrowserTypeOK
  <1>5. WireOK'
    <2> SUFFICES ASSUME NEW d \in Conn, NEW n \in InFlight(d)
                 PROVE  CommandOK(d, n)'
      BY <1>1 DEF WireOK, InFlight
    <2>1. n.task \in Task \ {v}
      BY <1>2, OnWire DEF IInv
    <2>2. CommandOK(d, n)
      BY DEF IInv, Flow, WireOK
    <2>. QED  BY <1>1, <1>3, <2>1, <2>2 DEF CommandOK, clientVars
  <1>6. OneEach' /\ NotOvertaken'
    BY <1>1 DEF IInv, Flow, OneEach, NotOvertaken, clientVars
  <1>7. PendingOK'
    <2>1. \A d \in Conn : InFlight(d)' = InFlight(d)
      BY <1>1 DEF InFlight
    <2>2. PICK m : m = [op |-> "register"]
      OBVIOUS
    <2>. QED  BY <1>1, <1>3, <2>1, <2>2, PendingStays
  <1>8. RegisteredOK'
    BY <1>1, <1>3 DEF IInv, Flow, RegisteredOK, clientVars
  <1>9. RefusedOK'
    BY <1>2, <1>3 DEF IInv, Flow, RefusedOK, clientVars
  <1>10. OwnCredentials'
    BY <1>1 DEF IInv, Flow, OwnCredentials
  <1>. QED  BY <1>2, <1>4, <1>5, <1>6, <1>7, <1>8, <1>9, <1>10, BrowserTypes DEF IInv, Flow

\* A create uses up the registration of its own caller and of nobody else.
LEMMA CreateIInv ==
  ASSUME IInv, NEW c \in Conn, Create(c), UNCHANGED clientVars
  PROVE  IInv'
  <1> USE NoTaskAssumption
  <1> DEFINE m == Head(wire[c])
  <1>1. /\ Receive(c, "create")
        /\ pending' = IF m.token THEN pending ELSE [pending EXCEPT ![m.key] = NoTask]
        /\ tokens' = IF m.token THEN [tokens EXCEPT ![m.key] = @ \ {m.task}] ELSE tokens
        /\ UNCHANGED <<version, deferred, closed>>
    BY DEF Create
  <1>2. PICK a \in {"ok", "error"} : Reply(m.task, a)
    BY DEF Create
  <1>3. contexts' \in {contexts, contexts \cup {[task |-> m.task, creds |-> Matching(m)]}}
    BY DEF Create
  <1>4. /\ OneEach' /\ NotOvertaken'
        /\ m \in Command /\ m.op = "create" /\ m \in InFlight(c) /\ CommandOK(c, m)
        /\ \A d \in Conn : \A n \in InFlight(d)' : n \in InFlight(d) /\ n.task # m.task
        /\ \A d \in Conn : \A n \in InFlight(d) : n # m => n \in InFlight(d)'
        /\ \A d \in closed : wire'[d] = wire[d]
        /\ wire' \in [Conn -> Seq(Command)]
    BY <1>1, ReceivedOrder, Received DEF IInv, Flow
  <1> HIDE DEF m
  <1>5. /\ m.task \in Task /\ m.key = key[m.task] /\ m.key \in Key /\ m.token \in BOOLEAN
        /\ m.token <=> UsesId(m.task)
        /\ step[m.task] \in {"create", "failed"}
        /\ IF m.token THEN m.task \in tokens[m.key] ELSE pending[m.key] = m.task
    BY <1>4, OnWire DEF IInv, CommandOK
  <1>6. /\ answer' \in [Task -> Answer]
        /\ answer'[m.task] = IF answer[m.task] = "awaited" THEN a ELSE answer[m.task]
        /\ \A u \in Task : /\ UsesId(u)' <=> UsesId(u)
                           /\ GaveUp(u)' <=> GaveUp(u)
                           /\ answer[u] = "ok" => answer'[u] = "ok"
        /\ \A u \in Task \ {m.task} : /\ answer'[u] = answer[u]
                                      /\ AwaitsRegistration(u)' <=> AwaitsRegistration(u)
    BY <1>1, <1>2, <1>5, Replied
  <1>7. Matching(m) = m.task
    BY <1>5 DEF Matching
  <1>8. /\ pending \in [Key -> Task \cup {NoTask}] /\ tokens \in [Key -> SUBSET Task]
        /\ pending' \in [Key -> Task \cup {NoTask}] /\ tokens' \in [Key -> SUBSET Task]
        /\ \A k \in Key : tokens[k] \ {m.task} \subseteq tokens'[k]
        /\ \A k \in Key : pending'[k] = pending[k] \/ (pending'[k] = NoTask /\ pending[k] = m.task)
    BY <1>1, <1>5 DEF IInv, TypeOK, BrowserTypeOK
  <1>9. \A k \in Key : pending'[k] # m.task
    <2> SUFFICES ASSUME NEW k \in Key, pending'[k] = m.task
                 PROVE  FALSE
      OBVIOUS
    <2>1. pending[k] = m.task /\ m.task # NoTask
      BY <1>5, <1>8
    <2>2. key[m.task] = k /\ ~UsesId(m.task)
      BY <2>1 DEF IInv, Flow, PendingOK
    <2>. QED  BY <1>1, <1>5, <1>8, <2>1, <2>2
  <1>10. BrowserTypeOK'
    <2>1. contexts' \in SUBSET Context
      <3>1. [task |-> m.task, creds |-> m.task] \in Context
        BY <1>5 DEF Context
      <3>. QED  BY <1>3, <1>7, <3>1 DEF IInv, TypeOK, BrowserTypeOK
    <2>. QED  BY <1>1, <1>4, <1>6, <1>8, <2>1 DEF IInv, TypeOK, BrowserTypeOK
  <1>11. WireOK'
    BY <1>1, <1>6, <1>8, OthersWire DEF m
  <1>12. DeferredOK' /\ DeferredOnce'
    BY <1>1, <1>4, <1>6, DeferredStays DEF IInv, Flow, DeferredOnce
  <1>13. PendingOK'
    BY <1>1, <1>4, <1>6, <1>8, <1>9, PendingStays
  <1>14. RegisteredOK'
    <2> SUFFICES ASSUME NEW u \in Task,
                        (step[u] = "register" /\ answer'[u] = "ok") \/ step[u] = "detach",
                        key[u][1] \notin closed
                 PROVE  IF UsesId(u) THEN u \in tokens'[key[u]] ELSE pending'[key[u]] = u
      BY <1>1, <1>6 DEF RegisteredOK, clientVars
    <2>1. u # m.task
      BY <1>5
    <2>2. IF UsesId(u) THEN u \in tokens[key[u]] ELSE pending[key[u]] = u
      BY <1>6, <2>1 DEF IInv, Flow, RegisteredOK
    <2>3. key[u] \in Key
      BY Sequences DEF IInv
    <2>. QED  BY <1>8, <2>1, <2>2, <2>3
  <1>15. RefusedOK'
    BY <1>6 DEF IInv, Flow, RefusedOK, clientVars
  <1>16. ClosedOK'
    BY <1>1, <1>4 DEF IInv, Flow, ClosedOK
  <1>17. OwnCredentials'
    BY <1>3, <1>7 DEF IInv, Flow, OwnCredentials
  <1>. QED  BY <1>4, <1>10, <1>11, <1>12, <1>13, <1>14, <1>15, <1>16, <1>17, BrowserTypes DEF IInv, Flow

\* A connection that closes takes its commands, queues and slots with it, and
\* nothing of another connection's.
LEMMA CloseIInv ==
  ASSUME IInv, NEW c \in Conn, Close(c), UNCHANGED clientVars
  PROVE  IInv'
  <1> USE NoTaskAssumption
  <1>1. /\ c \notin closed /\ closed' = closed \cup {c}
        /\ wire' = [wire EXCEPT ![c] = <<>>]
        /\ pending' = [k \in Key |-> IF k[1] = c THEN NoTask ELSE pending[k]]
        /\ tokens' = [k \in Key |-> IF k[1] = c THEN {} ELSE tokens[k]]
        /\ deferred' = [k \in Key |-> IF k[1] = c THEN <<>> ELSE deferred[k]]
        /\ UNCHANGED <<version, contexts>>
    BY DEF Close
  <1>2. answer' = [u \in Task |->
                     IF /\ answer[u] = "awaited"
                        /\ \/ u \in {wire[c][i].task : i \in 1 .. Len(wire[c])}
                           \/ u \in UNION {{deferred[k][i] : i \in 1 .. Len(deferred[k])} :
                                             k \in {j \in Key : j[1] = c}}
                     THEN "error" ELSE answer[u]]
    BY DEF Close
  <1>3. /\ wire \in [Conn -> Seq(Command)] /\ deferred \in [Key -> Seq(Task)]
        /\ pending \in [Key -> Task \cup {NoTask}] /\ tokens \in [Key -> SUBSET Task]
        /\ answer \in [Task -> Answer]
    BY DEF IInv, TypeOK, BrowserTypeOK
  <1>4. /\ wire'[c] = <<>> /\ InFlight(c)' = {}
        /\ \A d \in Conn \ {c} : wire'[d] = wire[d] /\ InFlight(d)' = InFlight(d)
        /\ wire' \in [Conn -> Seq(Command)]
    BY <1>1, <1>3, EmptySeq DEF InFlight
  <1>5. /\ answer' \in [Task -> Answer]
        /\ \A u \in Task : /\ UsesId(u)' <=> UsesId(u)
                           /\ GaveUp(u)' <=> GaveUp(u)
                           /\ answer'[u] \in {answer[u], "error"}
                           /\ answer[u] # "awaited" => answer'[u] = answer[u]
    BY <1>1, <1>2, <1>3 DEF Answer, UsesId, GaveUp, clientVars
  <1>6. \A u \in Task : key[u][1] # c => answer'[u] = answer[u]
    <2> SUFFICES ASSUME NEW u \in Task, key[u][1] # c
                 PROVE  answer'[u] = answer[u]
      OBVIOUS
    <2>1. u \notin {wire[c][i].task : i \in 1 .. Len(wire[c])}
      BY DEF IInv, Flow, WireOK, CommandOK, InFlight
    <2>2. \A k \in Key : \A i \in 1 .. Len(deferred[k]) : deferred[k][i] = u => k[1] # c
      BY DEF IInv, Flow, DeferredOK
    <2>3. u \notin UNION {{deferred[k][i] : i \in 1 .. Len(deferred[k])} :
                            k \in {j \in Key : j[1] = c}}
      BY <2>2
    <2>. QED  BY <1>2, <2>1, <2>3
  <1>7. \A u \in Task : key[u][1] # c => (AwaitsRegistration(u)' <=> AwaitsRegistration(u))
    BY <1>6 DEF AwaitsRegistration, clientVars
  <1>8. \A k \in Key : k[1] # c => /\ pending'[k] = pending[k] /\ tokens'[k] = tokens[k]
                                   /\ deferred'[k] = deferred[k]
    BY <1>1
  <1>9. \A k \in Key : k[1] = c => pending'[k] = NoTask /\ tokens'[k] = {} /\ deferred'[k] = <<>>
    BY <1>1
  <1>10. BrowserTypeOK'
    <2>1. /\ pending' \in [Key -> Task \cup {NoTask}] /\ tokens' \in [Key -> SUBSET Task]
          /\ deferred' \in [Key -> Seq(Task)]
      BY <1>1, <1>3, EmptySeq
    <2>. QED  BY <1>1, <1>4, <1>5, <2>1 DEF IInv, TypeOK, BrowserTypeOK
  <1>11. WireOK'
    <2> SUFFICES ASSUME NEW d \in Conn, d # c, NEW n \in InFlight(d)
                 PROVE  CommandOK(d, n)'
      BY <1>4 DEF WireOK
    <2>1. n.task \in Task /\ n.key \in Key
      BY OnWire DEF IInv
    <2>2. CommandOK(d, n)
      BY DEF IInv, Flow, WireOK
    <2>3. n.key[1] # c /\ key[n.task][1] # c
      BY <2>2 DEF CommandOK
    <2>. QED  BY <1>5, <1>6, <1>7, <1>8, <2>1, <2>2, <2>3 DEF CommandOK, clientVars
  <1>12. OneEach' /\ NotOvertaken'
    <2>1. \A d \in Conn : 1 .. Len(wire'[d]) # {} => wire'[d] = wire[d]
      BY <1>4, EmptySeq
    <2>. QED  BY <2>1 DEF IInv, Flow, OneEach, NotOvertaken, clientVars
  <1>13. DeferredOK' /\ DeferredOnce'
    <2>1. \A k \in Key : 1 .. Len(deferred'[k]) # {} => k[1] # c /\ deferred'[k] = deferred[k]
      BY <1>8, <1>9, EmptySeq
    <2>2. DeferredOnce'
      BY <2>1 DEF IInv, Flow, DeferredOnce
    <2> SUFFICES ASSUME NEW k \in Key, k[1] # c, NEW i \in 1 .. Len(deferred[k]),
                        NEW u, u = deferred[k][i]
                 PROVE  /\ key[u] = k /\ ~UsesId(u)' /\ k \in leftBehind
                        /\ AwaitsRegistration(u)' \/ GaveUp(u)'
                        /\ \A n \in InFlight(k[1])' : n.task # u
      BY <2>1, <2>2 DEF DeferredOK, clientVars
    <2>3. u \in Task /\ k[1] \in Conn
      BY Sequences DEF IInv
    <2>. QED  BY <1>4, <1>5, <1>7, <2>3 DEF IInv, Flow, DeferredOK
  <1>14. PendingOK'
    <2> SUFFICES ASSUME NEW k \in Key, pending'[k] # NoTask, NEW v, v = pending'[k]
                 PROVE  /\ key[v] = k /\ ~UsesId(v)' /\ k[1] \notin closed'
                        /\ \/ step[v] = "register" /\ answer'[v] = "ok"
                           \/ step[v] = "detach"
                           \/ HasCreateInFlight(v)'
                           \/ GaveUp(v)'
      BY DEF PendingOK, clientVars
    <2>1. k[1] # c /\ v = pending[k] /\ v \in Task
      BY <1>3, <1>8, <1>9
    <2>2. /\ key[v] = k /\ ~UsesId(v) /\ k[1] \notin closed
          /\ \/ step[v] = "register" /\ answer[v] = "ok"
             \/ step[v] = "detach"
             \/ HasCreateInFlight(v)
             \/ GaveUp(v)
      BY <2>1 DEF IInv, Flow, PendingOK
    <2>3. k[1] \in Conn
      BY Sequences DEF IInv
    <2>4. HasCreateInFlight(v)' <=> HasCreateInFlight(v)
      BY <1>4, <2>1, <2>2, <2>3 DEF HasCreateInFlight, clientVars
    <2>. QED  BY <1>1, <1>5, <2>1, <2>2, <2>4
  <1>15. RegisteredOK'
    <2> SUFFICES ASSUME NEW u \in Task,
                        (step[u] = "register" /\ answer'[u] = "ok") \/ step[u] = "detach",
                        key[u][1] \notin closed'
                 PROVE  IF UsesId(u) THEN u \in tokens'[key[u]] ELSE pending'[key[u]] = u
      BY <1>5 DEF RegisteredOK, clientVars
    <2>1. key[u][1] # c /\ key[u][1] \notin closed /\ key[u] \in Key
      BY <1>1, Sequences DEF IInv
    <2>. QED  BY <1>6, <1>8, <2>1 DEF IInv, Flow, RegisteredOK
  <1>16. RefusedOK'
    BY <1>5 DEF IInv, Flow, RefusedOK, clientVars
  <1>17. ClosedOK'
    <2>1. closed \subseteq Conn
      BY DEF IInv, TypeOK, BrowserTypeOK
    <2>. QED  BY <1>1, <1>4, <1>8, <1>9, <2>1 DEF IInv, Flow, ClosedOK
  <1>18. OwnCredentials'
    BY <1>1 DEF IInv, Flow, OwnCredentials
  <1>. QED  BY <1>10, <1>11, <1>12, <1>13, <1>14, <1>15, <1>16, <1>17, <1>18, BrowserTypes DEF IInv, Flow

-----------------------------------------------------------------------------
\* Every step of a caller or the browser, and stuttering, keeps the invariant.
LEMMA NextIInv == IInv /\ [Next]_vars => IInv'
  <1> SUFFICES ASSUME IInv, [Next]_vars PROVE IInv'
    OBVIOUS
  <1>1. ASSUME NEW t \in Task, TaskStep(t)
        PROVE  IInv'
    BY <1>1, AskIInv, GiveUpWaitingIInv, EnterIInv, AttachedIInv, RegisteredIInv, RefusedIInv,
       DetachedIInv, CreatedIInv, FailIInv, GiveUpInsideIInv DEF TaskStep
  <1>2. CASE BrowserStep
    <2>1. UNCHANGED clientVars
      BY <1>2 DEF BrowserStep
    <2>2. ASSUME NEW c \in Conn, Process(c) \/ Close(c)
          PROVE  IInv'
      BY <2>1, <2>2, RegisterTokenedIInv, RegisterIInv, CreateIInv, CloseIInv DEF Process
    <2>3. ASSUME NEW k \in Key, Settle(k)
          PROVE  IInv'
      BY <2>1, <2>3, UndeferIInv, DeferralExpiresIInv DEF Settle
    <2>. QED  BY <1>2, <2>2, <2>3 DEF BrowserStep
  <1>3. CASE UNCHANGED vars
    <2>1. UNCHANGED browserVars /\ UNCHANGED clientVars
      BY <1>3 DEF vars
    <2>2. TypeOK' /\ Alone'
      BY <2>1, BrowserTypes DEF IInv, TypeOK, BrowserTypeOK, browserVars
    <2>3. Flow'
      BY <2>1 DEF IInv, Flow, WireOK, CommandOK, InFlight, AwaitsRegistration, GaveUp, UsesId,
                  OneEach, NotOvertaken, DeferredOK, DeferredOnce, PendingOK, HasCreateInFlight,
                  RegisteredOK, RefusedOK, ClosedOK, OwnCredentials, browserVars, clientVars
    <2>. QED  BY <2>2, <2>3 DEF IInv
  <1>. QED  BY <1>1, <1>2, <1>3 DEF Next

\* The inductive invariant holds in every behaviour of the handshake.
THEOREM Invariant == Spec => []IInv
  BY InitIInv, NextIInv, PTL DEF Spec

\* Types, and every task is in the lock's books where its step says, whichever
\* adapters run together and wherever they fail.
THEOREM TypeCorrect == Spec => []TypeOK
  <1>1. IInv => TypeOK
    BY DEF IInv
  <1>. QED  BY <1>1, Invariant, PTL

\* new_proxy_context never returns a context that authenticates with another
\* call's credentials, or with none, in either browser version.
THEOREM CredentialsCorrect == Spec => []OwnCredentials
  <1>1. IInv => OwnCredentials
    BY DEF IInv, Flow
  <1>. QED  BY <1>1, Invariant, PTL

\* No registration outlives its call unseen: the slot of a key is held for a
\* task at work on that key or for a create on the way, or the key is known to
\* have been left behind.
THEOREM PendingAccounted == Spec => []NothingLeftPending
  <1>1. IInv => NothingLeftPending
    <2> SUFFICES ASSUME IInv, NEW k \in Key, pending[k] # NoTask, k \notin leftBehind,
                        NEW t, t = pending[k]
                 PROVE  key[t] = k /\ (step[t] \in Running \/ CreateOnWire(t, k))
      BY DEF NothingLeftPending
    <2>1. k[1] \in Conn /\ wire[k[1]] \in Seq(Command)
      BY Sequences DEF IInv
    <2>2. DOMAIN wire[k[1]] = 1 .. Len(wire[k[1]])
      BY <2>1, LenProperties
    <2>3. key[t] = k /\ ~GaveUp(t)
      BY DEF IInv, Flow, PendingOK, GaveUp
    <2>4. HasCreateInFlight(t) => CreateOnWire(t, k)
      BY <2>2, <2>3 DEF HasCreateInFlight, InFlight, CreateOnWire
    <2>. QED  BY <2>3, <2>4 DEF IInv, Flow, PendingOK, Running
  <1>. QED  BY <1>1, Invariant, PTL

\* With every call under the lock, the browser refuses or defers a
\* registration only on a key where an earlier one was left behind, and never
\* one with a credentialsId.
THEOREM Undisturbed == Spec => []DisturbedOnlyByLeftover
  <1>1. IInv => DisturbedOnlyByLeftover
    <2> SUFFICES ASSUME IInv PROVE DisturbedOnlyByLeftover
      OBVIOUS
    <2>1. ASSUME NEW k \in Key, deferred[k] # <<>>
          PROVE  k \in leftBehind
      <3>1. deferred[k] \in Seq(Task) /\ Len(deferred[k]) \in Nat
        BY Sequences DEF IInv
      <3>2. 1 \in 1 .. Len(deferred[k])
        BY <2>1, <3>1, EmptySeq
      <3>. QED  BY <3>2 DEF IInv, Flow, DeferredOK
    <2>. QED  BY <2>1 DEF DisturbedOnlyByLeftover, IInv, Flow, RefusedOK
  <1>. QED  BY <1>1, Invariant, PTL
===============================================================================
