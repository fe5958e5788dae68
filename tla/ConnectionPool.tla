---------------------------- MODULE ConnectionPool ----------------------------
(***************************************************************************)
(* The Rust warm-connection pool, rust/src/perf.rs BrowserPool: one slot   *)
(* per endpoint, each an async mutex around the cached connection, in a    *)
(* map whose own lock is held only to look a slot up or to empty the map.  *)
(*                                                                         *)
(* A task runs one operation at a time: acquire, evict or drain.  Slots    *)
(* and connections are identities, free for reuse once nobody refers to    *)
(* them: that is when the code drops them.                                 *)
(***************************************************************************)
EXTENDS Naturals, FiniteSets

CONSTANTS Task, Slot, Conn, NoSlot, NoConn,
          N,         \* the number of endpoints, 0 .. N-1 in the order given
          CursorMod, \* the cursor wraps at this value (2^64 in the code)
          Hung       \* endpoints whose connect may never return

ASSUME NoneAssumption == NoSlot \notin Slot /\ NoConn \notin Conn
ASSUME EndpointAssumption == N \in Nat \ {0} /\ CursorMod \in Nat \ {0}

Endpoint == 0 .. N-1

VARIABLES cursor,   \* next: the round-robin counter
          slots,    \* [Endpoint -> Slot or NoSlot]: the map
          cached,   \* [Slot -> Conn or NoConn]: what each slot's mutex guards
          locked,   \* [Slot -> BOOLEAN]: that mutex
          arc,      \* [Task -> Slot or NoSlot]: the slot a task has cloned
          conn,     \* [Task -> Conn or NoConn]: the connection it was given
          todo,     \* [Task -> SUBSET Slot]: the slots its drain still has to try
          at,       \* [Task -> Endpoint]: the endpoint of its operation
          pc,
          retired   \* history: connections evicted, or detached by a drain

vars == <<cursor, slots, cached, locked, arc, conn, todo, at, pc, retired>>

PC == {"idle", "waiting", "warm", "connecting", "using", "evicting", "draining"}

Referenced(s) == \/ \E e \in Endpoint : slots[e] = s
                 \/ \E t \in Task : arc[t] = s \/ s \in todo[t]

\* A task refers to a slot exactly while it waits for it or has it locked; a
\* slot nobody refers to is gone, with its lock and its connection.
TypeOK == /\ cursor \in 0 .. CursorMod-1
          /\ slots \in [Endpoint -> Slot \cup {NoSlot}]
          /\ cached \in [Slot -> Conn \cup {NoConn}]
          /\ locked \in [Slot -> BOOLEAN]
          /\ arc \in [Task -> Slot \cup {NoSlot}]
          /\ conn \in [Task -> Conn \cup {NoConn}]
          /\ todo \in [Task -> SUBSET Slot]
          /\ at \in [Task -> Endpoint]
          /\ pc \in [Task -> PC]
          /\ retired \in SUBSET Conn
          /\ \A t \in Task :
               arc[t] # NoSlot <=> pc[t] \in {"waiting", "warm", "connecting", "evicting"}
          /\ \A s \in Slot : ~Referenced(s) => ~locked[s] /\ cached[s] = NoConn

Init == /\ cursor = 0
        /\ slots = [e \in Endpoint |-> NoSlot]
        /\ cached = [s \in Slot |-> NoConn]
        /\ locked = [s \in Slot |-> FALSE]
        /\ arc = [t \in Task |-> NoSlot]
        /\ conn = [t \in Task |-> NoConn]
        /\ todo = [t \in Task |-> {}]
        /\ at = [t \in Task |-> 0]
        /\ pc = [t \in Task |-> "idle"]
        /\ retired = {}

-----------------------------------------------------------------------------
InUse(c) == (\E s \in Slot : cached[s] = c) \/ \E t \in Task : conn[t] = c

NewSlot(s) == ~Referenced(s) /\ s = CHOOSE x \in Slot : ~Referenced(x)
NewConn(c) == ~InUse(c) /\ c = CHOOSE x \in Conn : ~InUse(x)

\* The last reference to a slot drops what it caches; an identity that is not
\* in use any more leaves the history.
Cache(new) == cached' = [s \in Slot |-> IF Referenced(s)' THEN new[s] ELSE NoConn]
Retire(S) == retired' = {c \in retired \cup S : InUse(c)'}

Goto(t, p) == pc' = [pc EXCEPT ![t] = p]

\* Mutant: the map is searched without regard to the endpoint.
MutLookupAny(e, s) ==
  \/ (\E d \in Endpoint : slots[d] = s) /\ UNCHANGED slots
  \/ (\A d \in Endpoint : slots[d] = NoSlot) /\ NewSlot(s) /\ slots' = [slots EXCEPT ![e] = s]

\* slot(): under the map lock, clone the endpoint's slot or insert an empty one.
Lookup(e, s) ==
  \/ slots[e] = s /\ UNCHANGED slots
  \/ slots[e] = NoSlot /\ NewSlot(s) /\ slots' = [slots EXCEPT ![e] = s]

\* acquire() up to its first await: next_endpoint() and slot().
Acquire(t) ==
  /\ pc[t] = "idle"
  /\ cursor' = (cursor + 1) % CursorMod
  /\ at' = [at EXCEPT ![t] = cursor % N]
  /\ \E s \in Slot : Lookup(cursor % N, s) /\ arc' = [arc EXCEPT ![t] = s]
  /\ Goto(t, "waiting")
  /\ UNCHANGED <<cached, locked, conn, todo, retired>>

\* What acquire() finds in its slot, under the slot's lock.
Found(s) == IF cached[s] = NoConn THEN "connecting" ELSE "warm"

\* Mutants: a lock over the whole pool; no lock around the connect.
MutPoolWideLock(t) ==
  /\ pc[t] = "waiting"
  /\ \A s \in Slot : ~locked[s]
  /\ locked' = [locked EXCEPT ![arc[t]] = TRUE]
  /\ Goto(t, Found(arc[t]))
  /\ UNCHANGED <<cursor, slots, cached, arc, conn, todo, at, retired>>

MutNoLock(t) ==
  /\ pc[t] = "waiting"
  /\ Goto(t, Found(arc[t]))
  /\ UNCHANGED <<cursor, slots, cached, locked, arc, conn, todo, at, retired>>

\* lock_arc().await resolves; acquire() looks at the slot.
Lock(t) ==
  /\ pc[t] = "waiting"
  /\ ~locked[arc[t]]
  /\ locked' = [locked EXCEPT ![arc[t]] = TRUE]
  /\ Goto(t, Found(arc[t]))
  /\ UNCHANGED <<cursor, slots, cached, arc, conn, todo, at, retired>>

\* The task is done with its slot: its guard, if it has one, and its clone go.
Leave(t, next) ==
  /\ locked' = [locked EXCEPT ![arc[t]] = @ /\ pc[t] \in {"waiting", "evicting"}]
  /\ arc' = [arc EXCEPT ![t] = NoSlot]
  /\ at' = [at EXCEPT ![t] = IF next = "using" THEN @ ELSE 0]
  /\ Goto(t, next)
  /\ UNCHANGED <<cursor, slots, todo>>

\* Warm: hand out a clone of the cached connection.
Reuse(t) ==
  /\ pc[t] = "warm"
  /\ conn' = [conn EXCEPT ![t] = cached[arc[t]]]
  /\ Leave(t, "using")
  /\ Cache(cached)
  /\ Retire({})

\* Cold: the caller's connect returned a connection; cache it and hand it out.
\* A drain may have detached the slot meanwhile.
Connected(t) ==
  /\ pc[t] = "connecting"
  /\ Leave(t, "using")
  /\ \E c \in Conn :
       /\ NewConn(c)
       /\ conn' = [conn EXCEPT ![t] = c]
       /\ Cache([cached EXCEPT ![arc[t]] = c])
       /\ Retire(IF slots[at[t]] = arc[t] THEN {} ELSE {c})

\* connect failed, or the future was dropped during it: the slot stays cold.
ConnectFails(t) ==
  /\ pc[t] = "connecting"
  /\ Leave(t, "idle")
  /\ UNCHANGED <<cached, conn, retired>>

\* Mutant: a dropped future keeps its clone of the slot.
MutCancelKeepsSlot(t) ==
  /\ pc[t] \in {"waiting", "evicting"}
  /\ Goto(t, "idle")
  /\ UNCHANGED <<cursor, slots, cached, locked, arc, conn, todo, at, retired>>

\* The future is dropped while it waits for the slot.
CancelWait(t) ==
  /\ pc[t] \in {"waiting", "evicting"}
  /\ Leave(t, "idle")
  /\ UNCHANGED conn
  /\ Cache(cached)
  /\ Retire({})

\* The caller drops the Arc it was given.
Discard(t) ==
  /\ pc[t] = "using"
  /\ conn' = [conn EXCEPT ![t] = NoConn]
  /\ at' = [at EXCEPT ![t] = 0]
  /\ Goto(t, "idle")
  /\ UNCHANGED <<cursor, slots, cached, locked, arc, todo>>
  /\ Retire({})

-----------------------------------------------------------------------------
\* evict(): clone the endpoint's slot, if it has one, and wait for its lock...
Evict(t, e) ==
  /\ pc[t] = "idle"
  /\ slots[e] # NoSlot
  /\ arc' = [arc EXCEPT ![t] = slots[e]]
  /\ at' = [at EXCEPT ![t] = e]
  /\ Goto(t, "evicting")
  /\ UNCHANGED <<cursor, slots, cached, locked, conn, todo, retired>>

\* ...then take what it caches.  The caller gets it, to close it.
EvictTake(t) ==
  /\ pc[t] = "evicting"
  /\ ~locked[arc[t]]
  /\ Leave(t, "idle")
  /\ UNCHANGED conn
  /\ Cache([cached EXCEPT ![arc[t]] = NoConn])
  /\ Retire({cached[arc[t]]} \ {NoConn})

\* drain(): empty the map first...
Detach(t) ==
  /\ pc[t] = "idle"
  /\ todo' = [todo EXCEPT ![t] = {slots[e] : e \in Endpoint} \ {NoSlot}]
  /\ slots' = [e \in Endpoint |-> NoSlot]
  /\ Goto(t, "draining")
  /\ UNCHANGED <<cursor, cached, locked, arc, conn, at>>
  /\ Retire(Conn)

\* ...then try each detached slot: take what it caches, or skip it if locked.
DrainSlot(t, s) ==
  /\ pc[t] = "draining"
  /\ s \in todo[t]
  /\ todo' = [todo EXCEPT ![t] = @ \ {s}]
  /\ UNCHANGED <<cursor, slots, locked, arc, conn, at, pc>>
  /\ Cache([cached EXCEPT ![s] = IF locked[s] THEN @ ELSE NoConn])
  /\ Retire({})

DrainReturn(t) ==
  /\ pc[t] = "draining"
  /\ todo[t] = {}
  /\ Goto(t, "idle")
  /\ UNCHANGED <<cursor, slots, cached, locked, arc, conn, todo, at, retired>>

Drain(t) == (\E s \in Slot : DrainSlot(t, s)) \/ DrainReturn(t)

Next == \E t \in Task : \/ Acquire(t)
                        \/ Lock(t)
                        \/ Reuse(t)
                        \/ Connected(t)
                        \/ ConnectFails(t)
                        \/ CancelWait(t)
                        \/ Discard(t)
                        \/ \E e \in Endpoint : Evict(t, e)
                        \/ EvictTake(t)
                        \/ Detach(t)
                        \/ Drain(t)

Spec == Init /\ [][Next]_vars

(***************************************************************************)
(* Fairness: the executor polls what is ready, async-lock serves a waiter  *)
(* in the end, a drain has no await to be suspended at, and a connect ends *)
(* unless its endpoint hangs.                                              *)
(***************************************************************************)
Fairness ==
  \A t \in Task :
    /\ SF_vars(Lock(t) \/ EvictTake(t))
    /\ WF_vars(Reuse(t) \/ Drain(t))
    /\ WF_vars(at[t] \notin Hung /\ (Connected(t) \/ ConnectFails(t)))

-----------------------------------------------------------------------------
\* The connections in use at an endpoint, the cached one included.
ConnTo(e) == ({conn[t] : t \in {u \in Task : pc[u] = "using" /\ at[u] = e}}
              \cup {cached[s] : s \in {slots[e]} \ {NoSlot}}) \ {NoConn}

\* "Two tasks racing on one cold endpoint make exactly one connection between
\* them": the tasks that use an endpoint share its connection, unless one was
\* evicted, or detached by a drain.
SingleFlight == \A e \in Endpoint : Cardinality(ConnTo(e) \ retired) <= 1

\* Nobody is handed a connection that was made to another endpoint.
NoCrossEndpoint == \A d, e \in Endpoint : d # e => ConnTo(d) \cap ConnTo(e) = {}

\* An acquire or an evict on a healthy endpoint ends, whatever hangs
\* elsewhere, and a drain ends even while its own slots are connecting.
CallsReturn ==
  \A t \in Task :
    /\ pc[t] = "waiting" /\ at[t] \notin Hung ~> pc[t] \in {"using", "idle"}
    /\ pc[t] = "evicting" /\ at[t] \notin Hung ~> pc[t] = "idle"
    /\ pc[t] = "draining" ~> pc[t] = "idle"
===============================================================================
