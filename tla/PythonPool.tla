----------------------------- MODULE PythonPool -----------------------------
(***************************************************************************)
(* python/chromeleon/perf.py BrowserPool: warm connections, one per        *)
(* endpoint, handed out round-robin.  Only the cursor has a lock.  acquire *)
(* reads the cache, and if the endpoint is cold awaits the connector (in   *)
(* acquire_sync: blocks its own thread in it) and then stores what it got, *)
(* while others may be doing the same for the same endpoint.               *)
(***************************************************************************)
EXTENDS Naturals, Sequences

CONSTANTS Task,      \* tasks, or threads, that acquire
          Endpoints, \* the pool's endpoints, a sequence
          NoConn,
          MaxConns   \* bound: connections made

VARIABLES cursor,    \* _next
          cache,     \* _connections: [endpoint -> connection or NoConn]
          waiting,   \* [Task -> endpoint it connects to, or NoConn]
          open,      \* connections made and not closed
          made,      \* number of connections made: they are 1 .. made
          phase,     \* of the pool, as its owner sees it
          closing    \* what aclose() still has to close

vars == <<cursor, cache, waiting, open, made, phase, closing>>

Endpoint == {Endpoints[i] : i \in DOMAIN Endpoints}

Init == /\ cursor = 0
        /\ cache = [e \in Endpoint |-> NoConn]
        /\ waiting = [t \in Task |-> NoConn]
        /\ open = {}
        /\ made = 0
        /\ phase = "open"
        /\ closing = {}

\* _pick_endpoint, and the lookup: a warm connection is the answer.
Acquire(t) ==
  /\ phase = "open" /\ waiting[t] = NoConn
  /\ LET e == Endpoints[cursor + 1]
     IN waiting' = [waiting EXCEPT ![t] = IF cache[e] = NoConn THEN e ELSE NoConn]
  /\ cursor' = (cursor + 1) % Len(Endpoints)
  /\ UNCHANGED <<cache, open, made, phase, closing>>

\* The connector is back: stored over whatever is there by now.
Connected(t) ==
  /\ waiting[t] # NoConn /\ made < MaxConns
  /\ made' = made + 1
  /\ open' = open \cup {made'}
  /\ cache' = [cache EXCEPT ![waiting[t]] = made']
  /\ waiting' = [waiting EXCEPT ![t] = NoConn]
  /\ UNCHANGED <<cursor, phase, closing>>

\* It raises, or the task is cancelled in it.
ConnectFails(t) ==
  /\ waiting[t] # NoConn
  /\ waiting' = [waiting EXCEPT ![t] = NoConn]
  /\ UNCHANGED <<cursor, cache, open, made, phase, closing>>

\* aclose() or close_sync(), by an owner who has no acquire under way and
\* makes none later.
Close == /\ phase = "open" /\ \A t \in Task : waiting[t] = NoConn
         /\ phase' = "closing"
         /\ closing' = {cache[e] : e \in Endpoint} \ {NoConn}
         /\ cache' = [e \in Endpoint |-> NoConn]
         /\ UNCHANGED <<cursor, waiting, open, made>>

CloseOne == \E c \in closing :
  /\ closing' = closing \ {c}
  /\ open' = open \ {c}
  /\ UNCHANGED <<cursor, cache, waiting, made, phase>>

\* A close() that raises ends the loop with the rest unclosed.
CloseRaises == /\ closing # {}
               /\ phase' = "raised"
               /\ closing' = {}
               /\ UNCHANGED <<cursor, cache, waiting, open, made>>

CloseReturns == /\ phase = "closing" /\ closing = {}
                /\ phase' = "closed"
                /\ UNCHANGED <<cursor, cache, waiting, open, made, closing>>

Next == \/ \E t \in Task : Acquire(t) \/ Connected(t) \/ ConnectFails(t)
        \/ Close \/ CloseOne \/ CloseRaises \/ CloseReturns

Spec == Init /\ [][Next]_vars

\* "await pool.aclose()  # closes all connections": once it has returned, of
\* the connections the pool ever made none is open.
ClosesAll == phase = "closed" => open = {}
=============================================================================
