----------------------------- MODULE PromiseChain -----------------------------
(***************************************************************************)
(* The Node registration lock, node/src/core.js withProxyRegistration: a   *)
(* promise chain per (connection, server).  Each call waits for the tail   *)
(* promise it found in the map and leaves its own there.                   *)
(*                                                                         *)
(* JavaScript runs one callback at a time, so a step here is the code      *)
(* between two awaits.  A caller makes one call at a time; the call's tail *)
(* promise is named after it, and is garbage once neither the map nor a    *)
(* waiter refers to it.                                                    *)
(***************************************************************************)
EXTENDS LockKeys, Sequences

CONSTANTS Caller, NoCaller

ASSUME CallerAssumption == NoCaller \notin Caller

VARIABLES chain,     \* _chain: whose tail is the last for the key
          prev,      \* the tail a call awaits (NoCaller: Promise.resolve())
          resolved,  \* whose tail promise has resolved
          stage, onKey,
          arrivals   \* history: the calls on each key, oldest first

chainVars == <<chain, prev, resolved, stage, onKey, arrivals>>

Stage == {"idle", "awaiting", "inside", "released"}

\* A call awaits a tail only before its body, and the map names only calls
\* that are awaiting their turn or in it: "the chain map is cleaned up when a
\* key drains".
ChainTypeOK == /\ chain \in [Key -> Caller \cup {NoCaller}]
               /\ prev \in [Caller -> Caller \cup {NoCaller}]
               /\ resolved \in SUBSET Caller
               /\ stage \in [Caller -> Stage]
               /\ onKey \in [Caller -> Key \cup {NoKey}]
               /\ arrivals \in [Key -> Seq(Caller)]
               /\ \A t \in Caller : /\ prev[t] # NoCaller => stage[t] = "awaiting"
                                    /\ onKey[t] = NoKey <=> stage[t] = "idle"
               /\ \A k \in Key : chain[k] # NoCaller => /\ onKey[chain[k]] = k
                                                        /\ stage[chain[k]] \in {"awaiting", "inside"}

ChainInit == /\ chain = [k \in Key |-> NoCaller]
             /\ prev = [t \in Caller |-> NoCaller]
             /\ resolved = {}
             /\ stage = [t \in Caller |-> "idle"]
             /\ onKey = [t \in Caller |-> NoKey]
             /\ arrivals = [k \in Key |-> <<>>]

Garbage(t) == (\A k \in Key : chain[k] # t) /\ \A u \in Caller : prev[u] # t

\* Mutant: the call links behind the current tail but does not become it.
MutNotLinked(t, k) ==
  /\ stage[t] = "idle" /\ Garbage(t)
  /\ prev' = [prev EXCEPT ![t] = chain[k]]
  /\ chain' = IF chain[k] = NoCaller THEN [chain EXCEPT ![k] = t] ELSE chain
  /\ resolved' = resolved \ {t}
  /\ stage' = [stage EXCEPT ![t] = "awaiting"]
  /\ onKey' = [onKey EXCEPT ![t] = k]
  /\ arrivals' = [arrivals EXCEPT ![k] = Append(@, t)]

\* From the call to its first await: find the last tail, leave one's own.
Enqueue(t, k) ==
  /\ stage[t] = "idle" /\ Garbage(t)
  /\ prev' = [prev EXCEPT ![t] = chain[k]]
  /\ chain' = [chain EXCEPT ![k] = t]
  /\ resolved' = resolved \ {t}
  /\ stage' = [stage EXCEPT ![t] = "awaiting"]
  /\ onKey' = [onKey EXCEPT ![t] = k]
  /\ arrivals' = [arrivals EXCEPT ![k] = Append(@, t)]

\* `await prev` continues and the body starts.
PrevSettles(t) ==
  /\ stage[t] = "awaiting"
  /\ prev[t] = NoCaller \/ prev[t] \in resolved
  /\ prev' = [prev EXCEPT ![t] = NoCaller]
  /\ stage' = [stage EXCEPT ![t] = "inside"]
  /\ UNCHANGED <<chain, resolved, onKey, arrivals>>

\* Mutants: the entry is deleted whoever's tail it is, or never.
MutDeleteAlways(t) ==
  /\ stage[t] = "inside"
  /\ chain' = [chain EXCEPT ![onKey[t]] = NoCaller]
  /\ stage' = [stage EXCEPT ![t] = "released"]
  /\ arrivals' = [arrivals EXCEPT ![onKey[t]] = Tail(@)]
  /\ UNCHANGED <<prev, resolved, onKey>>

MutDeleteNever(t) ==
  /\ stage[t] = "inside"
  /\ stage' = [stage EXCEPT ![t] = "released"]
  /\ arrivals' = [arrivals EXCEPT ![onKey[t]] = Tail(@)]
  /\ UNCHANGED <<chain, prev, resolved, onKey>>

\* The body settled, either way: `finally` resolves `held` and, in the same
\* step, drops the map entry if no later call replaced it.
BodySettles(t) ==
  /\ stage[t] = "inside"
  /\ chain' = IF chain[onKey[t]] = t THEN [chain EXCEPT ![onKey[t]] = NoCaller] ELSE chain
  /\ stage' = [stage EXCEPT ![t] = "released"]
  /\ arrivals' = [arrivals EXCEPT ![onKey[t]] = Tail(@)]
  /\ UNCHANGED <<prev, resolved, onKey>>

\* Mutant: the tail never settles, as if `release` were skipped on a throw.
MutTailHangs(t) ==
  /\ stage[t] = "released"
  /\ stage' = [stage EXCEPT ![t] = "idle"]
  /\ onKey' = [onKey EXCEPT ![t] = NoKey]
  /\ UNCHANGED <<chain, prev, resolved, arrivals>>

\* The microtask in which prev.then(() => held) settles.
TailSettles(t) ==
  /\ stage[t] = "released"
  /\ resolved' = resolved \cup {t}
  /\ stage' = [stage EXCEPT ![t] = "idle"]
  /\ onKey' = [onKey EXCEPT ![t] = NoKey]
  /\ UNCHANGED <<chain, prev, arrivals>>

ChainNext == \E t \in Caller : \/ \E k \in Key : Enqueue(t, k)
                               \/ PrevSettles(t)
                               \/ BodySettles(t)
                               \/ TailSettles(t)

ChainSpec == ChainInit /\ [][ChainNext]_chainVars

\* The event loop runs every ready callback, and a body ends.
ChainFairness ==
  \A t \in Caller : WF_chainVars(PrevSettles(t) \/ BodySettles(t) \/ TailSettles(t))

-----------------------------------------------------------------------------
\* Bodies on one key run in the order of the calls: "wait for the previous
\* holder of this (connection, server)".
FirstComeFirstServed ==
  \A t \in Caller : stage[t] = "inside" => Head(arrivals[onKey[t]]) = t

\* Every call gets its turn.
CallsServed == \A t \in Caller : stage[t] = "awaiting" ~> stage[t] = "inside"

\* The abstract lock: a call is inside while its body runs.
ChainWaiters == [k \in Key |-> {t \in Caller : stage[t] = "awaiting" /\ onKey[t] = k}]
ChainHolders == [k \in Key |-> {t \in Caller : stage[t] = "inside" /\ onKey[t] = k}]

JsLock == INSTANCE ProxyLock
            WITH Task <- Caller, waiting <- ChainWaiters, inside <- ChainHolders

ChainImplementsProxyLock == JsLock!Spec
===============================================================================
