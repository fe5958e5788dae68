------------------------------- MODULE MCLocks -------------------------------
(* The registration locks of Rust and Node.  They share no state: a          *)
(* behaviour here is one of either, the other at rest.                       *)
(*   Rust    three acquirers on two keys; five slots are enough that a freed *)
(*           mutex is always there to allocate: at most one per task and one *)
(*           per key live;                                                   *)
(*   Node    four callers on two keys: a queue three deep behind a holder.   *)
EXTENDS SlotRegistry, PromiseChain

VARIABLE lock  \* whose

LocksInit == lock \in {"rust", "node"} /\ Init /\ ChainInit

LocksNext == /\ \/ lock = "rust" /\ Next /\ UNCHANGED chainVars
                \/ lock = "node" /\ ChainNext /\ UNCHANGED vars
             /\ UNCHANGED lock

\* Nothing fair is enabled in a lock at rest.
LocksSpec == /\ LocksInit /\ [][LocksNext]_<<lock, vars, chainVars>>
             /\ Fairness /\ ChainFairness
=============================================================================
