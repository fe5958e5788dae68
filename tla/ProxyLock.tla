------------------------------ MODULE ProxyLock ------------------------------
(***************************************************************************)
(* What every client promises about the proxy handshake lock, whatever it  *)
(* is built from (HANDSHAKE.md, invariant 3): at most one handshake per    *)
(* (connection, proxyServer) is between register and create, handshakes    *)
(* for other keys never matter, and a handshake that asked for the key     *)
(* either gets it or gives up.                                             *)
(*                                                                         *)
(* SlotRegistry (Rust), PromiseChain (Node) and ThreadLock (Python)        *)
(* implement it, each under its own refinement mapping.                    *)
(***************************************************************************)
CONSTANTS Task,     \* handshakes: tasks, threads, promises
          Key       \* (connection, proxyServer) pairs

VARIABLES waiting,  \* [Key -> SUBSET Task]: who asked and has not got it
          inside    \* [Key -> SUBSET Task]: who may register and create

lockVars == <<waiting, inside>>

TypeOK == /\ waiting \in [Key -> SUBSET Task]
          /\ inside \in [Key -> SUBSET Task]

Init == /\ waiting = [k \in Key |-> {}]
        /\ inside = [k \in Key |-> {}]

Busy(t) == \E k \in Key : t \in waiting[k] \cup inside[k]

Ask(t, k) == /\ ~Busy(t)
             /\ waiting' = [waiting EXCEPT ![k] = @ \cup {t}]
             /\ UNCHANGED inside

GiveUp(t, k) == /\ t \in waiting[k]
                /\ waiting' = [waiting EXCEPT ![k] = @ \ {t}]
                /\ UNCHANGED inside

Enter(t, k) == /\ t \in waiting[k]
               /\ inside[k] = {}
               /\ waiting' = [waiting EXCEPT ![k] = @ \ {t}]
               /\ inside' = [inside EXCEPT ![k] = {t}]

Leave(t, k) == /\ t \in inside[k]
               /\ inside' = [inside EXCEPT ![k] = @ \ {t}]
               /\ UNCHANGED waiting

Next == \E t \in Task, k \in Key :
          Ask(t, k) \/ GiveUp(t, k) \/ Enter(t, k) \/ Leave(t, k)

Spec == Init /\ [][Next]_lockVars
=============================================================================
