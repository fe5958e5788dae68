---------------------------- MODULE SlotRegistry -----------------------------
(***************************************************************************)
(* The Rust registration lock, rust/src/registration.rs: a map from        *)
(* (connection, proxyServer) to a reference-counted async mutex, created   *)
(* by the first acquirer and pruned by the last one to leave.              *)
(*                                                                         *)
(* A Slot is the identity of one heap-allocated mutex.  It is free for     *)
(* reuse as soon as nothing refers to it, like the memory behind an Arc,   *)
(* so the model needs no counter and no bound.                             *)
(***************************************************************************)
EXTENDS LockKeys, Naturals, FiniteSets

CONSTANTS Task,         \* acquirers: futures and blocking threads
          Slot,         \* identities of heap-allocated mutexes
          NoSlot,
          Cancellable   \* tasks whose acquire is a future that can be dropped

ASSUME SlotAssumption == NoSlot \notin Slot
ASSUME CancellableAssumption == Cancellable \subseteq Task

VARIABLES slots,    \* Inner.slots: the map, NoSlot where it has no entry
          arc,      \* the Arc a task owns: its clone, then its guard's
          locked,   \* the state of each mutex
          key,      \* the key a task works on
          pc,       \* how far the task is
          abandoned \* history: keys a waiter dropped out of since a lookup

vars == <<slots, arc, locked, key, pc, abandoned>>

PC == {"idle", "waiting", "held", "unlocked", "pruning"}

\* Besides the types: a task refers to a mutex exactly from its lookup until
\* it has let go of it, whichever way it leaves.
TypeOK == /\ slots \in [Key -> Slot \cup {NoSlot}]
          /\ arc \in [Task -> Slot \cup {NoSlot}]
          /\ locked \in [Slot -> BOOLEAN]
          /\ key \in [Task -> Key \cup {NoKey}]
          /\ pc \in [Task -> PC]
          /\ abandoned \in SUBSET Key
          /\ \A t \in Task : /\ arc[t] = NoSlot <=> pc[t] \in {"idle", "pruning"}
                             /\ key[t] = NoKey <=> pc[t] = "idle"

Init == /\ slots = [k \in Key |-> NoSlot]
        /\ arc = [t \in Task |-> NoSlot]
        /\ locked = [s \in Slot |-> FALSE]
        /\ key = [t \in Task |-> NoKey]
        /\ pc = [t \in Task |-> "idle"]
        /\ abandoned = {}

(***************************************************************************)
(* Who refers to a slot.  strong_count(s) is 1 for the map entry plus one  *)
(* per owner (lock_arc keeps a further clone of its own while it waits,    *)
(* with the life of the task's).                                           *)
(***************************************************************************)
Owners(s) == {t \in Task : arc[t] = s}
Freed(s) == Owners(s) = {} /\ \A k \in Key : slots[k] # s

\* Mutants of prune's test: no count at all, and a count that is one off.
MutPruneUnchecked(k) == slots[k] # NoSlot
MutPruneOneShort(k) == slots[k] # NoSlot /\ Cardinality(Owners(slots[k])) <= 1
MutPruneOneOver(k) == slots[k] # NoSlot /\ Cardinality(Owners(slots[k])) = 1

MapIsOnlyOwner(k) == slots[k] # NoSlot /\ Owners(slots[k]) = {}

(***************************************************************************)
(* Registry::acquire up to its first await.  Under the map lock, slot()    *)
(* clones the entry's Arc or inserts a new unlocked mutex and clones that. *)
(* A spec that does not parse or is not registrable returns before this    *)
(* and changes nothing.                                                    *)
(***************************************************************************)
\* Mutant: the entry is always replaced by a new mutex.
MutAlwaysInsert(k, s) == /\ Freed(s)
                         /\ slots' = [slots EXCEPT ![k] = s]
                         /\ locked' = [locked EXCEPT ![s] = FALSE]

MapLookup(k, s) ==
  \/ /\ slots[k] = s
     /\ UNCHANGED <<slots, locked>>
  \/ /\ slots[k] = NoSlot
     /\ Freed(s)
     /\ slots' = [slots EXCEPT ![k] = s]
     /\ locked' = [locked EXCEPT ![s] = FALSE]

Prepare(t, k) ==
  /\ pc[t] = "idle"
  /\ \E s \in Slot : /\ MapLookup(k, s)
                     /\ arc' = [arc EXCEPT ![t] = s]
  /\ key' = [key EXCEPT ![t] = k]
  /\ pc' = [pc EXCEPT ![t] = "waiting"]
  /\ abandoned' = abandoned \ {k}

\* lock_arc().await resolves: the clone in `slot` becomes the guard's Arc.
Lock(t) ==
  /\ pc[t] = "waiting"
  /\ ~locked[arc[t]]
  /\ locked' = [locked EXCEPT ![arc[t]] = TRUE]
  /\ pc' = [pc EXCEPT ![t] = "held"]
  /\ UNCHANGED <<slots, arc, key, abandoned>>

\* Mutant: the waiter goes away but its clone stays behind.
MutCancelKeepsArc(t) ==
  /\ t \in Cancellable
  /\ pc[t] = "waiting"
  /\ key' = [key EXCEPT ![t] = NoKey]
  /\ pc' = [pc EXCEPT ![t] = "idle"]
  /\ abandoned' = abandoned \cup {key[t]}
  /\ UNCHANGED <<slots, arc, locked>>

\* The acquire future is dropped while it waits: the clone goes and nothing
\* prunes, because there is no Registration yet whose Drop would.
Cancel(t) ==
  /\ t \in Cancellable
  /\ pc[t] = "waiting"
  /\ arc' = [arc EXCEPT ![t] = NoSlot]
  /\ key' = [key EXCEPT ![t] = NoKey]
  /\ pc' = [pc EXCEPT ![t] = "idle"]
  /\ abandoned' = abandoned \cup {key[t]}
  /\ UNCHANGED <<slots, locked>>

(***************************************************************************)
(* Registration::drop.  guard.take() unlocks the mutex and only then       *)
(* releases the guard's Arc; prune() runs after both.  Another thread may  *)
(* run between any two of these.                                           *)
(***************************************************************************)
\* Mutant: the Arc is released without unlocking the mutex.
MutForgetUnlock(t) ==
  /\ pc[t] = "held"
  /\ pc' = [pc EXCEPT ![t] = "unlocked"]
  /\ UNCHANGED <<slots, arc, locked, key, abandoned>>

Unlock(t) ==
  /\ pc[t] = "held"
  /\ locked' = [locked EXCEPT ![arc[t]] = FALSE]
  /\ pc' = [pc EXCEPT ![t] = "unlocked"]
  /\ UNCHANGED <<slots, arc, key, abandoned>>

ReleaseArc(t) ==
  /\ pc[t] = "unlocked"
  /\ arc' = [arc EXCEPT ![t] = NoSlot]
  /\ pc' = [pc EXCEPT ![t] = "pruning"]
  /\ UNCHANGED <<slots, locked, key, abandoned>>

Prune(t) ==
  /\ pc[t] = "pruning"
  /\ slots' = IF MapIsOnlyOwner(key[t]) THEN [slots EXCEPT ![key[t]] = NoSlot]
                                        ELSE slots
  /\ key' = [key EXCEPT ![t] = NoKey]
  /\ pc' = [pc EXCEPT ![t] = "idle"]
  /\ UNCHANGED <<arc, locked, abandoned>>

Drop(t) == Unlock(t) \/ ReleaseArc(t) \/ Prune(t)

Next == \E t \in Task : \/ \E k \in Key : Prepare(t, k)
                        \/ Lock(t)
                        \/ Cancel(t)
                        \/ Unlock(t)
                        \/ ReleaseArc(t)
                        \/ Prune(t)

Spec == Init /\ [][Next]_vars

(***************************************************************************)
(* Fairness.  A holder's body ends and its destructor runs; async-lock     *)
(* hands the mutex to a starving waiter ("eventually fair"), hence SF.     *)
(* Nobody is obliged to acquire or to cancel.                              *)
(***************************************************************************)
Fairness == \A t \in Task : WF_vars(Drop(t)) /\ SF_vars(Lock(t))

-----------------------------------------------------------------------------
\* No two tasks are between acquire and drop of one (connection, server), in
\* spite of entries being removed and recreated while others wait.
MutualExclusion ==
  \A t, u \in Task : /\ pc[t] = "held" /\ pc[u] = "held"
                     /\ key[t] = key[u]
                     => t = u

\* Whoever waits on, holds or has just unlocked a key uses the mutex the map
\* holds for it: prune never orphans a waiter mid-wait.
NoOrphans ==
  \A t \in Task : pc[t] \in {"waiting", "held", "unlocked"} => arc[t] = slots[key[t]]

\* A locked mutex that anyone can still reach has a live holder.
LockedHasHolder ==
  \A s \in Slot : locked[s] /\ ~Freed(s) => \E t \in Task : pc[t] = "held" /\ arc[t] = s

\* No waiter is parked on a mutex the map has forgotten, nor behind a
\* registration that is gone: whoever locks it out will release it.
NobodyStranded == NoOrphans /\ LockedHasHolder

Drained(k) == slots[k] # NoSlot /\ \A t \in Task : key[t] # k

\* The only way an entry outlives its last user is a cancelled waiter: tracked_slots'
\* "slots are dropped as they drain" holds of every key nobody was cancelled on.
OnlyCancellationLeaks == \A k \in Key : Drained(k) => k \in abandoned

\* A waiting acquirer gets the key or is cancelled.
WaitersServed == \A t \in Task : pc[t] = "waiting" ~> pc[t] \in {"held", "idle"}

\* The abstract lock: a task is inside from its lock to its unlock.
Waiters == [k \in Key |-> {t \in Task : pc[t] = "waiting" /\ key[t] = k}]
Holders == [k \in Key |-> {t \in Task : pc[t] = "held" /\ key[t] = k}]

Promise == INSTANCE ProxyLock WITH waiting <- Waiters, inside <- Holders

ImplementsProxyLock == Promise!Spec
=============================================================================
