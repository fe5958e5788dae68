-------------------------- MODULE SlotRegistryProofs -------------------------
(***************************************************************************)
(* Safety of the Rust slot registry for every set of tasks, keys and       *)
(* mutexes.  Mutual exclusion alone is not inductive: that two holders of  *)
(* a key hold one mutex rests on NoOrphans, NoOrphans rests on prune       *)
(* removing only entries nobody owns, and a mutex excludes only because no *)
(* second task reaches it while it is locked.                              *)
(***************************************************************************)
EXTENDS SlotRegistry, TLAPS

\* Two entries never share a mutex.
Distinct == \A j, k \in Key : slots[j] = slots[k] /\ slots[j] # NoSlot => j = k

\* The holder of a mutex is alone and has it locked.
HoldersLock ==
  \A t \in Task : pc[t] = "held" =>
     /\ locked[arc[t]]
     /\ \A u \in Task : pc[u] = "held" /\ arc[u] = arc[t] => u = t

IInv == TypeOK /\ NoOrphans /\ Distinct /\ HoldersLock /\ LockedHasHolder

\* The registry starts with no entry and nobody in it.
LEMMA InitIInv == Init => IInv
  BY SlotAssumption, KeyAssumption
  DEF Init, IInv, TypeOK, NoOrphans, Distinct, HoldersLock, LockedHasHolder, PC, Freed

\* slot() gives an acquirer the mapped mutex or a new one nobody else knows.
LEMMA PrepareIInv ==
  ASSUME IInv, NEW t \in Task, NEW k \in Key, Prepare(t, k)
  PROVE  IInv'
  <1> USE SlotAssumption, KeyAssumption DEF IInv
  <1>1. PICK s \in Slot : MapLookup(k, s) /\ arc' = [arc EXCEPT ![t] = s]
    BY DEF Prepare
  <1>2. /\ pc[t] = "idle" /\ arc[t] = NoSlot
        /\ pc' = [pc EXCEPT ![t] = "waiting"]
        /\ key' = [key EXCEPT ![t] = k]
        /\ abandoned' = abandoned \ {k}
    BY DEF Prepare, TypeOK
  <1>3. CASE slots[k] = s /\ UNCHANGED <<slots, locked>>
    <2>1. TypeOK'
      BY <1>1, <1>2, <1>3 DEF TypeOK, PC
    <2>2. NoOrphans' /\ Distinct' /\ HoldersLock'
      BY <1>1, <1>2, <1>3 DEF TypeOK, NoOrphans, Distinct, HoldersLock
    <2>3. LockedHasHolder'
      BY <1>1, <1>2, <1>3 DEF TypeOK, LockedHasHolder, Freed, Owners
    <2>. QED  BY <2>1, <2>2, <2>3
  <1>4. CASE /\ slots[k] = NoSlot
             /\ Freed(s)
             /\ slots' = [slots EXCEPT ![k] = s]
             /\ locked' = [locked EXCEPT ![s] = FALSE]
    <2>0. \A u \in Task : arc[u] # s
      BY <1>4 DEF Freed, Owners
    <2>1. TypeOK'
      BY <1>1, <1>2, <1>4 DEF TypeOK, PC
    <2>2. NoOrphans'
      BY <1>1, <1>2, <1>4 DEF TypeOK, NoOrphans
    <2>3. Distinct'
      BY <1>1, <1>2, <1>4 DEF TypeOK, Distinct, Freed
    <2>4. HoldersLock'
      BY <1>1, <1>2, <1>4, <2>0 DEF TypeOK, HoldersLock
    <2>5. LockedHasHolder'
      BY <1>1, <1>2, <1>4, <2>0 DEF TypeOK, LockedHasHolder, Freed, Owners
    <2>. QED  BY <2>1, <2>2, <2>3, <2>4, <2>5
  <1>. QED  BY <1>1, <1>3, <1>4 DEF MapLookup

\* A mutex is granted only when it is unlocked, hence when nobody holds it.
LEMMA LockIInv ==
  ASSUME IInv, NEW t \in Task, Lock(t)
  PROVE  IInv'
  <1> USE SlotAssumption, KeyAssumption DEF IInv, Lock
  <1>1. TypeOK'
    BY DEF TypeOK, PC
  <1>2. NoOrphans' /\ Distinct'
    BY DEF TypeOK, NoOrphans, Distinct
  <1>3. HoldersLock'
    BY DEF TypeOK, HoldersLock
  <1>4. LockedHasHolder'
    BY DEF TypeOK, LockedHasHolder, Freed, Owners
  <1>. QED  BY <1>1, <1>2, <1>3, <1>4

\* A cancelled waiter takes only its own reference away.
LEMMA CancelIInv ==
  ASSUME IInv, NEW t \in Task, Cancel(t)
  PROVE  IInv'
  <1> USE SlotAssumption, KeyAssumption DEF IInv, Cancel
  <1>1. TypeOK'
    BY DEF TypeOK, PC
  <1>2. NoOrphans' /\ Distinct'
    BY DEF TypeOK, NoOrphans, Distinct
  <1>3. HoldersLock'
    BY DEF TypeOK, HoldersLock
  <1>4. LockedHasHolder'
    BY DEF TypeOK, LockedHasHolder, Freed, Owners
  <1>. QED  BY <1>1, <1>2, <1>3, <1>4

\* guard.take() unlocks the one mutex this task alone holds.
LEMMA UnlockIInv ==
  ASSUME IInv, NEW t \in Task, Unlock(t)
  PROVE  IInv'
  <1> USE SlotAssumption, KeyAssumption DEF IInv, Unlock
  <1>1. TypeOK'
    BY DEF TypeOK, PC
  <1>2. NoOrphans' /\ Distinct'
    BY DEF TypeOK, NoOrphans, Distinct
  <1>3. HoldersLock'
    BY DEF TypeOK, HoldersLock
  <1>4. LockedHasHolder'
    BY DEF TypeOK, HoldersLock, LockedHasHolder, Freed, Owners
  <1>. QED  BY <1>1, <1>2, <1>3, <1>4

\* The guard's Arc goes only after its mutex is unlocked.
LEMMA ReleaseArcIInv ==
  ASSUME IInv, NEW t \in Task, ReleaseArc(t)
  PROVE  IInv'
  <1> USE SlotAssumption, KeyAssumption DEF IInv, ReleaseArc
  <1>1. TypeOK'
    BY DEF TypeOK, PC
  <1>2. NoOrphans' /\ Distinct'
    BY DEF TypeOK, NoOrphans, Distinct
  <1>3. HoldersLock'
    BY DEF TypeOK, HoldersLock
  <1>4. LockedHasHolder'
    BY DEF TypeOK, LockedHasHolder, Freed, Owners
  <1>. QED  BY <1>1, <1>2, <1>3, <1>4

\* prune removes an entry only when nobody else refers to its mutex.
LEMMA PruneIInv ==
  ASSUME IInv, NEW t \in Task, Prune(t)
  PROVE  IInv'
  <1> USE SlotAssumption, KeyAssumption DEF IInv, Prune
  <1>1. key[t] \in Key
    BY DEF TypeOK
  <1>2. TypeOK'
    BY <1>1 DEF TypeOK, PC
  <1>3. NoOrphans'
    BY <1>1 DEF TypeOK, NoOrphans, MapIsOnlyOwner, Owners
  <1>4. Distinct'
    BY <1>1 DEF TypeOK, Distinct
  <1>5. HoldersLock'
    BY <1>1 DEF TypeOK, HoldersLock
  <1>6. LockedHasHolder'
    BY <1>1 DEF TypeOK, LockedHasHolder, Freed, Owners
  <1>. QED  BY <1>2, <1>3, <1>4, <1>5, <1>6

\* Every step of every task, and stuttering, keeps the inductive invariant.
LEMMA NextIInv == IInv /\ [Next]_vars => IInv'
  <1> SUFFICES ASSUME IInv, [Next]_vars PROVE IInv'
    OBVIOUS
  <1>1. CASE Next
    BY <1>1, PrepareIInv, LockIInv, CancelIInv, UnlockIInv, ReleaseArcIInv, PruneIInv DEF Next
  <1>2. CASE UNCHANGED vars
    BY <1>2 DEF vars, IInv, TypeOK, NoOrphans, Distinct, HoldersLock, LockedHasHolder,
                Freed, Owners
  <1>. QED  BY <1>1, <1>2

\* Holders of one key are on one mutex, and a mutex has one holder.
LEMMA IInvExcludes == IInv => MutualExclusion
  BY DEF IInv, NoOrphans, HoldersLock, MutualExclusion

\* The inductive invariant holds in every behaviour of the registry.
THEOREM Invariant == Spec => []IInv
  BY InitIInv, NextIInv, PTL DEF Spec

\* The types hold, and a task refers to a mutex exactly while its pc says so.
THEOREM TypeCorrect == Spec => []TypeOK
  <1>1. IInv => TypeOK
    BY DEF IInv
  <1>. QED  BY <1>1, Invariant, PTL

\* At most one task is between acquire and drop of a (connection, server).
THEOREM Exclusion == Spec => []MutualExclusion
  BY IInvExcludes, Invariant, PTL

\* Every waiter and holder of a key is on the mutex the map holds for it, and
\* nobody can wait on a locked mutex whose holder is gone.
THEOREM NeverStranded == Spec => []NobodyStranded
  <1>1. IInv => NobodyStranded
    BY DEF IInv, NobodyStranded
  <1>. QED  BY <1>1, Invariant, PTL

\* An entry is left without users only by prune, which finds another owner of
\* the mutex and hence another user of the key, or by a cancelled waiter.
LEMMA NextLeaks ==
  ASSUME IInv, OnlyCancellationLeaks, [Next]_vars
  PROVE  OnlyCancellationLeaks'
  <1> USE SlotAssumption, KeyAssumption DEF IInv, TypeOK, OnlyCancellationLeaks, Drained
  <1>1. ASSUME NEW t \in Task, NEW k \in Key, Prepare(t, k)
        PROVE  OnlyCancellationLeaks'
    BY <1>1 DEF Prepare, MapLookup
  <1>2. ASSUME NEW t \in Task, Cancel(t)
        PROVE  OnlyCancellationLeaks'
    BY <1>2 DEF Cancel
  <1>3. ASSUME NEW t \in Task, Lock(t) \/ Unlock(t) \/ ReleaseArc(t)
        PROVE  OnlyCancellationLeaks'
    BY <1>3 DEF Lock, Unlock, ReleaseArc
  <1>4. ASSUME NEW t \in Task, Prune(t)
        PROVE  OnlyCancellationLeaks'
    <2>1. CASE MapIsOnlyOwner(key[t])
      BY <1>4, <2>1 DEF Prune
    <2>2. CASE ~MapIsOnlyOwner(key[t]) /\ slots[key[t]] # NoSlot
      <3>1. PICK u \in Task : arc[u] = slots[key[t]]
        BY <2>2 DEF MapIsOnlyOwner, Owners
      <3>2. arc[u] = slots[key[u]] /\ key[u] \in Key /\ u # t
        BY <1>4, <2>2, <3>1 DEF Prune, NoOrphans, PC
      <3>3. key[u] = key[t]
        BY <1>4, <2>2, <3>1, <3>2 DEF Prune, Distinct
      <3>. QED  BY <1>4, <2>2, <3>2, <3>3 DEF Prune
    <2>3. CASE slots[key[t]] = NoSlot
      BY <1>4, <2>3 DEF Prune, MapIsOnlyOwner
    <2>. QED  BY <2>1, <2>2, <2>3
  <1>5. CASE UNCHANGED vars
    BY <1>5 DEF vars
  <1>. QED  BY <1>1, <1>2, <1>3, <1>4, <1>5 DEF Next

\* A key's entry outlives its users only if a waiter was cancelled on it.
THEOREM NoOtherLeak == Spec => []OnlyCancellationLeaks
  <1>1. Init => OnlyCancellationLeaks
    BY DEF Init, OnlyCancellationLeaks, Drained
  <1>2. IInv /\ OnlyCancellationLeaks /\ [Next]_vars => OnlyCancellationLeaks'
    BY NextLeaks
  <1>. QED  BY <1>1, <1>2, Invariant, PTL DEF Spec

-----------------------------------------------------------------------------
\* A step of one task on one key changes that key's waiters and holders by
\* that task, and nobody else's.
LEMMA OneTaskMoves ==
  ASSUME NEW t \in Task, NEW k \in Key,
         \A u \in Task : u # t => pc'[u] = pc[u] /\ key'[u] = key[u],
         key[t] \in {k, NoKey}, key'[t] \in {k, NoKey}
  PROVE  /\ Waiters' = [Waiters EXCEPT ![k] = IF pc'[t] = "waiting" /\ key'[t] = k
                                              THEN @ \cup {t} ELSE @ \ {t}]
         /\ Holders' = [Holders EXCEPT ![k] = IF pc'[t] = "held" /\ key'[t] = k
                                              THEN @ \cup {t} ELSE @ \ {t}]
  <1>1. \A j \in Key \ {k} : Waiters'[j] = Waiters[j] /\ Holders'[j] = Holders[j]
    BY KeyAssumption DEF Waiters, Holders
  <1>2. Waiters'[k] = IF pc'[t] = "waiting" /\ key'[t] = k
                      THEN Waiters[k] \cup {t} ELSE Waiters[k] \ {t}
    BY DEF Waiters
  <1>3. Holders'[k] = IF pc'[t] = "held" /\ key'[t] = k
                      THEN Holders[k] \cup {t} ELSE Holders[k] \ {t}
    BY DEF Holders
  <1>4. Waiters' \in [Key -> SUBSET Task] /\ Holders' \in [Key -> SUBSET Task]
    BY DEF Waiters, Holders
  <1>5. Waiters \in [Key -> SUBSET Task] /\ Holders \in [Key -> SUBSET Task]
    BY DEF Waiters, Holders
  <1>. QED  BY <1>1, <1>2, <1>3, <1>4, <1>5

\* The registry implements the abstract lock: acquire's lookup asks, the
\* mutex grant enters, a cancelled wait gives up, guard.take() leaves, and
\* everything after it is invisible.
THEOREM Refinement == Spec => ImplementsProxyLock
  <1>1. Init => Promise!Init
    BY DEF Init, Promise!Init, Waiters, Holders
  <1>2. IInv /\ [Next]_vars => [Promise!Next]_(Promise!lockVars)
    <2> SUFFICES ASSUME IInv, [Next]_vars
                 PROVE  Promise!Next \/ UNCHANGED Promise!lockVars
      OBVIOUS
    <2> USE KeyAssumption DEF IInv, TypeOK
    <2>1. ASSUME NEW t \in Task, NEW k \in Key, Prepare(t, k)
          PROVE  Promise!Ask(t, k)
      <3>1. ~Promise!Busy(t)
        BY <2>1 DEF Prepare, Promise!Busy, Waiters, Holders
      <3>2. /\ Waiters' = [Waiters EXCEPT ![k] = @ \cup {t}]
            /\ Holders' = [Holders EXCEPT ![k] = @ \ {t}]
        BY <2>1, OneTaskMoves DEF Prepare
      <3>3. t \notin Holders[k]
        BY <2>1 DEF Prepare, Holders
      <3>4. Holders \in [Key -> SUBSET Task]
        BY DEF Holders
      <3>. QED  BY <3>1, <3>2, <3>3, <3>4 DEF Promise!Ask
    <2>2. ASSUME NEW t \in Task, Lock(t)
          PROVE  \E k \in Key : Promise!Enter(t, k)
      <3>1. PICK k \in Key : key[t] = k
        BY <2>2 DEF Lock
      <3>2. /\ Waiters' = [Waiters EXCEPT ![k] = @ \ {t}]
            /\ Holders' = [Holders EXCEPT ![k] = @ \cup {t}]
        BY <2>2, <3>1, OneTaskMoves DEF Lock
      <3>3. t \in Waiters[k]
        BY <2>2, <3>1 DEF Lock, Waiters
      <3>4. Holders[k] = {}
        BY <2>2, <3>1 DEF Lock, NoOrphans, HoldersLock, Holders
      <3>. QED  BY <3>2, <3>3, <3>4 DEF Promise!Enter
    <2>3. ASSUME NEW t \in Task, Cancel(t)
          PROVE  \E k \in Key : Promise!GiveUp(t, k)
      <3>1. PICK k \in Key : key[t] = k
        BY <2>3 DEF Cancel
      <3>2. /\ Waiters' = [Waiters EXCEPT ![k] = @ \ {t}]
            /\ Holders' = [Holders EXCEPT ![k] = @ \ {t}]
        BY <2>3, <3>1, OneTaskMoves DEF Cancel
      <3>3. t \in Waiters[k] /\ t \notin Holders[k]
        BY <2>3, <3>1 DEF Cancel, Waiters, Holders
      <3>4. Holders \in [Key -> SUBSET Task]
        BY DEF Holders
      <3>5. UNCHANGED Holders
        BY <3>2, <3>3, <3>4
      <3>. QED  BY <3>2, <3>3, <3>5 DEF Promise!GiveUp
    <2>4. ASSUME NEW t \in Task, Unlock(t)
          PROVE  \E k \in Key : Promise!Leave(t, k)
      <3>1. PICK k \in Key : key[t] = k
        BY <2>4 DEF Unlock
      <3>2. /\ Holders' = [Holders EXCEPT ![k] = @ \ {t}]
            /\ Waiters' = [Waiters EXCEPT ![k] = @ \ {t}]
        BY <2>4, <3>1, OneTaskMoves DEF Unlock
      <3>3. t \in Holders[k] /\ t \notin Waiters[k]
        BY <2>4, <3>1 DEF Unlock, Waiters, Holders
      <3>4. Waiters \in [Key -> SUBSET Task]
        BY DEF Waiters
      <3>5. UNCHANGED Waiters
        BY <3>2, <3>3, <3>4
      <3>. QED  BY <3>2, <3>3, <3>5 DEF Promise!Leave
    <2>5. ASSUME NEW t \in Task, ReleaseArc(t) \/ Prune(t)
          PROVE  UNCHANGED Promise!lockVars
      <3>1. \A k \in Key : Waiters'[k] = Waiters[k] /\ Holders'[k] = Holders[k]
        BY <2>5 DEF ReleaseArc, Prune, Waiters, Holders
      <3>. QED  BY <3>1 DEF Waiters, Holders, Promise!lockVars
    <2>6. CASE UNCHANGED vars
      BY <2>6 DEF vars, Promise!lockVars, Waiters, Holders
    <2>. QED
      BY <2>1, <2>2, <2>3, <2>4, <2>5, <2>6 DEF Next, Promise!Next
  <1>. QED  BY <1>1, <1>2, Invariant, PTL DEF Spec, ImplementsProxyLock, Promise!Spec
=============================================================================
