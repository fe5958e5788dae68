--------------------------- MODULE ThreadLockProofs ---------------------------
(***************************************************************************)
(* Safety of the Python lock for every set of tasks, threads and keys, and *)
(* every placement of tasks on threads.  Nothing here depends on who       *)
(* blocks whom: where tasks of one loop share a key the lock deadlocks,    *)
(* but it never lets two of them in.                                       *)
(***************************************************************************)
EXTENDS ThreadLock, TLAPS

\* A task that is inside a key, suspended or not, is the holder of its lock.
InsideHolds ==
  \A t \in Task : step[t] \in {"inside", "suspended"} => holder[key[t]] = t

IInv == TypeOK /\ InsideHolds

\* No lock exists and no thread is in any task.
LEMMA InitIInv == Init => IInv
  BY NoneAssumption, PlacementAssumption DEF Init, IInv, TypeOK, InsideHolds, Step

\* Every step keeps the types, a thread in at most one task, and the holder.
LEMMA NextIInv == IInv /\ [Next]_vars => IInv'
  <1> SUFFICES ASSUME IInv, [Next]_vars PROVE IInv'
    OBVIOUS
  <1> USE NoneAssumption, PlacementAssumption DEF IInv, TypeOK, InsideHolds, Step
  <1>1. ASSUME NEW t \in Task, NEW k \in Key, Call(t, k) PROVE IInv'
    BY <1>1 DEF Call, MayCall
  <1>2. ASSUME NEW t \in Task, Acquire(t) PROVE IInv'
    BY <1>2 DEF Acquire
  <1>3. ASSUME NEW t \in Task, Suspend(t) PROVE IInv'
    BY <1>3 DEF Suspend
  <1>4. ASSUME NEW t \in Task, Resume(t) PROVE IInv'
    BY <1>4 DEF Resume
  <1>5. ASSUME NEW t \in Task, Release(t) PROVE IInv'
    BY <1>5 DEF Release
  <1>6. CASE UNCHANGED vars
    BY <1>6 DEF vars
  <1>. QED  BY <1>1, <1>2, <1>3, <1>4, <1>5, <1>6 DEF Next

\* The inductive invariant holds in every behaviour.
THEOREM Invariant == Spec => []IInv
  BY InitIInv, NextIInv, PTL DEF Spec

\* A thread is in one task at a time, from its call to its return or await.
THEOREM TypeCorrect == Spec => []TypeOK
  <1>1. IInv => TypeOK
    BY DEF IInv
  <1>. QED  BY <1>1, Invariant, PTL

-----------------------------------------------------------------------------
\* A step of one task on one key changes that key's waiters and holders by
\* that task, and nobody else's.
LEMMA OneTaskMoves ==
  ASSUME NEW t \in Task, NEW k \in Key,
         \A u \in Task : u # t => step'[u] = step[u] /\ key'[u] = key[u],
         key[t] \in {k, NoKey}, key'[t] \in {k, NoKey}
  PROVE  /\ Waiters' = [Waiters EXCEPT ![k] = IF step'[t] = "acquiring" /\ key'[t] = k
                                              THEN @ \cup {t} ELSE @ \ {t}]
         /\ Holders' = [Holders EXCEPT ![k] =
                          IF step'[t] \in {"inside", "suspended"} /\ key'[t] = k
                          THEN @ \cup {t} ELSE @ \ {t}]
  <1>1. \A j \in Key \ {k} : Waiters'[j] = Waiters[j] /\ Holders'[j] = Holders[j]
    BY NoneAssumption DEF Waiters, Holders
  <1>2. Waiters'[k] = IF step'[t] = "acquiring" /\ key'[t] = k
                      THEN Waiters[k] \cup {t} ELSE Waiters[k] \ {t}
    BY DEF Waiters
  <1>3. Holders'[k] = IF step'[t] \in {"inside", "suspended"} /\ key'[t] = k
                      THEN Holders[k] \cup {t} ELSE Holders[k] \ {t}
    BY DEF Holders
  <1>4. Waiters' \in [Key -> SUBSET Task] /\ Holders' \in [Key -> SUBSET Task]
    BY DEF Waiters, Holders
  <1>5. Waiters \in [Key -> SUBSET Task] /\ Holders \in [Key -> SUBSET Task]
    BY DEF Waiters, Holders
  <1>. QED  BY <1>1, <1>2, <1>3, <1>4, <1>5

\* The Python lock implements the abstract lock: the call asks, the granted
\* acquire() enters, `finally` leaves, and awaits inside the body are
\* invisible: a suspended task is still inside.
THEOREM Refinement == Spec => ImplementsProxyLock
  <1>1. Init => Promise!Init
    BY DEF Init, Promise!Init, Waiters, Holders
  <1>2. IInv /\ [Next]_vars => [Promise!Next]_(Promise!lockVars)
    <2> SUFFICES ASSUME IInv, [Next]_vars
                 PROVE  Promise!Next \/ UNCHANGED Promise!lockVars
      OBVIOUS
    <2> USE NoneAssumption DEF IInv, TypeOK
    <2>0. Waiters \in [Key -> SUBSET Task] /\ Holders \in [Key -> SUBSET Task]
      BY DEF Waiters, Holders
    <2>1. ASSUME NEW t \in Task, NEW k \in Key, Call(t, k)
          PROVE  Promise!Ask(t, k)
      <3>1. ~Promise!Busy(t)
        BY <2>1 DEF Call, MayCall, Promise!Busy, Waiters, Holders
      <3>2. /\ Waiters' = [Waiters EXCEPT ![k] = @ \cup {t}]
            /\ Holders' = [Holders EXCEPT ![k] = @ \ {t}]
        BY <2>1, OneTaskMoves DEF Call, MayCall
      <3>3. t \notin Holders[k]
        BY <2>1 DEF Call, MayCall, Holders
      <3>. QED  BY <2>0, <3>1, <3>2, <3>3 DEF Promise!Ask
    <2>2. ASSUME NEW t \in Task, Acquire(t)
          PROVE  \E k \in Key : Promise!Enter(t, k)
      <3>1. PICK k \in Key : key[t] = k
        BY <2>2 DEF Acquire
      <3>2. /\ Waiters' = [Waiters EXCEPT ![k] = @ \ {t}]
            /\ Holders' = [Holders EXCEPT ![k] = @ \cup {t}]
        BY <2>2, <3>1, OneTaskMoves DEF Acquire
      <3>3. t \in Waiters[k]
        BY <2>2, <3>1 DEF Acquire, Waiters
      <3>4. Holders[k] = {}
        BY <2>2, <3>1 DEF Acquire, InsideHolds, Holders
      <3>. QED  BY <3>2, <3>3, <3>4 DEF Promise!Enter
    <2>3. ASSUME NEW t \in Task, Suspend(t) \/ Resume(t)
          PROVE  UNCHANGED Promise!lockVars
      <3>1. \A k \in Key : Waiters'[k] = Waiters[k] /\ Holders'[k] = Holders[k]
        BY <2>3 DEF Suspend, Resume, Waiters, Holders
      <3>. QED  BY <3>1 DEF Waiters, Holders, Promise!lockVars
    <2>4. ASSUME NEW t \in Task, Release(t)
          PROVE  \E k \in Key : Promise!Leave(t, k)
      <3>1. PICK k \in Key : key[t] = k
        BY <2>4 DEF Release
      <3>2. /\ Holders' = [Holders EXCEPT ![k] = @ \ {t}]
            /\ Waiters' = [Waiters EXCEPT ![k] = @ \ {t}]
        BY <2>4, <3>1, OneTaskMoves DEF Release
      <3>3. t \in Holders[k] /\ t \notin Waiters[k]
        BY <2>4, <3>1 DEF Release, Waiters, Holders
      <3>4. UNCHANGED Waiters
        BY <2>0, <3>2, <3>3
      <3>. QED  BY <3>2, <3>3, <3>4 DEF Promise!Leave
    <2>5. CASE UNCHANGED vars
      BY <2>5 DEF vars, Promise!lockVars, Waiters, Holders
    <2>. QED  BY <2>1, <2>2, <2>3, <2>4, <2>5 DEF Next, Promise!Next
  <1>. QED  BY <1>1, <1>2, Invariant, PTL DEF Spec, ImplementsProxyLock, Promise!Spec
===============================================================================
