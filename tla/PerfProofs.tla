------------------------------ MODULE PerfProofs ------------------------------
(***************************************************************************)
(* Safety of the two things perf.rs keeps between launches: the pool of    *)
(* warm connections, for every set of tasks, slots and connections, every  *)
(* number of endpoints and every width of the cursor; and, in the second   *)
(* half, the cache of resolved exits.  They share no state.                *)
(*                                                                         *)
(* "One connection per cold endpoint" is not inductive: a task may hold    *)
(* its slot long after a drain took that slot out of the map, and a slot   *)
(* of the same endpoint may have been made since.  The invariant ties      *)
(* every slot somebody refers to to one endpoint, every connection to the  *)
(* one slot that caches it, and every connection that is not retired to    *)
(* the slot in the map; a slot's lock is what keeps a connect from         *)
(* overwriting another's.                                                  *)
(***************************************************************************)
EXTENDS ConnectionPool, GeoCache, FiniteSetTheorems, TLAPS

HasLock(t) == pc[t] \in {"warm", "connecting"}

\* A slot's lock is with one task, and that task saw what it caches.
LockOK ==
  /\ \A s \in Slot : locked[s] => \E t \in Task : HasLock(t) /\ arc[t] = s
  /\ \A t \in Task : HasLock(t) => locked[arc[t]]
  /\ \A t, u \in Task : HasLock(t) /\ HasLock(u) /\ arc[t] = arc[u] => t = u

FoundOK ==
  \A t \in Task : /\ pc[t] = "warm" => cached[arc[t]] # NoConn
                  /\ pc[t] = "connecting" => cached[arc[t]] = NoConn

UsingOK == \A t \in Task : conn[t] # NoConn <=> pc[t] = "using"

\* The slots of a drain are out of the map.
TodoOK == \A t \in Task : /\ todo[t] # {} => pc[t] = "draining"
                          /\ \A e \in Endpoint : slots[e] \notin todo[t]

\* A slot belongs to one endpoint, for the map and for all who cloned it.
HomeOK ==
  /\ \A d, e \in Endpoint : slots[d] = slots[e] /\ slots[d] # NoSlot => d = e
  /\ \A t \in Task, e \in Endpoint : arc[t] # NoSlot /\ arc[t] = slots[e] => at[t] = e
  /\ \A t, u \in Task : arc[t] # NoSlot /\ arc[t] = arc[u] => at[t] = at[u]

\* A connection belongs to one slot, and to that slot's endpoint.
CachedOnce == \A r, s \in Slot : cached[r] # NoConn /\ cached[r] = cached[s] => r = s

ConnHome ==
  \A t \in Task : pc[t] = "using" =>
    /\ \A u \in Task : pc[u] = "using" /\ conn[u] = conn[t] => at[u] = at[t]
    /\ \A e \in Endpoint : slots[e] # NoSlot /\ cached[slots[e]] = conn[t] => at[t] = e
    /\ \A u \in Task : arc[u] # NoSlot /\ cached[arc[u]] = conn[t] => at[t] = at[u]

\* A connection that is not retired is cached in the map, for its endpoint.
Mapped(s) == \E e \in Endpoint : slots[e] = s

LiveOK ==
  /\ \A s \in Slot : cached[s] # NoConn => cached[s] \in retired \/ Mapped(s)
  /\ \A t \in Task : pc[t] = "using" =>
       conn[t] \in retired \/ (slots[at[t]] # NoSlot /\ conn[t] = cached[slots[at[t]]])

IInv == /\ TypeOK /\ LockOK /\ FoundOK /\ UsingOK /\ TodoOK /\ HomeOK
        /\ CachedOnce /\ ConnHome /\ LiveOK

-----------------------------------------------------------------------------
\* The pool starts cold, with an empty map.
LEMMA InitIInv == Init => IInv
  <1> USE NoneAssumption, EndpointAssumption
  <1> SUFFICES ASSUME Init PROVE IInv
    OBVIOUS
  <1>1. 0 \in Endpoint /\ 0 \in 0 .. CursorMod-1
    BY DEF Endpoint
  <1>2. TypeOK
    BY <1>1 DEF Init, TypeOK, PC
  <1>. QED  BY <1>1, <1>2 DEF Init, IInv, LockOK, FoundOK, UsingOK, TodoOK, HomeOK, CachedOnce,
                         ConnHome, LiveOK, HasLock

\* What stays cached, and what stays retired.
LEMMA Cached ==
  ASSUME NEW new \in [Slot -> Conn \cup {NoConn}], Cache(new)
  PROVE  /\ cached' \in [Slot -> Conn \cup {NoConn}]
         /\ \A s \in Slot : /\ Referenced(s)' => cached'[s] = new[s]
                            /\ ~Referenced(s)' => cached'[s] = NoConn
                            /\ cached'[s] # NoConn => cached'[s] = new[s]
  BY DEF Cache

\* What is retired keeps whatever a slot or a task still holds.
LEMMA RetiredSet ==
  ASSUME TypeOK, NEW S \in SUBSET Conn, Retire(S)
  PROVE  /\ retired' \in SUBSET Conn
         /\ \A c \in retired \cup S :
              (\E s \in Slot : cached'[s] = c) \/ (\E t \in Task : conn'[t] = c) => c \in retired'
  BY DEF Retire, TypeOK, InUse

\* A task that leaves its slot takes no one else's lock or clone with it.
LEMMA LeaveKeeps ==
  ASSUME IInv, NEW t \in Task, NEW next \in {"idle", "using"}, Leave(t, next),
         pc[t] \in {"waiting", "warm", "connecting", "evicting"}
  PROVE  /\ arc \in [Task -> Slot \cup {NoSlot}] /\ arc[t] \in Slot
         /\ arc' = [arc EXCEPT ![t] = NoSlot]
         /\ pc' = [pc EXCEPT ![t] = next] /\ pc' \in [Task -> PC]
         /\ at' \in [Task -> Endpoint]
         /\ \A u \in Task \ {t} : at'[u] = at[u]
         /\ next = "using" => at'[t] = at[t]
         /\ locked' \in [Slot -> BOOLEAN]
         /\ \A s \in Slot : ~Referenced(s)' => ~locked'[s]
         /\ LockOK' /\ TodoOK' /\ HomeOK'
         /\ \A u \in Task : arc'[u] # NoSlot <=> pc'[u] \in {"waiting", "warm", "connecting", "evicting"}
  <1> USE NoneAssumption, EndpointAssumption
  <1>1. /\ arc \in [Task -> Slot \cup {NoSlot}] /\ arc[t] \in Slot
        /\ pc \in [Task -> PC] /\ at \in [Task -> Endpoint] /\ locked \in [Slot -> BOOLEAN]
        /\ \A u \in Task :
             arc[u] # NoSlot <=> pc[u] \in {"waiting", "warm", "connecting", "evicting"}
    BY DEF IInv, TypeOK
  <1>2. /\ arc' = [arc EXCEPT ![t] = NoSlot]
        /\ pc' = [pc EXCEPT ![t] = next]
        /\ locked' = [locked EXCEPT ![arc[t]] = locked[arc[t]] /\ pc[t] \in {"waiting", "evicting"}]
        /\ at' = [at EXCEPT ![t] = IF next = "using" THEN at[t] ELSE 0]
        /\ UNCHANGED <<cursor, slots, todo>>
    BY DEF Leave, Goto
  <1>3. 0 \in Endpoint
    BY DEF Endpoint
  <1>4. /\ pc' \in [Task -> PC] /\ at' \in [Task -> Endpoint]
        /\ \A u \in Task \ {t} : at'[u] = at[u] /\ pc'[u] = pc[u] /\ arc'[u] = arc[u]
        /\ next = "using" => at'[t] = at[t]
        /\ arc'[t] = NoSlot /\ pc'[t] = next
    BY <1>1, <1>2, <1>3 DEF PC
  <1>5. /\ locked' \in [Slot -> BOOLEAN]
        /\ \A s \in Slot : s # arc[t] => locked'[s] = locked[s]
        /\ locked'[arc[t]] <=> locked[arc[t]] /\ pc[t] \in {"waiting", "evicting"}
    BY <1>1, <1>2
  <1>6. LockOK'
    <2>1. ASSUME NEW s \in Slot, locked'[s]
          PROVE  \E u \in Task : HasLock(u)' /\ arc'[u] = s
      <3>1. locked[s] /\ (s = arc[t] => ~HasLock(t))
        BY <1>5, <2>1 DEF HasLock
      <3>2. PICK u \in Task : HasLock(u) /\ arc[u] = s
        BY <3>1 DEF IInv, LockOK
      <3>. QED  BY <1>4, <3>1, <3>2 DEF HasLock
    <2>2. ASSUME NEW u \in Task, HasLock(u)'
          PROVE  u # t /\ HasLock(u) /\ locked'[arc'[u]] /\ arc'[u] = arc[u]
      <3>1. u # t /\ HasLock(u) /\ arc'[u] = arc[u]
        BY <1>4, <2>2 DEF HasLock
      <3>2. locked[arc[u]] /\ (arc[u] = arc[t] => ~HasLock(t)) /\ arc[u] \in Slot
        BY <1>1, <3>1 DEF IInv, LockOK, HasLock
      <3>. QED  BY <1>5, <3>1, <3>2 DEF HasLock
    <2>3. \A u, v \in Task : HasLock(u)' /\ HasLock(v)' /\ arc'[u] = arc'[v] => u = v
      BY <2>2 DEF IInv, LockOK
    <2>. QED  BY <2>1, <2>2, <2>3 DEF LockOK
  <1>7. TodoOK'
    BY <1>2, <1>4 DEF IInv, TodoOK
  <1>8. HomeOK'
    BY <1>2, <1>4 DEF IInv, HomeOK
  <1>9. \A u \in Task : arc'[u] # NoSlot <=> pc'[u] \in {"waiting", "warm", "connecting", "evicting"}
    BY <1>1, <1>4
  <1>10. \A s \in Slot : ~Referenced(s)' => ~locked'[s]
    BY <1>6 DEF LockOK, Referenced
  <1>. QED  BY <1>1, <1>2, <1>4, <1>5, <1>6, <1>7, <1>8, <1>9, <1>10

\* slot() hands out the endpoint's own slot, or one nobody refers to.
LEMMA AcquireIInv ==
  ASSUME IInv, NEW t \in Task, Acquire(t)
  PROVE  IInv'
  <1> USE NoneAssumption, EndpointAssumption
  <1>1. cursor \in Nat /\ cursor % N \in Endpoint /\ (cursor + 1) % CursorMod \in 0 .. CursorMod-1
    BY DEF IInv, TypeOK, Endpoint
  <1>2. PICK e \in Endpoint, s \in Slot :
          /\ Lookup(e, s)
          /\ arc' = [arc EXCEPT ![t] = s]
          /\ at' = [at EXCEPT ![t] = e]
    BY <1>1 DEF Acquire
  <1>3. /\ pc[t] = "idle" /\ pc' = [pc EXCEPT ![t] = "waiting"] /\ arc[t] = NoSlot
        /\ cursor' \in 0 .. CursorMod-1
        /\ UNCHANGED <<cached, locked, conn, todo, retired>>
    BY <1>1 DEF Acquire, Goto, IInv, TypeOK
  <1>4. /\ slots'[e] = s /\ slots' \in [Endpoint -> Slot \cup {NoSlot}]
        /\ \A d \in Endpoint \ {e} : slots'[d] = slots[d]
        /\ slots[e] = s \/ (slots[e] = NoSlot /\ ~Referenced(s))
    BY <1>2 DEF Lookup, NewSlot, IInv, TypeOK
  <1>5. /\ arc'[t] = s /\ at'[t] = e /\ pc'[t] = "waiting"
        /\ \A u \in Task \ {t} : arc'[u] = arc[u] /\ at'[u] = at[u] /\ pc'[u] = pc[u]
    BY <1>2, <1>3 DEF IInv, TypeOK
  <1>6. slots[e] # s => /\ ~locked[s] /\ cached[s] = NoConn
                        /\ \A d \in Endpoint : slots[d] # s
                        /\ \A u \in Task : arc[u] # s /\ s \notin todo[u]
    BY <1>4 DEF IInv, TypeOK, Referenced
  <1>7. \A u \in Task : HasLock(u)' <=> HasLock(u)
    BY <1>3, <1>5 DEF HasLock
  <1>8. TypeOK'
    <2>1. \A r \in Slot : ~Referenced(r)' => ~Referenced(r)
      BY <1>3, <1>4, <1>5 DEF Referenced
    <2>2. /\ arc' \in [Task -> Slot \cup {NoSlot}] /\ at' \in [Task -> Endpoint] /\ pc' \in [Task -> PC]
          /\ \A u \in Task :
               arc'[u] # NoSlot <=> pc'[u] \in {"waiting", "warm", "connecting", "evicting"}
      BY <1>2, <1>3, <1>5 DEF IInv, TypeOK, PC
    <2>. QED  BY <1>3, <1>4, <2>1, <2>2 DEF IInv, TypeOK
  <1>9. LockOK'
    BY <1>3, <1>5, <1>7 DEF IInv, LockOK, HasLock
  <1>10. FoundOK' /\ UsingOK'
    BY <1>3, <1>5 DEF IInv, FoundOK, UsingOK
  <1>11. TodoOK'
    BY <1>3, <1>4, <1>5, <1>6 DEF IInv, TodoOK
  <1>12. HomeOK'
    <2>1. \A d, g \in Endpoint : slots'[d] = slots'[g] /\ slots'[d] # NoSlot => d = g
      BY <1>4, <1>6 DEF IInv, HomeOK
    <2>2. \A u \in Task, d \in Endpoint : arc'[u] # NoSlot /\ arc'[u] = slots'[d] => at'[u] = d
      BY <1>4, <1>5, <1>6 DEF IInv, HomeOK
    <2>3. \A u \in Task \ {t} : arc[u] = s => at[u] = e
      BY <1>6 DEF IInv, HomeOK
    <2>. QED  BY <1>5, <2>1, <2>2, <2>3 DEF IInv, HomeOK
  <1>13. CachedOnce'
    BY <1>3 DEF IInv, CachedOnce
  <1>14. ConnHome'
    <2> SUFFICES ASSUME NEW u \in Task, pc[u] = "using"
                 PROVE  /\ \A v \in Task : pc'[v] = "using" /\ conn[v] = conn[u] => at'[v] = at'[u]
                        /\ \A d \in Endpoint : slots'[d] # NoSlot /\ cached[slots'[d]] = conn[u] => at'[u] = d
                        /\ \A v \in Task : arc'[v] # NoSlot /\ cached[arc'[v]] = conn[u] => at'[u] = at'[v]
      BY <1>3, <1>5 DEF ConnHome
    <2>1. u # t /\ conn[u] # NoConn
      BY <1>3 DEF IInv, UsingOK
    <2>2. \A v \in Task : pc'[v] = "using" /\ conn[v] = conn[u] => at'[v] = at'[u]
      BY <1>5, <2>1 DEF IInv, ConnHome
    <2>3. cached[s] = conn[u] => at[u] = e
      BY <1>6, <2>1 DEF IInv, ConnHome
    <2>. QED  BY <1>4, <1>5, <2>1, <2>2, <2>3 DEF IInv, ConnHome
  <1>15. LiveOK'
    <2>1. \A r \in Slot : Mapped(r) => Mapped(r)'
      BY <1>4 DEF Mapped
    <2>2. \A u \in Task : at[u] \in Endpoint
      BY DEF IInv, TypeOK
    <2>. QED  BY <1>3, <1>4, <1>5, <1>6, <2>1, <2>2 DEF IInv, LiveOK
  <1>. QED  BY <1>8, <1>9, <1>10, <1>11, <1>12, <1>13, <1>14, <1>15 DEF IInv

\* A slot is locked by one task, which sees what it caches.
LEMMA LockIInv ==
  ASSUME IInv, NEW t \in Task, Lock(t)
  PROVE  IInv'
  <1> USE NoneAssumption
  <1>1. /\ pc[t] = "waiting" /\ ~locked[arc[t]] /\ arc[t] \in Slot
        /\ locked' = [locked EXCEPT ![arc[t]] = TRUE]
        /\ pc' = [pc EXCEPT ![t] = Found(arc[t])] /\ Found(arc[t]) \in {"warm", "connecting"}
        /\ UNCHANGED <<cursor, slots, cached, arc, conn, todo, at, retired>>
    BY DEF Lock, Goto, Found, IInv, TypeOK
  <1>2. /\ pc'[t] \in {"warm", "connecting"} /\ pc'[t] = Found(arc[t])
        /\ \A u \in Task \ {t} : pc'[u] = pc[u]
        /\ locked'[arc[t]] /\ \A s \in Slot : s # arc[t] => locked'[s] = locked[s]
    BY <1>1 DEF IInv, TypeOK
  <1>3. TypeOK'
    <2>1. \A s \in Slot : Referenced(s)' <=> Referenced(s)
      BY <1>1 DEF Referenced
    <2>2. Referenced(arc[t])
      BY DEF Referenced
    <2>3. \A s \in Slot : ~Referenced(s) => s # arc[t] /\ ~locked[s] /\ cached[s] = NoConn
      BY <2>2 DEF IInv, TypeOK
    <2>4. \A s \in Slot : ~Referenced(s)' => ~locked'[s] /\ cached[s] = NoConn
      BY <1>2, <2>1, <2>3
    <2>5. /\ locked' \in [Slot -> BOOLEAN] /\ pc' \in [Task -> PC]
          /\ \A u \in Task :
               arc[u] # NoSlot <=> pc'[u] \in {"waiting", "warm", "connecting", "evicting"}
      BY <1>1, <1>2 DEF IInv, TypeOK, PC
    <2>. QED  BY <1>1, <2>4, <2>5 DEF IInv, TypeOK
  <1>4. LockOK'
    <2>1. \A u \in Task : HasLock(u)' <=> HasLock(u) \/ u = t
      BY <1>2 DEF HasLock
    <2>2. \A u \in Task : HasLock(u) => arc[u] # arc[t] /\ arc[u] \in Slot
      BY <1>1 DEF IInv, TypeOK, LockOK, HasLock
    <2>. QED  BY <1>1, <1>2, <2>1, <2>2 DEF IInv, LockOK
  <1>5. FoundOK'
    BY <1>1, <1>2 DEF IInv, FoundOK, Found
  <1>6. UsingOK' /\ TodoOK' /\ HomeOK' /\ CachedOnce'
    BY <1>1, <1>2 DEF IInv, UsingOK, TodoOK, HomeOK, CachedOnce
  <1>7. ConnHome' /\ LiveOK'
    BY <1>1, <1>2 DEF IInv, ConnHome, LiveOK, Mapped
  <1>. QED  BY <1>3, <1>4, <1>5, <1>6, <1>7 DEF IInv

\* A warm connection is handed out at the slot's own endpoint.
LEMMA ReuseIInv ==
  ASSUME IInv, NEW t \in Task, Reuse(t)
  PROVE  IInv'
  <1> USE NoneAssumption
  <1> DEFINE s == arc[t]
             c == cached[arc[t]]
  <1>1. /\ pc[t] = "warm" /\ s \in Slot /\ c \in Conn /\ Leave(t, "using")
        /\ conn' = [conn EXCEPT ![t] = c] /\ Cache(cached) /\ Retire({})
        /\ UNCHANGED <<cursor, slots, todo>>
    BY DEF Reuse, Leave, IInv, TypeOK, FoundOK
  <1>2. /\ arc' = [arc EXCEPT ![t] = NoSlot]
        /\ pc' = [pc EXCEPT ![t] = "using"] /\ pc' \in [Task -> PC]
        /\ at' \in [Task -> Endpoint] /\ \A u \in Task : at'[u] = at[u]
        /\ locked' \in [Slot -> BOOLEAN]
        /\ \A r \in Slot : ~Referenced(r)' => ~locked'[r]
        /\ LockOK' /\ TodoOK' /\ HomeOK'
        /\ \A u \in Task : arc'[u] # NoSlot <=> pc'[u] \in {"waiting", "warm", "connecting", "evicting"}
    BY <1>1, LeaveKeeps
  <1>3. /\ cached' \in [Slot -> Conn \cup {NoConn}]
        /\ \A r \in Slot : /\ Referenced(r)' => cached'[r] = cached[r]
                           /\ ~Referenced(r)' => cached'[r] = NoConn
                           /\ cached'[r] # NoConn => cached'[r] = cached[r]
    BY <1>1, Cached DEF IInv, TypeOK
  <1>4. /\ retired' \in SUBSET Conn
        /\ \A d \in retired :
             (\E r \in Slot : cached'[r] = d) \/ (\E u \in Task : conn'[u] = d) => d \in retired'
    BY <1>1, RetiredSet DEF IInv
  <1> HIDE DEF s, c
  <1>5. /\ conn' \in [Task -> Conn \cup {NoConn}] /\ conn'[t] = c /\ pc'[t] = "using" /\ arc'[t] = NoSlot
        /\ \A u \in Task \ {t} : conn'[u] = conn[u] /\ pc'[u] = pc[u] /\ arc'[u] = arc[u]
        /\ arc' \in [Task -> Slot \cup {NoSlot}]
    BY <1>1, <1>2 DEF IInv, TypeOK
  <1>6. /\ \A u \in Task : arc'[u] \in Slot => cached'[arc'[u]] = cached[arc'[u]]
        /\ \A e \in Endpoint : slots[e] \in Slot => cached'[slots[e]] = cached[slots[e]]
    BY <1>1, <1>3 DEF Referenced
  <1>7. /\ \A e \in Endpoint : slots[e] \in Slot \cup {NoSlot}
        /\ \A u \in Task : arc'[u] \in Slot \cup {NoSlot} /\ at[u] \in Endpoint
    BY <1>5 DEF IInv, TypeOK
  <1>8. TypeOK'
    BY <1>1, <1>2, <1>3, <1>4, <1>5 DEF IInv, TypeOK
  <1>9. FoundOK'
    BY <1>5, <1>6, <1>7, <1>2 DEF IInv, FoundOK
  <1>10. UsingOK'
    BY <1>1, <1>5 DEF IInv, UsingOK
  <1>11. CachedOnce'
    BY <1>3 DEF IInv, CachedOnce
  <1>12. ConnHome'
    <2>1. \A u \in Task : pc[u] = "using" /\ conn[u] = c => at[u] = at[t]
      BY <1>1 DEF IInv, ConnHome, s, c
    <2>2. \A e \in Endpoint : slots[e] # NoSlot /\ cached[slots[e]] = c => at[t] = e
      BY <1>1, <1>7 DEF IInv, CachedOnce, HomeOK, s, c
    <2>3. \A u \in Task : arc'[u] # NoSlot /\ cached[arc'[u]] = c => at[t] = at[u]
      BY <1>1, <1>5, <1>7 DEF IInv, CachedOnce, HomeOK, s, c
    <2> SUFFICES ASSUME NEW u \in Task, pc'[u] = "using"
                 PROVE  /\ \A v \in Task : pc'[v] = "using" /\ conn'[v] = conn'[u] => at[v] = at[u]
                        /\ \A e \in Endpoint : slots[e] # NoSlot /\ cached[slots[e]] = conn'[u] => at[u] = e
                        /\ \A v \in Task : arc'[v] # NoSlot /\ cached[arc'[v]] = conn'[u] => at[u] = at[v]
      BY <1>1, <1>2, <1>6, <1>7 DEF ConnHome
    <2>4. CASE u = t
      BY <1>5, <2>1, <2>2, <2>3, <2>4
    <2>5. CASE u # t
      BY <1>5, <2>1, <2>5 DEF IInv, ConnHome
    <2>. QED  BY <2>4, <2>5
  <1>13. LiveOK'
    <2>1. \A r \in Slot : Mapped(r)' <=> Mapped(r)
      BY <1>1 DEF Mapped
    <2>4. \A r \in Slot : cached'[r] # NoConn => cached'[r] \in retired' \/ Mapped(r)'
      BY <1>3, <1>4, <2>1 DEF IInv, LiveOK
    <2>5. c \in retired \/ (slots[at[t]] # NoSlot /\ c = cached[slots[at[t]]])
      <3>1. c \in retired \/ Mapped(s)
        BY <1>1 DEF IInv, LiveOK, s, c
      <3>2. ASSUME NEW e \in Endpoint, slots[e] = s
            PROVE  at[t] = e
        BY <1>1, <3>2 DEF IInv, HomeOK, s
      <3>. QED  BY <1>1, <3>1, <3>2 DEF Mapped, s, c
    <2>6. ASSUME NEW u \in Task, pc'[u] = "using"
          PROVE  conn'[u] \in retired' \/ (slots[at[u]] # NoSlot /\ conn'[u] = cached'[slots[at[u]]])
      <3>1. conn'[u] \in retired \/ (slots[at[u]] # NoSlot /\ conn'[u] = cached[slots[at[u]]])
        BY <1>5, <2>5, <2>6 DEF IInv, LiveOK
      <3>. QED  BY <1>4, <1>6, <1>7, <3>1
    <2>. QED  BY <1>1, <1>2, <2>4, <2>6 DEF LiveOK
  <1>. QED  BY <1>2, <1>8, <1>9, <1>10, <1>11, <1>12, <1>13 DEF IInv

\* A new connection goes into the one slot its caller has locked; it is retired
\* at once if that slot is no longer in the map.
LEMMA ConnectedIInv ==
  ASSUME IInv, NEW t \in Task, Connected(t)
  PROVE  IInv'
  <1> USE NoneAssumption
  <1> DEFINE s == arc[t]
  <1>1. PICK c \in Conn :
          /\ NewConn(c) /\ conn' = [conn EXCEPT ![t] = c]
          /\ Cache([cached EXCEPT ![arc[t]] = c])
          /\ Retire(IF slots[at[t]] = arc[t] THEN {} ELSE {c})
    BY DEF Connected
  <1>2. /\ pc[t] = "connecting" /\ s \in Slot /\ cached[s] = NoConn /\ Leave(t, "using")
        /\ UNCHANGED <<cursor, slots, todo>>
    BY DEF Connected, Leave, IInv, TypeOK, FoundOK
  <1>3. /\ arc' = [arc EXCEPT ![t] = NoSlot]
        /\ pc' = [pc EXCEPT ![t] = "using"] /\ pc' \in [Task -> PC]
        /\ at' \in [Task -> Endpoint] /\ \A u \in Task : at'[u] = at[u]
        /\ locked' \in [Slot -> BOOLEAN]
        /\ \A r \in Slot : ~Referenced(r)' => ~locked'[r]
        /\ LockOK' /\ TodoOK' /\ HomeOK'
        /\ \A u \in Task : arc'[u] # NoSlot <=> pc'[u] \in {"waiting", "warm", "connecting", "evicting"}
    BY <1>2, LeaveKeeps
  <1>4. /\ cached' \in [Slot -> Conn \cup {NoConn}]
        /\ \A r \in Slot : /\ Referenced(r)' /\ r # s => cached'[r] = cached[r]
                           /\ Referenced(r)' /\ r = s => cached'[r] = c
                           /\ ~Referenced(r)' => cached'[r] = NoConn
                           /\ cached'[r] # NoConn => cached'[r] = IF r = s THEN c ELSE cached[r]
    <2>1. [cached EXCEPT ![arc[t]] = c] \in [Slot -> Conn \cup {NoConn}]
      BY <1>2 DEF IInv, TypeOK
    <2>. QED  BY <1>1, <1>2, <2>1, Cached DEF IInv, TypeOK
  <1>5. /\ retired' \in SUBSET Conn
        /\ \A d \in retired \cup (IF slots[at[t]] = s THEN {} ELSE {c}) :
             (\E r \in Slot : cached'[r] = d) \/ (\E u \in Task : conn'[u] = d) => d \in retired'
    BY <1>1, RetiredSet DEF IInv
  <1>6. /\ \A r \in Slot : cached[r] # c
        /\ \A u \in Task : conn[u] # c
    BY <1>1 DEF NewConn, InUse
  <1> HIDE DEF s
  <1>7. /\ conn' \in [Task -> Conn \cup {NoConn}] /\ conn'[t] = c /\ pc'[t] = "using" /\ arc'[t] = NoSlot
        /\ \A u \in Task \ {t} : conn'[u] = conn[u] /\ pc'[u] = pc[u] /\ arc'[u] = arc[u]
        /\ arc' \in [Task -> Slot \cup {NoSlot}]
    BY <1>1, <1>3 DEF IInv, TypeOK
  <1>8. /\ \A u \in Task : arc'[u] \in Slot => cached'[arc'[u]] = IF arc'[u] = s THEN c ELSE cached[arc'[u]]
        /\ \A e \in Endpoint : slots[e] \in Slot => cached'[slots[e]] = IF slots[e] = s THEN c ELSE cached[slots[e]]
    BY <1>2, <1>4 DEF Referenced
  <1>9. /\ \A e \in Endpoint : slots[e] \in Slot \cup {NoSlot}
        /\ \A u \in Task : arc'[u] \in Slot \cup {NoSlot} /\ at[u] \in Endpoint
    BY <1>7 DEF IInv, TypeOK
  <1>10. TypeOK'
    BY <1>2, <1>3, <1>4, <1>5, <1>7 DEF IInv, TypeOK
  <1>11. FoundOK'
    <2>1. \A u \in Task \ {t} : HasLock(u) => arc[u] # s
      BY <1>2 DEF IInv, LockOK, HasLock, s
    <2>. QED  BY <1>3, <1>7, <1>8, <1>9, <2>1 DEF IInv, FoundOK, HasLock
  <1>12. UsingOK'
    BY <1>2, <1>7 DEF IInv, UsingOK
  <1>13. CachedOnce'
    BY <1>4, <1>6 DEF IInv, CachedOnce
  <1>14. ConnHome'
    <2>1. \A e \in Endpoint : slots[e] = s => at[t] = e
      BY <1>2 DEF IInv, HomeOK, s
    <2>2. \A u \in Task : arc'[u] = s => at[t] = at[u]
      BY <1>2, <1>7 DEF IInv, HomeOK, s
    <2> SUFFICES ASSUME NEW u \in Task, pc'[u] = "using"
                 PROVE  /\ \A v \in Task : pc'[v] = "using" /\ conn'[v] = conn'[u] => at[v] = at[u]
                        /\ \A e \in Endpoint : slots[e] # NoSlot /\ cached'[slots[e]] = conn'[u] => at[u] = e
                        /\ \A v \in Task : arc'[v] # NoSlot /\ cached'[arc'[v]] = conn'[u] => at[u] = at[v]
      BY <1>2, <1>3 DEF ConnHome
    <2>3. CASE u = t
      BY <1>6, <1>7, <1>8, <1>9, <2>1, <2>2, <2>3
    <2>4. CASE u # t
      BY <1>6, <1>7, <1>8, <1>9, <2>4 DEF IInv, ConnHome
    <2>. QED  BY <2>3, <2>4
  <1>15. LiveOK'
    <2>1. \A r \in Slot : Mapped(r)' <=> Mapped(r)
      BY <1>2 DEF Mapped
    <2>2. \A r \in Slot : cached'[r] # NoConn => cached'[r] \in retired' \/ Mapped(r)'
      <3>1. slots[at[t]] = s => Mapped(s)
        BY <1>9 DEF Mapped
      <3>. QED  BY <1>2, <1>4, <1>5, <2>1, <3>1 DEF IInv, LiveOK
    <2>3. ASSUME NEW u \in Task, pc'[u] = "using"
          PROVE  conn'[u] \in retired' \/ (slots[at[u]] # NoSlot /\ conn'[u] = cached'[slots[at[u]]])
      <3>1. CASE u = t
        BY <1>2, <1>5, <1>7, <1>8, <1>9, <3>1
      <3>2. CASE u # t
        <4>1. conn[u] # NoConn
          BY <1>7, <2>3, <3>2 DEF IInv, UsingOK
        <4>2. conn[u] \in retired \/ (slots[at[u]] # NoSlot /\ conn[u] = cached[slots[at[u]]])
          BY <1>7, <2>3, <3>2 DEF IInv, LiveOK
        <4>. QED  BY <1>2, <1>5, <1>7, <1>8, <1>9, <3>2, <4>1, <4>2
      <3>. QED  BY <3>1, <3>2
    <2>. QED  BY <1>2, <1>3, <2>2, <2>3 DEF LiveOK
  <1>. QED  BY <1>3, <1>10, <1>11, <1>12, <1>13, <1>14, <1>15 DEF IInv

\* A step that makes no connection and no slot: what is taken out of a slot is
\* retired or out of the map, and never under another task's lock.
LEMMA CacheShrinks ==
  ASSUME IInv, UNCHANGED <<conn, slots>>,
         \A u \in Task : /\ pc'[u] = "using" <=> pc[u] = "using"
                         /\ pc'[u] = "using" => at'[u] = at[u]
                         /\ HasLock(u)' => pc'[u] = pc[u]
                         /\ arc'[u] # NoSlot => arc'[u] = arc[u] /\ at'[u] = at[u],
         \A u \in Task : HasLock(u)' => arc'[u] = arc[u] /\ cached'[arc[u]] = cached[arc[u]],
         \A r \in Slot : cached'[r] # NoConn => cached'[r] = cached[r],
         \A e \in Endpoint : slots[e] # NoSlot /\ cached'[slots[e]] # cached[slots[e]] =>
           \A u \in Task : conn[u] = cached[slots[e]] => conn[u] \in retired',
         \A d \in retired :
           (\E r \in Slot : cached'[r] = d) \/ (\E u \in Task : conn[u] = d) => d \in retired'
  PROVE  FoundOK' /\ UsingOK' /\ CachedOnce' /\ ConnHome' /\ LiveOK'
  <1> USE NoneAssumption
  <1>1. FoundOK' /\ UsingOK' /\ CachedOnce'
    BY DEF IInv, FoundOK, UsingOK, CachedOnce, HasLock
  <1>2. /\ \A e \in Endpoint : slots[e] \in Slot \cup {NoSlot}
        /\ \A u \in Task : at[u] \in Endpoint /\ arc[u] \in Slot \cup {NoSlot}
    BY DEF IInv, TypeOK
  <1>3. ConnHome'
    <2> SUFFICES ASSUME NEW u \in Task, pc'[u] = "using"
                 PROVE  /\ \A v \in Task : pc'[v] = "using" /\ conn[v] = conn[u] => at'[v] = at'[u]
                        /\ \A e \in Endpoint : slots[e] # NoSlot /\ cached'[slots[e]] = conn[u] => at'[u] = e
                        /\ \A v \in Task : arc'[v] # NoSlot /\ cached'[arc'[v]] = conn[u] => at'[u] = at'[v]
      BY DEF ConnHome
    <2>1. pc[u] = "using" /\ at'[u] = at[u] /\ conn[u] # NoConn
      BY DEF IInv, UsingOK
    <2>. QED  BY <1>2, <2>1 DEF IInv, ConnHome
  <1>4. LiveOK'
    <2>1. \A r \in Slot : Mapped(r)' <=> Mapped(r)
      BY DEF Mapped
    <2>2. \A r \in Slot : cached'[r] # NoConn => cached'[r] \in retired' \/ Mapped(r)'
      BY <2>1 DEF IInv, LiveOK
    <2>3. ASSUME NEW u \in Task, pc'[u] = "using"
          PROVE  conn[u] \in retired' \/ (slots[at'[u]] # NoSlot /\ conn[u] = cached'[slots[at'[u]]])
      BY <1>2, <2>3 DEF IInv, LiveOK
    <2>. QED  BY <2>2, <2>3 DEF LiveOK
  <1>. QED  BY <1>1, <1>3, <1>4

\* A connect that failed leaves a cold slot.
LEMMA ConnectFailsIInv ==
  ASSUME IInv, NEW t \in Task, ConnectFails(t)
  PROVE  IInv'
  <1> USE NoneAssumption
  <1>1. /\ pc[t] = "connecting" /\ arc[t] \in Slot /\ cached[arc[t]] = NoConn
        /\ Leave(t, "idle") /\ UNCHANGED <<cached, conn, retired, cursor, slots, todo>>
    BY DEF ConnectFails, Leave, IInv, TypeOK, FoundOK
  <1>2. /\ arc' = [arc EXCEPT ![t] = NoSlot] /\ arc \in [Task -> Slot \cup {NoSlot}]
        /\ pc' = [pc EXCEPT ![t] = "idle"] /\ pc' \in [Task -> PC]
        /\ at' \in [Task -> Endpoint] /\ \A u \in Task \ {t} : at'[u] = at[u]
        /\ locked' \in [Slot -> BOOLEAN]
        /\ \A r \in Slot : ~Referenced(r)' => ~locked'[r]
        /\ LockOK' /\ TodoOK' /\ HomeOK'
        /\ \A u \in Task : arc'[u] # NoSlot <=> pc'[u] \in {"waiting", "warm", "connecting", "evicting"}
    BY <1>1, LeaveKeeps
  <1>3. /\ arc'[t] = NoSlot /\ pc'[t] = "idle" /\ pc \in [Task -> PC]
        /\ \A u \in Task \ {t} : arc'[u] = arc[u] /\ pc'[u] = pc[u]
    BY <1>2 DEF IInv, TypeOK
  <1>4. \A r \in Slot : ~Referenced(r)' => cached'[r] = NoConn
    <2> SUFFICES ASSUME NEW r \in Slot, ~Referenced(r)', r # arc[t]
                 PROVE  cached[r] = NoConn
      BY <1>1
    <2>1. ~Referenced(r)
      BY <1>1, <1>3 DEF Referenced
    <2>. QED  BY <2>1 DEF IInv, TypeOK
  <1>5. TypeOK'
    <2>1. arc' \in [Task -> Slot \cup {NoSlot}]
      BY <1>2
    <2>. QED  BY <1>1, <1>2, <1>4, <2>1 DEF IInv, TypeOK
  <1>6. FoundOK' /\ UsingOK' /\ CachedOnce' /\ ConnHome' /\ LiveOK'
    <2>1. \A u \in Task : HasLock(u)' => u # t
      BY <1>3 DEF HasLock
    <2>. QED  BY <1>1, <1>2, <1>3, <2>1, CacheShrinks
  <1>. QED  BY <1>2, <1>5, <1>6 DEF IInv

\* A waiter that is gone leaves what others refer to as it was.
LEMMA CancelWaitIInv ==
  ASSUME IInv, NEW t \in Task, CancelWait(t)
  PROVE  IInv'
  <1> USE NoneAssumption
  <1>1. /\ pc[t] \in {"waiting", "evicting"} /\ Leave(t, "idle")
        /\ Cache(cached) /\ Retire({}) /\ UNCHANGED <<conn, cursor, slots, todo>>
    BY DEF CancelWait, Leave
  <1>2. /\ arc' = [arc EXCEPT ![t] = NoSlot] /\ arc \in [Task -> Slot \cup {NoSlot}]
        /\ pc' = [pc EXCEPT ![t] = "idle"] /\ pc' \in [Task -> PC]
        /\ at' \in [Task -> Endpoint] /\ \A u \in Task \ {t} : at'[u] = at[u]
        /\ locked' \in [Slot -> BOOLEAN]
        /\ \A r \in Slot : ~Referenced(r)' => ~locked'[r]
        /\ LockOK' /\ TodoOK' /\ HomeOK'
        /\ \A u \in Task : arc'[u] # NoSlot <=> pc'[u] \in {"waiting", "warm", "connecting", "evicting"}
    BY <1>1, LeaveKeeps
  <1>3. /\ arc'[t] = NoSlot /\ pc'[t] = "idle" /\ pc \in [Task -> PC]
        /\ arc' \in [Task -> Slot \cup {NoSlot}]
        /\ \A u \in Task \ {t} : arc'[u] = arc[u] /\ pc'[u] = pc[u]
    BY <1>2 DEF IInv, TypeOK
  <1>4. /\ cached' \in [Slot -> Conn \cup {NoConn}]
        /\ \A r \in Slot : /\ Referenced(r)' => cached'[r] = cached[r]
                           /\ ~Referenced(r)' => cached'[r] = NoConn
                           /\ cached'[r] # NoConn => cached'[r] = cached[r]
    BY <1>1, Cached DEF IInv, TypeOK
  <1>5. /\ retired' \in SUBSET Conn
        /\ \A d \in retired :
             (\E r \in Slot : cached'[r] = d) \/ (\E u \in Task : conn[u] = d) => d \in retired'
    BY <1>1, RetiredSet DEF IInv
  <1>6. /\ \A u \in Task : arc'[u] \in Slot => cached'[arc'[u]] = cached[arc'[u]]
        /\ \A e \in Endpoint : slots[e] \in Slot => cached'[slots[e]] = cached[slots[e]]
    BY <1>1, <1>4 DEF Referenced
  <1>7. TypeOK'
    BY <1>1, <1>2, <1>3, <1>4, <1>5 DEF IInv, TypeOK
  <1>8. FoundOK' /\ UsingOK' /\ CachedOnce' /\ ConnHome' /\ LiveOK'
    <2>1. \A u \in Task : HasLock(u)' => u # t /\ pc'[u] = pc[u] /\ arc'[u] = arc[u] /\ arc'[u] \in Slot
      BY <1>2, <1>3 DEF HasLock
    <2>2. \A e \in Endpoint : slots[e] \in Slot \cup {NoSlot}
      BY DEF IInv, TypeOK
    <2>. QED  BY <1>1, <1>2, <1>3, <1>4, <1>5, <1>6, <2>1, <2>2, CacheShrinks
  <1>. QED  BY <1>2, <1>7, <1>8 DEF IInv

\* evict() takes a connection out of a slot nobody has locked, and retires it.
LEMMA EvictTakeIInv ==
  ASSUME IInv, NEW t \in Task, EvictTake(t)
  PROVE  IInv'
  <1> USE NoneAssumption
  <1>1. /\ pc[t] = "evicting" /\ Leave(t, "idle") /\ arc[t] \in Slot /\ ~locked[arc[t]]
        /\ Cache([cached EXCEPT ![arc[t]] = NoConn]) /\ Retire({cached[arc[t]]} \ {NoConn})
        /\ UNCHANGED <<conn, cursor, slots, todo>>
    BY DEF EvictTake, Leave, IInv, TypeOK
  <1>2. /\ arc' = [arc EXCEPT ![t] = NoSlot] /\ arc \in [Task -> Slot \cup {NoSlot}]
        /\ pc' = [pc EXCEPT ![t] = "idle"] /\ pc' \in [Task -> PC]
        /\ at' \in [Task -> Endpoint] /\ \A u \in Task \ {t} : at'[u] = at[u]
        /\ locked' \in [Slot -> BOOLEAN]
        /\ \A r \in Slot : ~Referenced(r)' => ~locked'[r]
        /\ LockOK' /\ TodoOK' /\ HomeOK'
        /\ \A u \in Task : arc'[u] # NoSlot <=> pc'[u] \in {"waiting", "warm", "connecting", "evicting"}
    BY <1>1, LeaveKeeps
  <1>3. /\ arc'[t] = NoSlot /\ pc'[t] = "idle" /\ pc \in [Task -> PC]
        /\ arc' \in [Task -> Slot \cup {NoSlot}]
        /\ \A u \in Task \ {t} : arc'[u] = arc[u] /\ pc'[u] = pc[u]
    BY <1>2 DEF IInv, TypeOK
  <1>4. /\ cached' \in [Slot -> Conn \cup {NoConn}]
        /\ \A r \in Slot : /\ Referenced(r)' /\ r # arc[t] => cached'[r] = cached[r]
                           /\ ~Referenced(r)' => cached'[r] = NoConn
                           /\ cached'[r] # NoConn => cached'[r] = cached[r]
    <2>1. [cached EXCEPT ![arc[t]] = NoConn] \in [Slot -> Conn \cup {NoConn}]
      BY <1>1 DEF IInv, TypeOK
    <2>. QED  BY <1>1, <2>1, Cached DEF IInv, TypeOK
  <1>5. /\ retired' \in SUBSET Conn
        /\ \A d \in retired \cup ({cached[arc[t]]} \ {NoConn}) :
             (\E r \in Slot : cached'[r] = d) \/ (\E u \in Task : conn[u] = d) => d \in retired'
    <2>1. {cached[arc[t]]} \ {NoConn} \in SUBSET Conn
      BY <1>1 DEF IInv, TypeOK
    <2>. QED  BY <1>1, <2>1, RetiredSet DEF IInv
  <1>6. /\ \A u \in Task : arc'[u] \in Slot /\ arc'[u] # arc[t] => cached'[arc'[u]] = cached[arc'[u]]
        /\ \A e \in Endpoint : slots[e] \in Slot /\ slots[e] # arc[t] => cached'[slots[e]] = cached[slots[e]]
    BY <1>1, <1>4 DEF Referenced
  <1>7. TypeOK'
    BY <1>1, <1>2, <1>3, <1>4, <1>5 DEF IInv, TypeOK
  <1>8. FoundOK' /\ UsingOK' /\ CachedOnce' /\ ConnHome' /\ LiveOK'
    <2>1. \A u \in Task : HasLock(u)' => u # t /\ pc'[u] = pc[u] /\ arc'[u] = arc[u] /\ arc'[u] \in Slot
      BY <1>2, <1>3 DEF HasLock
    <2>2. \A u \in Task : HasLock(u)' => arc'[u] # arc[t]
      BY <1>1, <2>1 DEF IInv, LockOK, HasLock
    <2>3. \A e \in Endpoint : slots[e] \in Slot \cup {NoSlot}
      BY DEF IInv, TypeOK
    <2>4. \A u \in Task : conn[u] = cached[arc[t]] => conn[u] \in retired' \/ conn[u] = NoConn
      BY <1>5
    <2>5. ASSUME NEW e \in Endpoint, slots[e] # NoSlot, cached'[slots[e]] # cached[slots[e]]
          PROVE  \A u \in Task : conn[u] = cached[slots[e]] => conn[u] \in retired'
      <3>1. slots[e] = arc[t] /\ cached[arc[t]] # NoConn
        BY <1>1, <1>4, <1>6, <2>3, <2>5
      <3>. QED  BY <2>4, <3>1
    <2>. QED  BY <1>1, <1>2, <1>3, <1>4, <1>5, <1>6, <2>1, <2>2, <2>3, <2>5, CacheShrinks
  <1>. QED  BY <1>2, <1>7, <1>8 DEF IInv

\* The caller drops its clone: a connection nobody else has is gone.
LEMMA DiscardIInv ==
  ASSUME IInv, NEW t \in Task, Discard(t)
  PROVE  IInv'
  <1> USE NoneAssumption, EndpointAssumption
  <1>1. /\ pc[t] = "using" /\ conn' = [conn EXCEPT ![t] = NoConn]
        /\ at' = [at EXCEPT ![t] = 0] /\ pc' = [pc EXCEPT ![t] = "idle"]
        /\ Retire({}) /\ UNCHANGED <<cursor, slots, cached, locked, arc, todo>>
    BY DEF Discard, Goto
  <1>2. /\ conn'[t] = NoConn /\ pc'[t] = "idle" /\ arc[t] = NoSlot
        /\ \A u \in Task \ {t} : conn'[u] = conn[u] /\ at'[u] = at[u] /\ pc'[u] = pc[u]
        /\ \A u \in Task : HasLock(u)' <=> HasLock(u)
    BY <1>1 DEF IInv, TypeOK, HasLock
  <1>3. /\ retired' \in SUBSET Conn
        /\ \A d \in retired :
             (\E r \in Slot : cached[r] = d) \/ (\E u \in Task : conn'[u] = d) => d \in retired'
    BY <1>1, RetiredSet DEF IInv
  <1>4. TypeOK'
    <2>1. \A r \in Slot : Referenced(r)' <=> Referenced(r)
      BY <1>1 DEF Referenced
    <2>2. /\ conn' \in [Task -> Conn \cup {NoConn}] /\ at' \in [Task -> Endpoint] /\ pc' \in [Task -> PC]
          /\ \A u \in Task :
               arc[u] # NoSlot <=> pc'[u] \in {"waiting", "warm", "connecting", "evicting"}
      BY <1>1, <1>2 DEF IInv, TypeOK, PC, Endpoint
    <2>. QED  BY <1>1, <1>3, <2>1, <2>2 DEF IInv, TypeOK
  <1>5. LockOK'
    BY <1>1, <1>2 DEF IInv, LockOK
  <1>6. FoundOK' /\ UsingOK'
    BY <1>1, <1>2 DEF IInv, FoundOK, UsingOK
  <1>7. TodoOK' /\ HomeOK' /\ CachedOnce'
    BY <1>1, <1>2 DEF IInv, TodoOK, HomeOK, CachedOnce
  <1>8. ConnHome'
    BY <1>1, <1>2 DEF IInv, ConnHome
  <1>9. LiveOK'
    BY <1>1, <1>2, <1>3 DEF IInv, LiveOK, Mapped
  <1>. QED  BY <1>4, <1>5, <1>6, <1>7, <1>8, <1>9 DEF IInv

\* evict() clones the slot the map has for the endpoint.
LEMMA EvictIInv ==
  ASSUME IInv, NEW t \in Task, NEW e \in Endpoint, Evict(t, e)
  PROVE  IInv'
  <1> USE NoneAssumption
  <1>1. /\ pc[t] = "idle" /\ slots[e] # NoSlot /\ slots[e] \in Slot /\ arc[t] = NoSlot
        /\ arc' = [arc EXCEPT ![t] = slots[e]]
        /\ at' = [at EXCEPT ![t] = e] /\ pc' = [pc EXCEPT ![t] = "evicting"]
        /\ UNCHANGED <<cursor, slots, cached, locked, conn, todo, retired>>
    BY DEF Evict, Goto, IInv, TypeOK
  <1>2. /\ arc'[t] = slots[e] /\ at'[t] = e /\ pc'[t] = "evicting"
        /\ \A u \in Task \ {t} : arc'[u] = arc[u] /\ at'[u] = at[u] /\ pc'[u] = pc[u]
        /\ \A u \in Task : HasLock(u)' <=> HasLock(u)
    BY <1>1 DEF IInv, TypeOK, HasLock
  <1>3. TypeOK'
    <2>1. \A r \in Slot : ~Referenced(r)' => ~Referenced(r)
      BY <1>1, <1>2 DEF Referenced
    <2>2. /\ arc' \in [Task -> Slot \cup {NoSlot}] /\ at' \in [Task -> Endpoint] /\ pc' \in [Task -> PC]
          /\ \A u \in Task :
               arc'[u] # NoSlot <=> pc'[u] \in {"waiting", "warm", "connecting", "evicting"}
      BY <1>1, <1>2 DEF IInv, TypeOK, PC
    <2>. QED  BY <1>1, <2>1, <2>2 DEF IInv, TypeOK
  <1>4. LockOK'
    BY <1>1, <1>2 DEF IInv, LockOK, HasLock
  <1>5. FoundOK' /\ UsingOK' /\ TodoOK' /\ CachedOnce'
    BY <1>1, <1>2 DEF IInv, FoundOK, UsingOK, TodoOK, CachedOnce
  <1>6. HomeOK'
    BY <1>1, <1>2 DEF IInv, HomeOK
  <1>7. ConnHome'
    BY <1>1, <1>2 DEF IInv, ConnHome
  <1>8. LiveOK'
    BY <1>1, <1>2 DEF IInv, LiveOK, Mapped
  <1>. QED  BY <1>3, <1>4, <1>5, <1>6, <1>7, <1>8 DEF IInv

-----------------------------------------------------------------------------
\* drain() empties the map, and every connection in use is retired with it.
LEMMA DetachIInv ==
  ASSUME IInv, NEW t \in Task, Detach(t)
  PROVE  IInv'
  <1> USE NoneAssumption
  <1>1. /\ pc[t] = "idle" /\ arc[t] = NoSlot
        /\ todo' = [todo EXCEPT ![t] = {slots[e] : e \in Endpoint} \ {NoSlot}]
        /\ slots' = [e \in Endpoint |-> NoSlot]
        /\ pc' = [pc EXCEPT ![t] = "draining"] /\ Retire(Conn)
        /\ UNCHANGED <<cursor, cached, locked, arc, conn, at>>
    BY DEF Detach, Goto, IInv, TypeOK
  <1>2. /\ pc'[t] = "draining" /\ todo'[t] = {slots[e] : e \in Endpoint} \ {NoSlot}
        /\ \A u \in Task \ {t} : pc'[u] = pc[u] /\ todo'[u] = todo[u]
        /\ \A u \in Task : HasLock(u)' <=> HasLock(u)
        /\ \A e \in Endpoint : slots'[e] = NoSlot
    BY <1>1 DEF IInv, TypeOK, HasLock
  <1>3. /\ retired' \in SUBSET Conn
        /\ \A d \in Conn :
             (\E r \in Slot : cached[r] = d) \/ (\E u \in Task : conn[u] = d) => d \in retired'
    BY <1>1, RetiredSet DEF IInv
  <1>4. todo' \in [Task -> SUBSET Slot]
    BY <1>1 DEF IInv, TypeOK
  <1>5. TypeOK'
    <2>1. \A r \in Slot : Referenced(r) => Referenced(r)'
      BY <1>1, <1>2 DEF Referenced, IInv, TodoOK
    <2>2. /\ slots' \in [Endpoint -> Slot \cup {NoSlot}] /\ pc' \in [Task -> PC]
          /\ \A u \in Task :
               arc[u] # NoSlot <=> pc'[u] \in {"waiting", "warm", "connecting", "evicting"}
      BY <1>1, <1>2 DEF IInv, TypeOK, PC
    <2>. QED  BY <1>1, <1>3, <1>4, <2>1, <2>2 DEF IInv, TypeOK
  <1>6. LockOK' /\ FoundOK' /\ UsingOK' /\ CachedOnce'
    BY <1>1, <1>2 DEF IInv, LockOK, FoundOK, UsingOK, CachedOnce
  <1>7. TodoOK'
    BY <1>2, <1>4 DEF IInv, TodoOK
  <1>8. HomeOK' /\ ConnHome'
    BY <1>1, <1>2 DEF IInv, HomeOK, ConnHome
  <1>9. LiveOK'
    BY <1>1, <1>2, <1>3 DEF IInv, TypeOK, LiveOK, UsingOK
  <1>. QED  BY <1>5, <1>6, <1>7, <1>8, <1>9 DEF IInv

\* drain() skips a slot that is locked, and touches none that is in the map.
LEMMA DrainSlotIInv ==
  ASSUME IInv, NEW t \in Task, NEW s \in Slot, DrainSlot(t, s)
  PROVE  IInv'
  <1> USE NoneAssumption
  <1>1. /\ s \in todo[t] /\ todo' = [todo EXCEPT ![t] = todo[t] \ {s}]
        /\ Cache([cached EXCEPT ![s] = IF locked[s] THEN cached[s] ELSE NoConn]) /\ Retire({})
        /\ UNCHANGED <<cursor, slots, locked, arc, conn, at, pc>>
    BY DEF DrainSlot
  <1>2. /\ cached' \in [Slot -> Conn \cup {NoConn}]
        /\ \A r \in Slot : /\ Referenced(r)' /\ (r # s \/ locked[r]) => cached'[r] = cached[r]
                           /\ ~Referenced(r)' => cached'[r] = NoConn
                           /\ cached'[r] # NoConn => cached'[r] = cached[r]
    <2>1. [cached EXCEPT ![s] = IF locked[s] THEN cached[s] ELSE NoConn] \in [Slot -> Conn \cup {NoConn}]
      BY DEF IInv, TypeOK
    <2> DEFINE new == [cached EXCEPT ![s] = IF locked[s] THEN cached[s] ELSE NoConn]
    <2>2. \A r \in Slot : new[r] # NoConn \/ r # s \/ locked[r] => new[r] = cached[r]
      BY DEF IInv, TypeOK
    <2> HIDE DEF new
    <2>3. new \in [Slot -> Conn \cup {NoConn}] /\ Cache(new)
      BY <1>1, <2>1 DEF new
    <2>. QED  BY <2>2, <2>3, Cached
  <1>3. /\ retired' \in SUBSET Conn
        /\ \A d \in retired :
             (\E r \in Slot : cached'[r] = d) \/ (\E u \in Task : conn[u] = d) => d \in retired'
    BY <1>1, RetiredSet DEF IInv
  <1>4. /\ todo' \in [Task -> SUBSET Slot]
        /\ \A u \in Task : todo'[u] \subseteq todo[u]
    BY <1>1 DEF IInv, TypeOK
  <1>5. LockOK' /\ TodoOK' /\ HomeOK'
    BY <1>1, <1>4 DEF IInv, LockOK, HasLock, TodoOK, HomeOK
  <1>6. TypeOK'
    <2>1. \A r \in Slot : ~Referenced(r)' => ~locked[r]
      BY <1>1 DEF IInv, LockOK, Referenced
    <2>. QED  BY <1>1, <1>2, <1>3, <1>4, <2>1 DEF IInv, TypeOK
  <1>7. FoundOK' /\ UsingOK' /\ CachedOnce' /\ ConnHome' /\ LiveOK'
    <2>1. \A u \in Task : HasLock(u)' => cached'[arc[u]] = cached[arc[u]]
      <3> SUFFICES ASSUME NEW u \in Task, HasLock(u)
                   PROVE  cached'[arc[u]] = cached[arc[u]]
        BY <1>1 DEF HasLock
      <3>1. arc[u] \in Slot /\ locked[arc[u]]
        BY DEF IInv, TypeOK, LockOK, HasLock
      <3>2. \A r \in Slot : r = arc[u] => Referenced(r)'
        BY <1>1 DEF Referenced
      <3>. QED  BY <1>2, <3>1, <3>2
    <2>2. \A e \in Endpoint : slots[e] # NoSlot => cached'[slots[e]] = cached[slots[e]]
      <3> SUFFICES ASSUME NEW e \in Endpoint, slots[e] # NoSlot
                   PROVE  cached'[slots[e]] = cached[slots[e]]
        OBVIOUS
      <3>1. slots[e] \in Slot /\ slots[e] # s
        BY <1>1 DEF IInv, TypeOK, TodoOK
      <3>2. \A r \in Slot : r = slots[e] => Referenced(r)'
        BY <1>1 DEF Referenced
      <3>. QED  BY <1>2, <3>1, <3>2
    <2>3. UNCHANGED <<conn, slots, pc, at, arc>>
      BY <1>1
    <2>. QED  BY <1>2, <1>3, <2>1, <2>2, <2>3, CacheShrinks
  <1>. QED  BY <1>5, <1>6, <1>7 DEF IInv

\* A drain that is through its list returns.
LEMMA DrainReturnIInv ==
  ASSUME IInv, NEW t \in Task, DrainReturn(t)
  PROVE  IInv'
  <1> USE NoneAssumption
  <1>1. /\ pc[t] = "draining" /\ todo[t] = {} /\ arc[t] = NoSlot
        /\ pc' = [pc EXCEPT ![t] = "idle"]
        /\ UNCHANGED <<cursor, slots, cached, locked, arc, conn, todo, at, retired>>
    BY DEF DrainReturn, Goto, IInv, TypeOK
  <1>2. /\ pc'[t] = "idle" /\ \A u \in Task \ {t} : pc'[u] = pc[u]
        /\ \A u \in Task : HasLock(u)' <=> HasLock(u)
    BY <1>1 DEF IInv, TypeOK, HasLock
  <1>3. TypeOK'
    <2>1. \A r \in Slot : Referenced(r)' <=> Referenced(r)
      BY <1>1 DEF Referenced
    <2>. QED  BY <1>1, <1>2, <2>1 DEF IInv, TypeOK, PC
  <1>4. LockOK' /\ FoundOK' /\ UsingOK' /\ TodoOK' /\ HomeOK' /\ CachedOnce'
    BY <1>1, <1>2 DEF IInv, LockOK, FoundOK, UsingOK, TodoOK, HomeOK, CachedOnce
  <1>5. ConnHome' /\ LiveOK'
    BY <1>1, <1>2 DEF IInv, ConnHome, LiveOK, Mapped
  <1>. QED  BY <1>3, <1>4, <1>5 DEF IInv

-----------------------------------------------------------------------------
\* Every step, and stuttering, keeps the inductive invariant.
LEMMA NextIInv == IInv /\ [Next]_vars => IInv'
  <1> SUFFICES ASSUME IInv, [Next]_vars PROVE IInv'
    OBVIOUS
  <1>1. CASE Next
    BY <1>1, AcquireIInv, LockIInv, ReuseIInv, ConnectedIInv, ConnectFailsIInv, CancelWaitIInv,
       DiscardIInv, EvictIInv, EvictTakeIInv, DetachIInv, DrainSlotIInv, DrainReturnIInv
    DEF Next, Drain
  <1>2. CASE UNCHANGED vars
    BY <1>2 DEF vars, IInv, TypeOK, Referenced, LockOK, HasLock, FoundOK, UsingOK, TodoOK, HomeOK,
                CachedOnce, ConnHome, LiveOK, Mapped
  <1>. QED  BY <1>1, <1>2

\* The inductive invariant holds in every behaviour of the pool.
THEOREM Invariant == Spec => []IInv
  BY InitIInv, NextIInv, PTL DEF Spec

\* Types: a task refers to a slot exactly while it waits for it or has it
\* locked, and a slot nobody refers to is unlocked and empty.
THEOREM TypeCorrect == Spec => []TypeOK
  <1>1. IInv => TypeOK
    BY DEF IInv
  <1>. QED  BY <1>1, Invariant, PTL

\* "Two tasks racing on one cold endpoint make exactly one connection between
\* them", through cancellations, failed connects, evictions and drains.
THEOREM OneConnection == Spec => []SingleFlight
  <1>1. IInv => SingleFlight
    <2> SUFFICES ASSUME IInv, NEW e \in Endpoint
                 PROVE  Cardinality(ConnTo(e) \ retired) <= 1
      BY DEF SingleFlight
    <2>1. ConnTo(e) \ retired \subseteq {cached[slots[e]]}
      <3> SUFFICES ASSUME NEW c \in ConnTo(e) \ retired
                   PROVE  c = cached[slots[e]]
        OBVIOUS
      <3>1. c \notin retired /\ c \in ConnTo(e)
        OBVIOUS
      <3>2. \/ \E t \in Task : pc[t] = "using" /\ at[t] = e /\ c = conn[t]
            \/ c = cached[slots[e]]
        BY <3>1 DEF ConnTo
      <3>. QED  BY <3>1, <3>2 DEF IInv, LiveOK
    <2>2. IsFiniteSet({cached[slots[e]]}) /\ Cardinality({cached[slots[e]]}) = 1
      BY FS_Singleton
    <2>3. Cardinality(ConnTo(e) \ retired) <= Cardinality({cached[slots[e]]})
      BY <2>1, <2>2, FS_Subset
    <2>. QED  BY <2>2, <2>3
  <1>. QED  BY <1>1, Invariant, PTL

\* acquire() for one endpoint never hands out a connection made to another,
\* although slots and connections come and go and their identities are reused.
THEOREM EndpointsApart == Spec => []NoCrossEndpoint
  <1>1. IInv => NoCrossEndpoint
    <2> SUFFICES ASSUME IInv, NEW d \in Endpoint, NEW e \in Endpoint,
                        NEW c \in ConnTo(d) \cap ConnTo(e)
                 PROVE  d = e
      BY DEF NoCrossEndpoint
    <2>1. c # NoConn /\ \/ \E t \in Task : pc[t] = "using" /\ at[t] = d /\ c = conn[t]
                        \/ slots[d] # NoSlot /\ c = cached[slots[d]]
      BY DEF ConnTo
    <2>2. \/ \E t \in Task : pc[t] = "using" /\ at[t] = e /\ c = conn[t]
          \/ slots[e] # NoSlot /\ c = cached[slots[e]]
      BY DEF ConnTo
    <2>3. slots[d] # NoSlot /\ slots[e] # NoSlot /\ cached[slots[d]] = c /\ cached[slots[e]] = c => d = e
      BY <2>1 DEF IInv, TypeOK, CachedOnce, HomeOK
    <2>. QED  BY <2>1, <2>2, <2>3 DEF IInv, ConnHome
  <1>. QED  BY <1>1, Invariant, PTL

-----------------------------------------------------------------------------
(***************************************************************************)
(* The other state of perf.rs: the cache of resolved exits (module         *)
(* GeoCache), for every set of proxies and callers, every ttl and every    *)
(* timeout.                                                                *)
(*                                                                         *)
(* What a call returns is bounded only because what the cache keeps is: an *)
(* entry's age counts from when it was stored, so the invariant ties every *)
(* entry to when its resolver was asked and to the proxy it was asked      *)
(* through, and every resolver still out to the call that asked it.        *)
(***************************************************************************)
GeoOut(t) == phase[t] \in {"resolving", "resolved"}

\* A call has a resolution only between its answer and its return.
GeoCallsOK ==
  \A t \in Caller :
    /\ phase[t] = "idle" => found[t] = None
    /\ GeoOut(t) => proxy[t] \in Proxy /\ clock - asked[t] <= Timeout
    /\ phase[t] = "resolving" => found[t] = None
    /\ phase[t] = "resolved" => found[t] \in Resolution /\ found[t].of = proxy[t]

\* An entry is filed under the key of the proxy it was resolved through, one
\* resolver run after that was asked.
GeoEntriesOK ==
  \A k \in Proxy : entries[k] # None =>
    /\ Key(entries[k].res.of) = k
    /\ entries[k].at - entries[k].asked <= Timeout

\* A call gets what is filed under its own key: another proxy's, if the two
\* have one key, and in Rust no two have.
KeyedExit == \A t \in Caller : found[t] # None =>
               /\ found[t].of[1] = proxy[t][1]
               /\ client = "rust" => found[t].of = proxy[t]

GeoIInv == GeoTypeOK /\ GeoCallsOK /\ GeoEntriesOK /\ KeyedExit /\ BoundedAge

\* A key is a proxy, and in Rust it is the proxy itself.
LEMMA Keys ==
  ASSUME client \in Clients, NEW p \in Proxy
  PROVE  /\ Key(p) \in Proxy
         /\ client = "rust" => Key(p) = p
         /\ Key(p)[1] = p[1]
  BY ProxyAssumption DEF Key

\* Nothing is cached and nobody calls.
LEMMA GeoInitIInv == GeoInit => GeoIInv
  BY TimeAssumption DEF GeoInit, GeoIInv, GeoTypeOK, GeoCallsOK, GeoEntriesOK, KeyedExit,
                        BoundedAge, GeoOut, Time, GeoPC

\* A step that leaves the cache, its client and its clock alone.
LEMMA CacheAlone ==
  ASSUME GeoIInv, UNCHANGED <<client, entries>>
  PROVE  GeoEntriesOK'
  BY DEF GeoIInv, GeoEntriesOK, Key

\* What is fresh is what the call asks for, and no older than it may be.
LEMMA HitIInv ==
  ASSUME GeoIInv, NEW t \in Caller, NEW p \in Used[client], NEW d \in TTLs, Hit(t, p, d)
  PROVE  GeoIInv'
  <1> USE TimeAssumption DEF Hit, Call
  <1>1. p \in Proxy /\ Key(p) \in Proxy /\ client \in Clients
    BY Keys, ClientsAssumption, UsedAssumption DEF GeoIInv, GeoTypeOK
  <1> DEFINE e == entries[Key(p)]
  <1>2. /\ e # None /\ e \in Entry /\ clock - e.at < d
        /\ e.at <= clock /\ e.asked <= e.at /\ e.at - e.asked <= Timeout /\ Key(e.res.of) = Key(p)
    BY <1>1 DEF Fresh, GeoIInv, GeoTypeOK, GeoEntriesOK
  <1>3. /\ e.res \in Resolution /\ e.res.of \in Proxy /\ e.asked \in Nat /\ e.at \in Nat
        /\ clock \in Nat /\ d \in Nat
    BY <1>2 DEF Entry, Resolution, Time, GeoIInv, GeoTypeOK
  <1>4. /\ found' = [found EXCEPT ![t] = e.res]
        /\ age' = [age EXCEPT ![t] = clock - e.asked]
    OBVIOUS
  <1> HIDE DEF e
  <1>5. e.res.of[1] = p[1] /\ (client = "rust" => e.res.of = p)
    BY <1>1, <1>2, <1>3, Keys
  <1>6. clock - e.asked \in 0 .. clock /\ clock - e.asked < d + Timeout
    BY <1>2, <1>3
  <1>7. GeoTypeOK'
    BY <1>1, <1>3, <1>4, <1>6 DEF GeoIInv, GeoTypeOK, GeoPC
  <1>8. GeoCallsOK'
    BY DEF GeoIInv, GeoTypeOK, GeoCallsOK, GeoOut
  <1>9. GeoEntriesOK'
    BY CacheAlone
  <1>10. KeyedExit'
    BY <1>4, <1>5 DEF GeoIInv, GeoTypeOK, KeyedExit
  <1>11. BoundedAge'
    BY <1>4, <1>6 DEF GeoIInv, GeoTypeOK, BoundedAge
  <1>. QED  BY <1>7, <1>8, <1>9, <1>10, <1>11 DEF GeoIInv

\* A resolver is asked now.
LEMMA MissIInv ==
  ASSUME GeoIInv, NEW t \in Caller, NEW p \in Used[client], NEW d \in TTLs, Miss(t, p, d)
  PROVE  GeoIInv'
  <1> USE TimeAssumption DEF Miss, Call
  <1>1. p \in Proxy /\ clock \in Nat
    BY ClientsAssumption, UsedAssumption DEF GeoIInv, GeoTypeOK, Time
  <1>2. GeoTypeOK'
    BY <1>1 DEF GeoIInv, GeoTypeOK, GeoPC
  <1>3. GeoCallsOK'
    BY <1>1 DEF GeoIInv, GeoTypeOK, GeoCallsOK, GeoOut
  <1>4. GeoEntriesOK'
    BY CacheAlone
  <1>5. KeyedExit' /\ BoundedAge'
    BY DEF GeoIInv, GeoTypeOK, GeoCallsOK, KeyedExit, BoundedAge
  <1>. QED  BY <1>2, <1>3, <1>4, <1>5 DEF GeoIInv

\* A call the cache answers, or that goes around it.
LEMMA SkipIInv ==
  ASSUME GeoIInv, NEW t \in Caller, Skip(t)
  PROVE  GeoIInv'
  <1> USE DEF Skip
  <1>1. GeoTypeOK' /\ GeoCallsOK'
    BY DEF GeoIInv, GeoTypeOK, GeoPC, GeoCallsOK, GeoOut
  <1>2. GeoEntriesOK'
    BY CacheAlone
  <1>3. KeyedExit' /\ BoundedAge'
    BY DEF GeoIInv, GeoTypeOK, GeoCallsOK, KeyedExit, BoundedAge
  <1>. QED  BY <1>1, <1>2, <1>3 DEF GeoIInv

\* A resolver comes back within its timeout of being asked.
LEMMA FinishIInv ==
  ASSUME GeoIInv, NEW t \in Caller, GeoOut(t), Finish(t)
  PROVE  /\ age' \in [Caller -> 0 .. clock] /\ asked' \in [Caller -> 0 .. clock]
         /\ GeoCallsOK' /\ KeyedExit' /\ BoundedAge'
  <1> USE TimeAssumption DEF Finish
  <1>1. clock \in Nat /\ asked[t] \in 0 .. clock /\ clock - asked[t] <= Timeout
    BY DEF GeoIInv, GeoTypeOK, GeoCallsOK, Time
  <1>2. age' \in [Caller -> 0 .. clock] /\ asked' \in [Caller -> 0 .. clock]
    BY <1>1 DEF GeoIInv, GeoTypeOK
  <1>3. GeoCallsOK'
    BY DEF GeoIInv, GeoTypeOK, GeoCallsOK, GeoOut
  <1>4. KeyedExit' /\ BoundedAge'
    BY <1>1 DEF GeoIInv, GeoTypeOK, KeyedExit, BoundedAge
  <1>. QED  BY <1>2, <1>3, <1>4

\* A resolver that fails stores nothing.
LEMMA ResolveFailsIInv ==
  ASSUME GeoIInv, NEW t \in Caller, ResolveFails(t)
  PROVE  GeoIInv'
  <1>1. GeoOut(t) /\ Finish(t) /\ UNCHANGED entries
    BY DEF ResolveFails, GeoOut
  <1>2. GeoTypeOK'
    BY <1>1, FinishIInv DEF Finish, GeoIInv, GeoTypeOK, GeoPC
  <1>3. GeoEntriesOK'
    BY <1>1, CacheAlone DEF Finish
  <1>. QED  BY <1>1, <1>2, <1>3, FinishIInv DEF GeoIInv

\* The answer is for the proxy its own call asked about.
LEMMA ResolveIInv ==
  ASSUME GeoIInv, NEW t \in Caller, NEW zone \in {"valid", "invalid", "unset"}, Resolve(t, zone)
  PROVE  GeoIInv'
  <1> USE DEF Resolve
  <1> DEFINE r == [of |-> proxy[t], zone |-> Sanitized(zone)]
  <1>1. r \in Resolution /\ r.of = proxy[t]
    BY DEF GeoIInv, GeoCallsOK, GeoOut, Resolution, Sanitized
  <1>2. found' = [found EXCEPT ![t] = r]
    OBVIOUS
  <1> HIDE DEF r
  <1>3. GeoTypeOK'
    BY <1>1, <1>2 DEF GeoIInv, GeoTypeOK, GeoPC
  <1>4. GeoCallsOK'
    BY <1>1, <1>2 DEF GeoIInv, GeoTypeOK, GeoCallsOK, GeoOut
  <1>5. GeoEntriesOK'
    BY CacheAlone
  <1>6. KeyedExit' /\ BoundedAge'
    BY <1>1, <1>2 DEF GeoIInv, GeoTypeOK, KeyedExit, BoundedAge
  <1>. QED  BY <1>3, <1>4, <1>5, <1>6 DEF GeoIInv

\* The answer is stored under its proxy's key, whatever came in between.
LEMMA PutIInv ==
  ASSUME GeoIInv, NEW t \in Caller, Put(t)
  PROVE  GeoIInv'
  <1> USE TimeAssumption
  <1>1. GeoOut(t) /\ Finish(t) /\ found[t] \in Resolution /\ found[t].of = proxy[t] /\ proxy[t] \in Proxy
    BY DEF Put, GeoOut, GeoIInv, GeoCallsOK
  <1>2. /\ asked[t] \in Time /\ clock \in Time /\ asked[t] <= clock /\ clock - asked[t] <= Timeout
        /\ client \in Clients
    BY <1>1 DEF GeoIInv, GeoTypeOK, GeoCallsOK, Time
  <1> DEFINE e == [res |-> found[t], asked |-> asked[t], at |-> clock]
  <1>3. e \in Entry /\ e.res.of = proxy[t] /\ e.at = clock /\ e.asked = asked[t]
    BY <1>1, <1>2 DEF Entry
  <1>4. entries' = [entries EXCEPT ![Key(proxy[t])] = e]
    BY DEF Put
  <1> HIDE DEF e
  <1>5. Key(proxy[t]) \in Proxy
    BY <1>1, <1>2, Keys
  <1>6. GeoTypeOK'
    <2>1. entries' \in [Proxy -> Entry \cup {None}]
      BY <1>3, <1>4, <1>5 DEF GeoIInv, GeoTypeOK
    <2>2. \A k \in Proxy : entries'[k] # None => /\ entries'[k].at <= clock
                                                 /\ entries'[k].asked <= entries'[k].at
      BY <1>2, <1>3, <1>4, <1>5 DEF GeoIInv, GeoTypeOK, Time
    <2>. QED  BY <1>1, <2>1, <2>2, FinishIInv DEF Finish, GeoIInv, GeoTypeOK, GeoPC
  <1>7. GeoEntriesOK'
    <2>1. \A p : Key(p)' = Key(p)
      BY <1>1 DEF Finish, Key
    <2>. QED  BY <1>2, <1>3, <1>4, <1>5, <2>1 DEF GeoIInv, GeoTypeOK, GeoEntriesOK
  <1>. QED  BY <1>1, <1>6, <1>7, FinishIInv DEF GeoIInv

\* A call hands over its answer and is done.
LEMMA ReturnIInv ==
  ASSUME GeoIInv, NEW t \in Caller, Return(t)
  PROVE  GeoIInv'
  <1> USE TimeAssumption DEF Return
  <1>1. 0 \in 0 .. clock
    BY DEF GeoIInv, GeoTypeOK, Time
  <1>2. GeoTypeOK'
    BY <1>1 DEF GeoIInv, GeoTypeOK, GeoPC
  <1>3. GeoCallsOK'
    BY DEF GeoIInv, GeoTypeOK, GeoCallsOK, GeoOut
  <1>4. GeoEntriesOK'
    BY CacheAlone
  <1>5. KeyedExit' /\ BoundedAge'
    BY DEF GeoIInv, GeoTypeOK, KeyedExit, BoundedAge
  <1>. QED  BY <1>2, <1>3, <1>4, <1>5 DEF GeoIInv

\* clear() leaves no entry to be wrong.
LEMMA ClearIInv == GeoIInv /\ Clear => GeoIInv'
  BY DEF Clear, GeoIInv, GeoTypeOK, GeoCallsOK, GeoEntriesOK, KeyedExit, BoundedAge, GeoOut

\* Time passes, but not past the timeout of a resolver that is out.
LEMMA TickIInv == GeoIInv /\ Tick => GeoIInv'
  <1> SUFFICES ASSUME GeoIInv, Tick PROVE GeoIInv'
    OBVIOUS
  <1> USE TimeAssumption DEF Tick
  <1>1. clock \in Nat /\ clock' = clock + 1 /\ clock' \in Time
    BY DEF GeoIInv, GeoTypeOK, Time
  <1>2. GeoTypeOK'
    <2>1. asked' \in [Caller -> 0 .. clock'] /\ age' \in [Caller -> 0 .. clock']
      BY <1>1 DEF GeoIInv, GeoTypeOK
    <2>2. \A k \in Proxy : entries[k] # None => /\ entries[k].at <= clock'
                                                /\ entries[k].asked <= entries[k].at
      <3> SUFFICES ASSUME NEW k \in Proxy, entries[k] # None
                   PROVE  entries[k].at <= clock' /\ entries[k].asked <= entries[k].at
        OBVIOUS
      <3>1. entries[k] \in Entry /\ entries[k].at <= clock /\ entries[k].asked <= entries[k].at
        BY DEF GeoIInv, GeoTypeOK
      <3>. QED  BY <1>1, <3>1 DEF Entry, Time
    <2>. QED  BY <1>1, <2>1, <2>2 DEF GeoIInv, GeoTypeOK
  <1>3. GeoCallsOK'
    <2>1. \A t \in Caller : GeoOut(t) => clock' - asked[t] <= Timeout
      BY <1>1 DEF GeoIInv, GeoTypeOK, GeoOut
    <2>. QED  BY <2>1 DEF GeoIInv, GeoCallsOK, GeoOut
  <1>4. GeoEntriesOK'
    BY CacheAlone
  <1>5. KeyedExit' /\ BoundedAge'
    BY DEF GeoIInv, KeyedExit, BoundedAge
  <1>. QED  BY <1>2, <1>3, <1>4, <1>5 DEF GeoIInv

\* Every step, and stuttering, keeps the inductive invariant.
LEMMA GeoNextIInv == GeoIInv /\ [GeoNext]_geoVars => GeoIInv'
  <1> SUFFICES ASSUME GeoIInv, [GeoNext]_geoVars PROVE GeoIInv'
    OBVIOUS
  <1>1. CASE GeoNext
    BY <1>1, HitIInv, MissIInv, SkipIInv, ResolveFailsIInv, ResolveIInv, PutIInv, ReturnIInv,
       ClearIInv, TickIInv DEF GeoNext
  <1>2. CASE UNCHANGED geoVars
    <2>1. GeoEntriesOK'
      BY <1>2, CacheAlone DEF geoVars
    <2>. QED  BY <1>2, <2>1 DEF geoVars, GeoIInv, GeoTypeOK, GeoCallsOK, KeyedExit, BoundedAge, GeoOut
  <1>. QED  BY <1>1, <1>2

-----------------------------------------------------------------------------
\* The inductive invariant holds in every behaviour of the cache.
THEOREM GeoInvariant == GeoSpec => []GeoIInv
  BY GeoInitIInv, GeoNextIInv, PTL DEF GeoSpec

\* Types: nothing unsanitized is stored and no time lies in the future.
THEOREM GeoTypeCorrect == GeoSpec => []GeoTypeOK
  <1>1. GeoIInv => GeoTypeOK
    BY DEF GeoIInv
  <1>. QED  BY <1>1, GeoInvariant, PTL

\* A launch with the Rust cache is never given the exit of another server or
\* another username.  (Of the Python cache this is false.)
THEOREM ExitCorrect == GeoSpec => []OwnExitInRust
  <1>1. GeoIInv => OwnExitInRust
    BY DEF GeoIInv, GeoTypeOK, KeyedExit, OwnExit, OwnExitInRust
  <1>. QED  BY <1>1, GeoInvariant, PTL

\* However calls with different ttls, slow resolvers and clears interleave,
\* what a launch pins was observed within its ttl and one resolver run.
THEOREM AgeCorrect == GeoSpec => []BoundedAge
  <1>1. GeoIInv => BoundedAge
    BY DEF GeoIInv
  <1>. QED  BY <1>1, GeoInvariant, PTL
===============================================================================
