-------------------------- MODULE PromiseChainProofs --------------------------
(***************************************************************************)
(* Safety of the Node promise chain for every set of calls and keys.  That *)
(* bodies run first come first served is not inductive: the proof needs    *)
(* the whole queue, which the code keeps only as links between promises.   *)
(* Each call awaits the tail of the one before it, the map names the last, *)
(* and a tail nobody may name any more is the only one that is reused.     *)
(***************************************************************************)
EXTENDS PromiseChain, SequenceTheorems, TLAPS

Queued(t) == stage[t] \in {"awaiting", "inside"}

\* Who is in the queue of a key works on that key; only the first is inside.
InQueue ==
  \A k \in Key : \A i \in 1 .. Len(arrivals[k]) :
    /\ onKey[arrivals[k][i]] = k
    /\ Queued(arrivals[k][i])
    /\ stage[arrivals[k][i]] = "inside" => i = 1

\* Everyone waiting or inside is in the queue of his key, once.
HasPlace ==
  \A t \in Caller : Queued(t) => \E i \in 1 .. Len(arrivals[onKey[t]]) : arrivals[onKey[t]][i] = t

Once ==
  \A k \in Key : \A i, j \in 1 .. Len(arrivals[k]) : arrivals[k][i] = arrivals[k][j] => i = j

\* Everyone but the first awaits the tail of the call before him; the first
\* awaits nothing, or a tail that has settled or is about to.
BehindPrevious ==
  \A k \in Key : \A i \in 1 .. Len(arrivals[k]) :
    IF i > 1 THEN prev[arrivals[k][i]] = arrivals[k][i-1]
             ELSE LET p == prev[arrivals[k][i]]
                  IN p = NoCaller \/ p \in resolved \/ stage[p] = "released"

\* The map names the last call of the queue, and no one when it is empty.
LastInChain ==
  \A k \in Key : chain[k] = IF arrivals[k] = <<>> THEN NoCaller ELSE arrivals[k][Len(arrivals[k])]

\* A call's tail settles only when the call is over.
SettledWhenOver == \A t \in Caller : stage[t] # "idle" => t \notin resolved

IInv == /\ ChainTypeOK /\ InQueue /\ HasPlace /\ Once
        /\ BehindPrevious /\ LastInChain /\ SettledWhenOver

\* A sequence is empty exactly when its length is 0.
LEMMA EmptyIffNoElement ==
  ASSUME NEW S, NEW s \in Seq(S)
  PROVE  s = <<>> <=> Len(s) = 0
  BY EmptySeq

\* No call was made.
LEMMA InitIInv == ChainInit => IInv
  BY CallerAssumption, KeyAssumption, EmptySeq
  DEF ChainInit, IInv, ChainTypeOK, InQueue, HasPlace, Once, BehindPrevious, LastInChain,
      SettledWhenOver, Queued, Stage

\* A new call goes to the end of its key's queue.
LEMMA EnqueueIInv ==
  ASSUME IInv, NEW t \in Caller, NEW k \in Key, Enqueue(t, k)
  PROVE  IInv'
  <1> USE CallerAssumption, KeyAssumption DEF IInv
  <1> DEFINE n == Len(arrivals[k])
  <1>0. /\ stage[t] = "idle" /\ Garbage(t)
        /\ prev' = [prev EXCEPT ![t] = chain[k]]
        /\ chain' = [chain EXCEPT ![k] = t]
        /\ resolved' = resolved \ {t}
        /\ stage' = [stage EXCEPT ![t] = "awaiting"]
        /\ onKey' = [onKey EXCEPT ![t] = k]
        /\ arrivals' = [arrivals EXCEPT ![k] = Append(arrivals[k], t)]
    BY DEF Enqueue
  <1>1. /\ arrivals[k] \in Seq(Caller) /\ n \in Nat
        /\ \A j \in Key : Len(arrivals[j]) \in Nat
        /\ \A j \in Key : \A i \in 1 .. Len(arrivals[j]) : arrivals[j][i] \in Caller
    BY LenProperties, ElementOfSeq DEF ChainTypeOK
  <1>2. /\ arrivals' \in [Key -> Seq(Caller)]
        /\ Len(arrivals'[k]) = n + 1 /\ arrivals'[k] # <<>>
        /\ \A i \in 1 .. n : arrivals'[k][i] = arrivals[k][i]
        /\ arrivals'[k][n + 1] = t
        /\ \A j \in Key \ {k} : arrivals'[j] = arrivals[j]
    BY <1>0, <1>1, AppendProperties DEF ChainTypeOK
  <1>3. \A j \in Key : \A i \in 1 .. Len(arrivals[j]) : arrivals[j][i] # t
    BY <1>0 DEF InQueue, Queued
  <1>4. ChainTypeOK'
    BY <1>0, <1>2 DEF ChainTypeOK, Stage, Garbage
  <1>5. InQueue'
    BY <1>0, <1>1, <1>2, <1>3 DEF ChainTypeOK, InQueue, Queued
  <1>6. HasPlace'
    <2> SUFFICES ASSUME NEW u \in Caller, Queued(u)'
                 PROVE  (\E i \in 1 .. Len(arrivals[onKey[u]]) : arrivals[onKey[u]][i] = u)'
      BY DEF HasPlace
    <2>1. CASE u = t
      <3>1. onKey'[u] = k /\ n + 1 \in 1 .. Len(arrivals'[k])
        BY <1>0, <1>1, <1>2, <2>1 DEF ChainTypeOK
      <3>. QED  BY <1>2, <2>1, <3>1
    <2>2. CASE u # t
      <3>1. Queued(u) /\ onKey'[u] = onKey[u] /\ onKey[u] \in Key
        BY <1>0, <2>2 DEF ChainTypeOK, Queued, Stage
      <3>2. PICK i \in 1 .. Len(arrivals[onKey[u]]) : arrivals[onKey[u]][i] = u
        BY <3>1 DEF HasPlace
      <3>3. i \in 1 .. Len(arrivals'[onKey[u]]) /\ arrivals'[onKey[u]][i] = u
        BY <1>1, <1>2, <3>1, <3>2
      <3>. QED  BY <3>1, <3>3
    <2>. QED  BY <2>1, <2>2
  <1>7. Once'
    BY <1>1, <1>2, <1>3 DEF Once
  <1>8. BehindPrevious'
    BY <1>0, <1>1, <1>2, <1>3 DEF ChainTypeOK, BehindPrevious, LastInChain, Garbage
  <1>9. LastInChain'
    BY <1>0, <1>1, <1>2 DEF ChainTypeOK, LastInChain
  <1>10. SettledWhenOver'
    BY <1>0 DEF ChainTypeOK, SettledWhenOver
  <1>. QED  BY <1>4, <1>5, <1>6, <1>7, <1>8, <1>9, <1>10

\* Only the first of a queue resumes: the tail before any other is unsettled.
LEMMA ResumesFirst ==
  ASSUME IInv, NEW t \in Caller, PrevSettles(t)
  PROVE  /\ Len(arrivals[onKey[t]]) >= 1
         /\ arrivals[onKey[t]][1] = t
  <1> USE CallerAssumption, KeyAssumption DEF IInv
  <1>1. onKey[t] \in Key /\ Len(arrivals[onKey[t]]) \in Nat
    BY LenProperties DEF ChainTypeOK, PrevSettles
  <1>2. PICK i \in 1 .. Len(arrivals[onKey[t]]) : arrivals[onKey[t]][i] = t
    BY DEF HasPlace, Queued, PrevSettles
  <1>3. ASSUME i > 1
        PROVE  FALSE
    <2>1. i - 1 \in 1 .. Len(arrivals[onKey[t]])
      BY <1>1, <1>2, <1>3
    <2>2. arrivals[onKey[t]][i-1] \in Caller
      BY <1>1, <2>1, ElementOfSeq DEF ChainTypeOK
    <2>3. stage[arrivals[onKey[t]][i-1]] # "idle"
      BY <1>1, <2>1 DEF InQueue, Queued
    <2>4. prev[t] = arrivals[onKey[t]][i-1]
      BY <1>1, <1>2, <1>3 DEF BehindPrevious
    <2>. QED  BY <2>2, <2>3, <2>4 DEF PrevSettles, SettledWhenOver
  <1>. QED  BY <1>1, <1>2, <1>3

\* The body of the first call starts.
LEMMA PrevSettlesIInv ==
  ASSUME IInv, NEW t \in Caller, PrevSettles(t)
  PROVE  IInv'
  <1> USE CallerAssumption, KeyAssumption DEF IInv, PrevSettles
  <1>1. /\ onKey[t] \in Key
        /\ \A j \in Key : Len(arrivals[j]) \in Nat
        /\ \A j \in Key : \A i \in 1 .. Len(arrivals[j]) : arrivals[j][i] \in Caller
    BY LenProperties, ElementOfSeq DEF ChainTypeOK
  <1>2. \A j \in Key : \A i \in 1 .. Len(arrivals[j]) :
          arrivals[j][i] = t => j = onKey[t] /\ i = 1
    <2>1. Len(arrivals[onKey[t]]) >= 1 /\ arrivals[onKey[t]][1] = t
      BY ResumesFirst
    <2>2. 1 \in 1 .. Len(arrivals[onKey[t]])
      BY <1>1, <2>1
    <2> SUFFICES ASSUME NEW j \in Key, NEW i \in 1 .. Len(arrivals[j]), arrivals[j][i] = t
                 PROVE  j = onKey[t] /\ i = 1
      OBVIOUS
    <2>3. j = onKey[t]
      BY DEF InQueue
    <2>. QED  BY <2>1, <2>2, <2>3 DEF Once
  <1>3. ChainTypeOK'
    BY DEF ChainTypeOK, Stage
  <1>4. InQueue'
    <2> SUFFICES ASSUME NEW j \in Key, NEW i \in 1 .. Len(arrivals[j])
                 PROVE  /\ onKey[arrivals[j][i]] = j
                        /\ Queued(arrivals[j][i])'
                        /\ stage'[arrivals[j][i]] = "inside" => i = 1
      BY DEF InQueue
    <2>1. /\ onKey[arrivals[j][i]] = j
          /\ Queued(arrivals[j][i])
          /\ stage[arrivals[j][i]] = "inside" => i = 1
      BY DEF InQueue
    <2>. QED  BY <1>1, <1>2, <2>1 DEF ChainTypeOK, Queued
  <1>5. HasPlace'
    BY DEF ChainTypeOK, HasPlace, Queued
  <1>6. Once'
    BY DEF Once
  <1>7. BehindPrevious'
    <2> SUFFICES ASSUME NEW j \in Key, NEW i \in 1 .. Len(arrivals[j])
                 PROVE  IF i > 1 THEN prev'[arrivals[j][i]] = arrivals[j][i-1]
                        ELSE \/ prev'[arrivals[j][i]] = NoCaller
                             \/ prev'[arrivals[j][i]] \in resolved
                             \/ stage'[prev'[arrivals[j][i]]] = "released"
      BY DEF BehindPrevious
    <2>1. IF i > 1 THEN prev[arrivals[j][i]] = arrivals[j][i-1]
          ELSE \/ prev[arrivals[j][i]] = NoCaller
               \/ prev[arrivals[j][i]] \in resolved
               \/ stage[prev[arrivals[j][i]]] = "released"
      BY DEF BehindPrevious
    <2>. QED  BY <1>1, <1>2, <2>1 DEF ChainTypeOK
  <1>8. LastInChain' /\ SettledWhenOver'
    BY DEF ChainTypeOK, LastInChain, SettledWhenOver
  <1>. QED  BY <1>3, <1>4, <1>5, <1>6, <1>7, <1>8

\* Whoever is inside is the first of his queue.
LEMMA InsideFirst ==
  ASSUME IInv, NEW t \in Caller, stage[t] = "inside"
  PROVE  /\ onKey[t] \in Key
         /\ Len(arrivals[onKey[t]]) \in Nat \ {0}
         /\ arrivals[onKey[t]][1] = t
  <1> USE CallerAssumption, KeyAssumption DEF IInv
  <1>1. onKey[t] \in Key /\ Len(arrivals[onKey[t]]) \in Nat
    BY LenProperties DEF ChainTypeOK
  <1>2. PICK i \in 1 .. Len(arrivals[onKey[t]]) : arrivals[onKey[t]][i] = t
    BY DEF HasPlace, Queued
  <1>. QED  BY <1>1, <1>2 DEF InQueue

\* The first call leaves; the second awaits a tail that is about to settle.
LEMMA BodySettlesIInv ==
  ASSUME IInv, NEW t \in Caller, BodySettles(t)
  PROVE  IInv'
  <1> USE CallerAssumption, KeyAssumption DEF IInv
  <1> DEFINE k == onKey[t]
             n == Len(arrivals[k])
  <1>0. /\ stage[t] = "inside"
        /\ chain' = IF chain[k] = t THEN [chain EXCEPT ![k] = NoCaller] ELSE chain
        /\ stage' = [stage EXCEPT ![t] = "released"]
        /\ arrivals' = [arrivals EXCEPT ![k] = Tail(arrivals[k])]
        /\ UNCHANGED <<prev, resolved, onKey>>
    BY DEF BodySettles
  <1>1. /\ k \in Key /\ n \in Nat \ {0} /\ arrivals[k][1] = t /\ arrivals[k] \in Seq(Caller)
        /\ \A j \in Key : Len(arrivals[j]) \in Nat
        /\ \A j \in Key : \A i \in 1 .. Len(arrivals[j]) : arrivals[j][i] \in Caller
    BY <1>0, InsideFirst, LenProperties, ElementOfSeq DEF ChainTypeOK
  <1>2. /\ arrivals' \in [Key -> Seq(Caller)]
        /\ Len(arrivals'[k]) = n - 1 /\ (arrivals'[k] = <<>> <=> n = 1)
        /\ \A i \in 1 .. n - 1 : arrivals'[k][i] = arrivals[k][i + 1]
        /\ \A j \in Key \ {k} : arrivals'[j] = arrivals[j]
    <2>1. arrivals[k] # <<>>
      BY <1>1
    <2>2. /\ Tail(arrivals[k]) \in Seq(Caller) /\ Len(Tail(arrivals[k])) = n - 1
          /\ \A i \in 1 .. n - 1 : Tail(arrivals[k])[i] = arrivals[k][i + 1]
      BY <1>1, <2>1, HeadTailProperties
    <2>3. Tail(arrivals[k]) = <<>> <=> n = 1
      <3>1. Tail(arrivals[k]) = <<>> <=> Len(Tail(arrivals[k])) = 0
        BY <2>2, EmptyIffNoElement
      <3>. QED  BY <1>1, <2>2, <3>1
    <2>. QED  BY <1>0, <1>1, <2>2, <2>3 DEF ChainTypeOK
  <1>3. \A j \in Key : \A i \in 1 .. Len(arrivals'[j]) : arrivals'[j][i] # t
    <2> SUFFICES ASSUME NEW j \in Key, NEW i \in 1 .. Len(arrivals'[j]), arrivals'[j][i] = t
                 PROVE  FALSE
      OBVIOUS
    <2>1. CASE j = k
      <3>1. i + 1 \in 1 .. n /\ arrivals[k][i + 1] = t /\ 1 \in 1 .. n
        BY <1>1, <1>2, <2>1
      <3>. QED  BY <1>1, <3>1 DEF Once
    <2>2. CASE j # k
      BY <1>1, <1>2, <2>2 DEF InQueue
    <2>. QED  BY <2>1, <2>2
  <1>4. chain[k] = t <=> n = 1
    <2>1. arrivals[k] # <<>> /\ 1 \in 1 .. n /\ n \in 1 .. n
      BY <1>1, EmptyIffNoElement
    <2>2. chain[k] = arrivals[k][n]
      BY <1>1, <2>1 DEF LastInChain
    <2>. QED  BY <1>1, <2>1, <2>2 DEF Once
  <1>5. ChainTypeOK'
    BY <1>0, <1>1, <1>2 DEF ChainTypeOK, Stage, LastInChain
  <1>6. InQueue'
    <2> SUFFICES ASSUME NEW j \in Key, NEW i \in 1 .. Len(arrivals'[j])
                 PROVE  /\ onKey[arrivals'[j][i]] = j
                        /\ stage'[arrivals'[j][i]] \in {"awaiting", "inside"}
                        /\ stage'[arrivals'[j][i]] = "inside" => i = 1
      BY <1>0 DEF InQueue, Queued
    <2>1. arrivals'[j][i] # t
      BY <1>3
    <2>2. CASE j = k
      <3>1. /\ i + 1 \in 1 .. n /\ i + 1 # 1
            /\ arrivals'[j][i] = arrivals[k][i + 1]
        BY <1>1, <1>2, <2>2
      <3>2. /\ onKey[arrivals[k][i + 1]] = k
            /\ Queued(arrivals[k][i + 1])
            /\ stage[arrivals[k][i + 1]] # "inside"
            /\ arrivals[k][i + 1] \in Caller
        BY <1>1, <3>1 DEF InQueue
      <3>. QED  BY <1>0, <2>1, <2>2, <3>1, <3>2 DEF ChainTypeOK, Queued
    <2>3. CASE j # k
      BY <1>0, <1>1, <1>2, <2>1, <2>3 DEF ChainTypeOK, InQueue, Queued
    <2>. QED  BY <2>2, <2>3
  <1>7. HasPlace'
    <2> SUFFICES ASSUME NEW u \in Caller, Queued(u)'
                 PROVE  \E i \in 1 .. Len(arrivals'[onKey[u]]) : arrivals'[onKey[u]][i] = u
      BY <1>0 DEF HasPlace
    <2>1. Queued(u) /\ u # t /\ onKey[u] \in Key
      BY <1>0 DEF ChainTypeOK, Queued
    <2>2. PICK i \in 1 .. Len(arrivals[onKey[u]]) : arrivals[onKey[u]][i] = u
      BY <2>1 DEF HasPlace
    <2>3. CASE onKey[u] = k
      <3>1. i - 1 \in 1 .. n - 1 /\ arrivals'[k][i-1] = u
        BY <1>1, <1>2, <2>1, <2>2, <2>3
      <3>. QED  BY <1>2, <2>3, <3>1
    <2>4. CASE onKey[u] # k
      BY <1>2, <2>1, <2>2, <2>4
    <2>. QED  BY <2>3, <2>4
  <1>8. Once'
    <2> SUFFICES ASSUME NEW j \in Key, NEW h \in 1 .. Len(arrivals'[j]),
                        NEW i \in 1 .. Len(arrivals'[j]), arrivals'[j][h] = arrivals'[j][i]
                 PROVE  h = i
      BY DEF Once
    <2>1. CASE j = k
      <3>1. /\ h + 1 \in 1 .. n /\ i + 1 \in 1 .. n
            /\ arrivals[k][h + 1] = arrivals[k][i + 1]
        BY <1>1, <1>2, <2>1
      <3>2. h + 1 = i + 1
        BY <1>1, <3>1 DEF Once
      <3>. QED  BY <1>1, <1>2, <2>1, <3>2
    <2>2. CASE j # k
      BY <1>2, <2>2 DEF Once
    <2>. QED  BY <2>1, <2>2
  <1>9. BehindPrevious'
    <2> SUFFICES ASSUME NEW j \in Key, NEW i \in 1 .. Len(arrivals'[j])
                 PROVE  IF i > 1 THEN prev[arrivals'[j][i]] = arrivals'[j][i-1]
                        ELSE \/ prev[arrivals'[j][i]] = NoCaller
                             \/ prev[arrivals'[j][i]] \in resolved
                             \/ stage'[prev[arrivals'[j][i]]] = "released"
      BY <1>0 DEF BehindPrevious
    <2>1. CASE j = k
      <3>0. i \in 1 .. n - 1 /\ (i > 1 => i - 1 \in 1 .. n - 1) /\ (i - 1) + 1 = i
        BY <1>1, <1>2, <2>1
      <3>1. /\ i + 1 \in 1 .. n /\ i + 1 > 1
            /\ arrivals'[j][i] = arrivals[k][i + 1]
            /\ i > 1 => arrivals'[j][i-1] = arrivals[k][i]
        BY <1>1, <1>2, <2>1, <3>0
      <3>2. prev[arrivals[k][i + 1]] = arrivals[k][i]
        BY <1>1, <3>1 DEF BehindPrevious
      <3>3. CASE i > 1
        BY <3>1, <3>2, <3>3
      <3>4. CASE i = 1
        BY <1>0, <1>1, <3>1, <3>2, <3>4 DEF ChainTypeOK
      <3>. QED  BY <1>2, <2>1, <3>3, <3>4
    <2>2. CASE j # k
      <3>1. arrivals'[j] = arrivals[j] /\ i \in 1 .. Len(arrivals[j])
        BY <1>2, <2>2
      <3>2. IF i > 1 THEN prev[arrivals[j][i]] = arrivals[j][i-1]
            ELSE \/ prev[arrivals[j][i]] = NoCaller
                 \/ prev[arrivals[j][i]] \in resolved
                 \/ stage[prev[arrivals[j][i]]] = "released"
        BY <3>1 DEF BehindPrevious
      <3>3. stage[prev[arrivals[j][i]]] = "released" => stage'[prev[arrivals[j][i]]] = "released"
        BY <1>0, <1>1, <3>1 DEF ChainTypeOK
      <3>. QED  BY <3>1, <3>2, <3>3
    <2>. QED  BY <2>1, <2>2
  <1>10. LastInChain'
    BY <1>0, <1>1, <1>2, <1>4 DEF ChainTypeOK, LastInChain
  <1>11. SettledWhenOver'
    BY <1>0 DEF ChainTypeOK, SettledWhenOver
  <1>. QED  BY <1>5, <1>6, <1>7, <1>8, <1>9, <1>10, <1>11

\* The tail of a call that is over settles.
LEMMA TailSettlesIInv ==
  ASSUME IInv, NEW t \in Caller, TailSettles(t)
  PROVE  IInv'
  <1> USE CallerAssumption, KeyAssumption DEF IInv, TailSettles
  <1>1. \A j \in Key : \A i \in 1 .. Len(arrivals[j]) :
          arrivals[j][i] \in Caller /\ arrivals[j][i] # t
    BY ElementOfSeq DEF ChainTypeOK, InQueue, Queued
  <1>2. ChainTypeOK'
    BY DEF ChainTypeOK, Stage
  <1>3. InQueue' /\ HasPlace' /\ Once'
    BY <1>1 DEF ChainTypeOK, InQueue, HasPlace, Once, Queued
  <1>4. BehindPrevious' /\ LastInChain'
    BY <1>1 DEF ChainTypeOK, BehindPrevious, LastInChain
  <1>5. SettledWhenOver'
    BY DEF ChainTypeOK, SettledWhenOver
  <1>. QED  BY <1>2, <1>3, <1>4, <1>5

\* Every step keeps the queue.
LEMMA NextIInv == IInv /\ [ChainNext]_chainVars => IInv'
  <1> SUFFICES ASSUME IInv, [ChainNext]_chainVars PROVE IInv'
    OBVIOUS
  <1>1. CASE ChainNext
    BY <1>1, EnqueueIInv, PrevSettlesIInv, BodySettlesIInv, TailSettlesIInv DEF ChainNext
  <1>2. CASE UNCHANGED chainVars
    BY <1>2 DEF chainVars, IInv, ChainTypeOK, InQueue, HasPlace, Once, BehindPrevious, LastInChain,
                SettledWhenOver, Queued
  <1>. QED  BY <1>1, <1>2

\* The inductive invariant holds in every behaviour.
THEOREM Invariant == ChainSpec => []IInv
  BY InitIInv, NextIInv, PTL DEF ChainSpec

\* The map names only calls that are awaiting their turn or in it.
THEOREM TypeCorrect == ChainSpec => []ChainTypeOK
  <1>1. IInv => ChainTypeOK
    BY DEF IInv
  <1>. QED  BY <1>1, Invariant, PTL

\* Bodies on one key run in the order of the calls.
THEOREM InOrder == ChainSpec => []FirstComeFirstServed
  <1>1. IInv => FirstComeFirstServed
    <2> SUFFICES ASSUME IInv, NEW t \in Caller, stage[t] = "inside"
                 PROVE  Head(arrivals[onKey[t]]) = t
      BY DEF FirstComeFirstServed
    <2>. QED  BY InsideFirst DEF IInv, ChainTypeOK
  <1>. QED  BY <1>1, Invariant, PTL

-----------------------------------------------------------------------------
\* A step of one call on one key changes that key's waiters and holders by
\* that call, and nobody else's.
LEMMA OneTaskMoves ==
  ASSUME NEW t \in Caller, NEW k \in Key,
         \A u \in Caller : u # t => stage'[u] = stage[u] /\ onKey'[u] = onKey[u],
         onKey[t] \in {k, NoKey}, onKey'[t] \in {k, NoKey}
  PROVE  /\ ChainWaiters' = [ChainWaiters EXCEPT ![k] = IF stage'[t] = "awaiting" /\ onKey'[t] = k
                                                        THEN @ \cup {t} ELSE @ \ {t}]
         /\ ChainHolders' = [ChainHolders EXCEPT ![k] = IF stage'[t] = "inside" /\ onKey'[t] = k
                                                        THEN @ \cup {t} ELSE @ \ {t}]
  <1>1. \A j \in Key \ {k} : /\ ChainWaiters'[j] = ChainWaiters[j]
                            /\ ChainHolders'[j] = ChainHolders[j]
    BY CallerAssumption, KeyAssumption DEF ChainWaiters, ChainHolders
  <1>2. ChainWaiters'[k] = IF stage'[t] = "awaiting" /\ onKey'[t] = k
                           THEN ChainWaiters[k] \cup {t} ELSE ChainWaiters[k] \ {t}
    BY DEF ChainWaiters
  <1>3. ChainHolders'[k] = IF stage'[t] = "inside" /\ onKey'[t] = k
                           THEN ChainHolders[k] \cup {t} ELSE ChainHolders[k] \ {t}
    BY DEF ChainHolders
  <1>4. ChainWaiters' \in [Key -> SUBSET Caller] /\ ChainHolders' \in [Key -> SUBSET Caller]
    BY DEF ChainWaiters, ChainHolders
  <1>5. ChainWaiters \in [Key -> SUBSET Caller] /\ ChainHolders \in [Key -> SUBSET Caller]
    BY DEF ChainWaiters, ChainHolders
  <1>. QED  BY <1>1, <1>2, <1>3, <1>4, <1>5

\* The chain implements the abstract lock: the call asks, the settled tail
\* enters, `finally` leaves, and the tail's own settling is invisible.
THEOREM Refinement == ChainSpec => ChainImplementsProxyLock
  <1>1. ChainInit => JsLock!Init
    BY DEF ChainInit, JsLock!Init, ChainWaiters, ChainHolders
  <1>2. IInv /\ [ChainNext]_chainVars => [JsLock!Next]_(JsLock!lockVars)
    <2> SUFFICES ASSUME IInv, [ChainNext]_chainVars
                 PROVE  JsLock!Next \/ UNCHANGED JsLock!lockVars
      OBVIOUS
    <2> USE CallerAssumption, KeyAssumption DEF IInv
    <2>0. ChainWaiters \in [Key -> SUBSET Caller] /\ ChainHolders \in [Key -> SUBSET Caller]
      BY DEF ChainWaiters, ChainHolders
    <2>1. ASSUME NEW t \in Caller, NEW k \in Key, Enqueue(t, k)
          PROVE  JsLock!Ask(t, k)
      <3>1. ~JsLock!Busy(t)
        BY <2>1 DEF Enqueue, JsLock!Busy, ChainWaiters, ChainHolders
      <3>2. /\ ChainWaiters' = [ChainWaiters EXCEPT ![k] = @ \cup {t}]
            /\ ChainHolders' = [ChainHolders EXCEPT ![k] = @ \ {t}]
        BY <2>1, OneTaskMoves DEF Enqueue, ChainTypeOK
      <3>3. t \notin ChainHolders[k]
        BY <2>1 DEF Enqueue, ChainHolders
      <3>. QED  BY <2>0, <3>1, <3>2, <3>3 DEF JsLock!Ask
    <2>2. ASSUME NEW t \in Caller, PrevSettles(t)
          PROVE  \E k \in Key : JsLock!Enter(t, k)
      <3>1. PICK k \in Key : onKey[t] = k
        BY <2>2 DEF PrevSettles, ChainTypeOK
      <3>2. /\ ChainWaiters' = [ChainWaiters EXCEPT ![k] = @ \ {t}]
            /\ ChainHolders' = [ChainHolders EXCEPT ![k] = @ \cup {t}]
        BY <2>2, <3>1, OneTaskMoves DEF PrevSettles, ChainTypeOK
      <3>3. t \in ChainWaiters[k]
        BY <2>2, <3>1 DEF PrevSettles, ChainWaiters
      <3>4. ASSUME NEW u \in ChainHolders[k]
            PROVE  FALSE
        <4>1. u \in Caller /\ stage[u] = "inside" /\ onKey[u] = k
          BY DEF ChainHolders
        <4>2. arrivals[k][1] = u
          BY <4>1, InsideFirst
        <4>3. arrivals[k][1] = t
          BY <2>2, <3>1, ResumesFirst
        <4>. QED  BY <2>2, <4>1, <4>2, <4>3 DEF PrevSettles
      <3>5. ChainHolders[k] = {}
        BY <3>4
      <3>. QED  BY <3>2, <3>3, <3>5 DEF JsLock!Enter
    <2>3. ASSUME NEW t \in Caller, BodySettles(t)
          PROVE  \E k \in Key : JsLock!Leave(t, k)
      <3>1. PICK k \in Key : onKey[t] = k
        BY <2>3 DEF BodySettles, ChainTypeOK
      <3>2. /\ ChainHolders' = [ChainHolders EXCEPT ![k] = @ \ {t}]
            /\ ChainWaiters' = [ChainWaiters EXCEPT ![k] = @ \ {t}]
        BY <2>3, <3>1, OneTaskMoves DEF BodySettles, ChainTypeOK
      <3>3. t \in ChainHolders[k] /\ t \notin ChainWaiters[k]
        BY <2>3, <3>1 DEF BodySettles, ChainWaiters, ChainHolders
      <3>4. UNCHANGED ChainWaiters
        BY <2>0, <3>2, <3>3
      <3>. QED  BY <3>2, <3>3, <3>4 DEF JsLock!Leave
    <2>4. ASSUME NEW t \in Caller, TailSettles(t)
          PROVE  UNCHANGED JsLock!lockVars
      <3>1. \A k \in Key : ChainWaiters'[k] = ChainWaiters[k] /\ ChainHolders'[k] = ChainHolders[k]
        BY <2>4 DEF TailSettles, ChainTypeOK, ChainWaiters, ChainHolders
      <3>. QED  BY <3>1 DEF ChainWaiters, ChainHolders, JsLock!lockVars
    <2>5. CASE UNCHANGED chainVars
      BY <2>5 DEF chainVars, JsLock!lockVars, ChainWaiters, ChainHolders
    <2>. QED  BY <2>1, <2>2, <2>3, <2>4, <2>5 DEF ChainNext, JsLock!Next
  <1>. QED  BY <1>1, <1>2, Invariant, PTL DEF ChainSpec, ChainImplementsProxyLock, JsLock!Spec
===============================================================================
