------------------------- MODULE CommandQueueProofs -------------------------
(* Theorems about CommandQueue, for every set of calls, lanes and limits.  *)
EXTENDS CommandQueue, FiniteSetTheorems, SequenceTheorems, TLAPS

\* What the pump shifts: between none and all, and a queue keeps entries only
\* when the slots are used up (the while condition of pump).
LEMMA PumpCountFacts ==
    ASSUME NEW q \in Seq(Entries), NEW act \in SUBSET Entries,
           NEW max \in Nat \ {0}
    PROVE  LET n == PumpCount(q, act, max) IN
           /\ n \in 0..Len(q)
           /\ n < Len(q) => Cardinality(act) + n >= max
           /\ n > 0 => Cardinality(act) + n <= max
<1>1. Cardinality(act) \in Nat
    BY FS_Subset, FS_CardinalityType, EntriesAssumption
<1>2. Len(q) \in Nat
    OBVIOUS
<1> QED BY <1>1, <1>2 DEF PumpCount

\* The pump starts as many tasks as it shifts entries, for a queue without
\* repetitions whose entries hold no slot yet.
LEMMA HeadSetCardinality ==
    ASSUME NEW q \in Seq(Entries), NEW n \in 0..Len(q),
           NEW act \in SUBSET Entries,
           \A i, j \in 1..Len(q) : q[i] = q[j] => i = j,
           \A i \in 1..Len(q) : q[i] \notin act
    PROVE  /\ HeadSet(q, n) \subseteq Entries
           /\ Cardinality(act \cup HeadSet(q, n)) = Cardinality(act) + n
<1> DEFINE f == [i \in 1..n |-> q[i]]
<1>1. HeadSet(q, n) \subseteq Entries
    BY DEF HeadSet
<1>2. f \in Bijection(1..n, HeadSet(q, n))
  <2>1. f \in [1..n -> HeadSet(q, n)]
    BY DEF HeadSet
  <2>2. \A i, j \in 1..n : f[i] = f[j] => i = j
    OBVIOUS
  <2>3. \A t \in HeadSet(q, n) : \E i \in 1..n : f[i] = t
    BY DEF HeadSet
  <2> QED BY <2>1, <2>2, <2>3 DEF Bijection, Injection, Surjection, IsInjective
<1>3. IsFiniteSet(1..n) /\ Cardinality(1..n) = n
    BY FS_Interval
<1>4. IsFiniteSet(HeadSet(q, n)) /\ Cardinality(HeadSet(q, n)) = n
    BY <1>2, <1>3, FS_Bijection DEF ExistsBijection
<1>5. IsFiniteSet(act) /\ Cardinality(act) \in Nat
    BY FS_Subset, FS_CardinalityType, EntriesAssumption
<1>6. act \cap HeadSet(q, n) = {}
    BY DEF HeadSet
<1>7. Cardinality(act \cap HeadSet(q, n)) = 0
    BY <1>6, FS_EmptySet
<1>8. Cardinality(act \cup HeadSet(q, n)) = Cardinality(act) + n - 0
    BY <1>4, <1>5, <1>7, FS_Union
<1> QED BY <1>1, <1>5, <1>8

\* What remains in a queue after the pump: its elements from n + 1 on.
LEMMA RestFacts ==
    ASSUME NEW q \in Seq(Entries), NEW n \in 0..Len(q)
    PROVE  /\ Rest(q, n) \in Seq(Entries)
           /\ Len(Rest(q, n)) = Len(q) - n
           /\ \A i \in 1..Len(q) - n : n + i \in 1..Len(q) /\ Rest(q, n)[i] = q[n + i]
<1>1. \A i \in n + 1 .. Len(q) : q[i] \in Entries
    OBVIOUS
<1> QED BY <1>1, SubSeqProperties DEF Rest

-----------------------------------------------------------------------------
(* The inductive invariant, stated of the state that a handler hands to    *)
(* drainLane (q, act, gen, st, with taskGeneration tg), so that the pump   *)
(* is reasoned about once.                                                 *)

WellTyped(q, act, max, gen, tg, st) ==
    /\ q \in [Lanes -> Seq(Entries)]
    /\ act \in [Lanes -> SUBSET Entries]
    /\ max \in [Lanes -> Nat \ {0}]
    /\ gen \in [Lanes -> Nat]
    /\ tg \in [Entries -> Nat]
    /\ st \in [Entries -> Statuses]

QueueSound(q, st) ==
    \A l \in Lanes : \A i \in 1..Len(q[l]) :
        LaneOf[q[l][i]] = l /\ st[q[l][i]] = "queued"

QueueComplete(q, st) ==
    \A e \in Entries : st[e] = "queued" =>
        \E i \in 1..Len(q[LaneOf[e]]) : q[LaneOf[e]][i] = e

QueueInjective(q) ==
    \A l \in Lanes : \A i, j \in 1..Len(q[l]) : q[l][i] = q[l][j] => i = j

ActiveExact(act, gen, tg, st) ==
    \A l \in Lanes : \A e \in Entries :
        e \in act[l] <=> LaneOf[e] = l /\ st[e] = "running" /\ tg[e] = gen[l]

\* A running task never carries a generation its lane has not reached: after
\* a reset its captured generation differs from the new one.
PastGeneration(gen, tg, st) ==
    \A e \in Entries : st[e] = "running" => tg[e] <= gen[LaneOf[e]]

Consistent(q, act, gen, tg, st) ==
    /\ QueueSound(q, st)
    /\ QueueComplete(q, st)
    /\ QueueInjective(q)
    /\ ActiveExact(act, gen, tg, st)
    /\ PastGeneration(gen, tg, st)

\* Every lane outside ls with queued entries has its slots taken.
FullOutside(ls, q, act, max) ==
    \A l \in Lanes \ ls : Len(q[l]) > 0 => Cardinality(act[l]) >= max[l]

IInv ==
    /\ gatewayDraining \in BOOLEAN
    /\ WellTyped(queue, activeTaskIds, maxConcurrent, generation, taskGeneration, status)
    /\ Consistent(queue, activeTaskIds, generation, taskGeneration, status)
    /\ FullOutside({}, queue, activeTaskIds, maxConcurrent)

\* What a handler guarantees when it calls drainLane on the lanes ls ...
Ready(ls, q, act, max, gen, st) ==
    /\ WellTyped(q, act, max, gen, taskGeneration, st)
    /\ Consistent(q, act, gen, taskGeneration, st)
    /\ FullOutside(ls, q, act, max)

\* ... and what it finds afterwards.
Drained(act, max, gen, st) ==
    /\ WellTyped(queue', activeTaskIds', max, gen, taskGeneration', status')
    /\ Consistent(queue', activeTaskIds', gen, taskGeneration', status')
    /\ FullOutside({}, queue', activeTaskIds', max)
    /\ \A l \in Lanes : \/ activeTaskIds'[l] = act[l]
                        \/ Cardinality(activeTaskIds'[l]) <= max[l]
    /\ \A e \in Entries : status'[e] # st[e] => st[e] = "queued"

\* drainLane: from a consistent state in which only the lanes it drains may
\* have free slots and queued entries, it leaves a consistent state in which
\* no lane has both, and a lane that gained an active task is within its limit.
LEMMA DrainLanesCorrect ==
    ASSUME NEW ls \in SUBSET Lanes, NEW q, NEW act, NEW max, NEW gen, NEW st,
           Ready(ls, q, act, max, gen, st),
           DrainLanes(ls, q, act, max, gen, st)
    PROVE  Drained(act, max, gen, st)
<1> DEFINE n == [l \in Lanes |-> IF l \in ls THEN PumpCount(q[l], act[l], max[l]) ELSE 0]
           head(l) == HeadSet(q[l], n[l])
<1>0. /\ WellTyped(q, act, max, gen, taskGeneration, st)
      /\ Consistent(q, act, gen, taskGeneration, st)
      /\ FullOutside(ls, q, act, max)
  BY DEF Ready
<1> USE <1>0 DEF WellTyped
<1>1. ASSUME NEW l \in Lanes
      PROVE  /\ n[l] \in 0..Len(q[l])
             /\ n[l] < Len(q[l]) => Cardinality(act[l]) + n[l] >= max[l]
             /\ n[l] > 0 => Cardinality(act[l]) + n[l] <= max[l]
  <2>1. Cardinality(act[l]) \in Nat
    BY FS_Subset, FS_CardinalityType, EntriesAssumption
  <2>2. Len(q[l]) \in Nat
    OBVIOUS
  <2>3. CASE l \in ls
    BY <2>3, PumpCountFacts
  <2>4. CASE l \notin ls
    <3>1. n[l] = 0
      BY <2>4
    <3>2. Len(q[l]) > 0 => Cardinality(act[l]) >= max[l]
      BY <2>4 DEF FullOutside
    <3> QED BY <3>1, <3>2, <2>1, <2>2
  <2> QED BY <2>3, <2>4
<1>2. ASSUME NEW l \in Lanes, NEW e \in Entries
      PROVE  e \in head(l) <=> \E i \in 1..n[l] : q[l][i] = e
  BY DEF HeadSet
<1>3. ASSUME NEW l \in Lanes, NEW e \in head(l)
      PROVE  e \in Entries /\ LaneOf[e] = l /\ st[e] = "queued"
  <2>1. PICK i \in 1..n[l] : q[l][i] = e
    BY DEF HeadSet
  <2>2. i \in 1..Len(q[l])
    BY <1>1
  <2>3. q[l] \in Seq(Entries)
    OBVIOUS
  <2> HIDE DEF n, WellTyped
  <2>4. q[l][i] \in Entries
    BY <2>2, <2>3
  <2>5. LaneOf[q[l][i]] = l /\ st[q[l][i]] = "queued"
    BY <2>2 DEF Consistent, QueueSound
  <2> QED BY <2>1, <2>4, <2>5
<1>4. ASSUME NEW l \in Lanes
      PROVE  /\ queue'[l] \in Seq(Entries)
             /\ Len(queue'[l]) = Len(q[l]) - n[l]
             /\ \A i \in 1..Len(q[l]) - n[l] :
                    n[l] + i \in 1..Len(q[l]) /\ queue'[l][i] = q[l][n[l] + i]
  <2>1. queue'[l] = Rest(q[l], n[l])
    BY DEF DrainLanes
  <2>2. q[l] \in Seq(Entries)
    OBVIOUS
  <2>3. n[l] \in 0..Len(q[l])
    BY <1>1
  <2> HIDE DEF n, WellTyped
  <2>4. /\ Rest(q[l], n[l]) \in Seq(Entries)
        /\ Len(Rest(q[l], n[l])) = Len(q[l]) - n[l]
        /\ \A i \in 1..Len(q[l]) - n[l] : n[l] + i \in 1..Len(q[l])
                                         /\ Rest(q[l], n[l])[i] = q[l][n[l] + i]
    BY <2>2, <2>3, RestFacts
  <2> QED BY <2>1, <2>4
<1>5. ASSUME NEW l \in Lanes
      PROVE  /\ activeTaskIds'[l] = act[l] \cup head(l)
             /\ head(l) \subseteq Entries
             /\ Cardinality(activeTaskIds'[l]) = Cardinality(act[l]) + n[l]
  <2>1. activeTaskIds'[l] = act[l] \cup head(l)
    BY DEF DrainLanes
  <2>2. \A i, j \in 1..Len(q[l]) : q[l][i] = q[l][j] => i = j
    BY DEF Consistent, QueueInjective
  <2>3. \A i \in 1..Len(q[l]) : q[l][i] \notin act[l]
    BY DEF Consistent, QueueSound, ActiveExact
  <2>4. q[l] \in Seq(Entries) /\ act[l] \in SUBSET Entries
    OBVIOUS
  <2>5. n[l] \in 0..Len(q[l])
    BY <1>1
  <2> HIDE DEF n, WellTyped
  <2>6. /\ HeadSet(q[l], n[l]) \subseteq Entries
        /\ Cardinality(act[l] \cup HeadSet(q[l], n[l])) = Cardinality(act[l]) + n[l]
    BY <2>2, <2>3, <2>4, <2>5, HeadSetCardinality
  <2> QED BY <2>1, <2>6
<1>6. ASSUME NEW e \in Entries
      PROVE  /\ e \in head(LaneOf[e]) => /\ status'[e] = "running"
                                         /\ taskGeneration'[e] = gen[LaneOf[e]]
             /\ e \notin head(LaneOf[e]) => /\ status'[e] = st[e]
                                            /\ taskGeneration'[e] = taskGeneration[e]
  BY DEF DrainLanes
<1>7. \A e \in Entries : LaneOf[e] \in Lanes
  BY LaneOfAssumption
<1> HIDE DEF n
<1>8. WellTyped(queue', activeTaskIds', max, gen, taskGeneration', status')
  <2>1. queue' \in [Lanes -> Seq(Entries)]
    <3>1. queue' = [l \in Lanes |-> queue'[l]]
      BY DEF DrainLanes
    <3> QED BY <3>1, <1>4
  <2>2. activeTaskIds' \in [Lanes -> SUBSET Entries]
    <3>1. activeTaskIds' = [l \in Lanes |-> activeTaskIds'[l]]
      BY DEF DrainLanes
    <3> QED BY <3>1, <1>5
  <2>3. taskGeneration' \in [Entries -> Nat]
    <3>1. taskGeneration' = [e \in Entries |-> taskGeneration'[e]]
      BY DEF DrainLanes
    <3> QED BY <3>1, <1>6, <1>7
  <2>4. status' \in [Entries -> Statuses]
    <3>1. status' = [e \in Entries |-> status'[e]]
      BY DEF DrainLanes
    <3> QED BY <3>1, <1>6, <1>7 DEF Statuses
  <2> QED BY <2>1, <2>2, <2>3, <2>4
<1>9. QueueSound(queue', status')
  <2> SUFFICES ASSUME NEW l \in Lanes, NEW i \in 1..Len(queue'[l])
               PROVE  LaneOf[queue'[l][i]] = l /\ status'[queue'[l][i]] = "queued"
    BY DEF QueueSound
  <2> DEFINE e == queue'[l][i]
  <2>1. n[l] + i \in 1..Len(q[l]) /\ e = q[l][n[l] + i]
    BY <1>1, <1>4
  <2>2. e \in Entries /\ LaneOf[e] = l /\ st[e] = "queued"
    BY <2>1 DEF Consistent, QueueSound
  <2>3. e \notin head(l)
    <3>1. \A j \in 1..n[l] : j \in 1..Len(q[l]) /\ q[l][j] # e
      <4> SUFFICES ASSUME NEW j \in 1..n[l]
                   PROVE  j \in 1..Len(q[l]) /\ q[l][j] # e
        OBVIOUS
      <4>1. j \in 1..Len(q[l]) /\ j # n[l] + i
        BY <1>1
      <4> QED BY <4>1, <2>1 DEF Consistent, QueueInjective
    <3> QED BY <2>2, <3>1, <1>2
  <2> QED BY <2>2, <2>3, <1>6
<1>10. QueueComplete(queue', status')
  <2> SUFFICES ASSUME NEW e \in Entries, status'[e] = "queued"
               PROVE  \E i \in 1..Len(queue'[LaneOf[e]]) : queue'[LaneOf[e]][i] = e
    BY DEF QueueComplete
  <2>1. e \notin head(LaneOf[e]) /\ st[e] = "queued"
    BY <1>6
  <2>2. PICK j \in 1..Len(q[LaneOf[e]]) : q[LaneOf[e]][j] = e
    BY <2>1 DEF Consistent, QueueComplete
  <2>3. ~(j \in 1..n[LaneOf[e]])
    BY <2>1, <2>2, <1>2, <1>7
  <2>4. n[LaneOf[e]] \in 0..Len(q[LaneOf[e]]) /\ Len(q[LaneOf[e]]) \in Nat
    BY <1>1, <1>7
  <2>5. j - n[LaneOf[e]] \in 1..Len(q[LaneOf[e]]) - n[LaneOf[e]]
    BY SMTT(30), <2>3, <2>4
  <2>6. queue'[LaneOf[e]][j - n[LaneOf[e]]] = q[LaneOf[e]][n[LaneOf[e]] + (j - n[LaneOf[e]])]
    BY <2>5, <1>4, <1>7
  <2>7. n[LaneOf[e]] + (j - n[LaneOf[e]]) = j
    BY <2>4
  <2> QED BY <2>2, <2>5, <2>6, <2>7, <1>4, <1>7
<1>11. QueueInjective(queue')
  <2> SUFFICES ASSUME NEW l \in Lanes, NEW i \in 1..Len(queue'[l]),
                      NEW j \in 1..Len(queue'[l]), queue'[l][i] = queue'[l][j]
               PROVE  i = j
    BY DEF QueueInjective
  <2>1. q[l][n[l] + i] = q[l][n[l] + j] /\ n[l] + i \in 1..Len(q[l]) /\ n[l] + j \in 1..Len(q[l])
    BY <1>4
  <2>2. n[l] + i = n[l] + j
    BY <2>1 DEF Consistent, QueueInjective
  <2> QED BY <2>2, <1>1
<1>12. ActiveExact(activeTaskIds', gen, taskGeneration', status')
  <2> SUFFICES ASSUME NEW l \in Lanes, NEW e \in Entries
               PROVE  e \in activeTaskIds'[l] <=>
                          /\ LaneOf[e] = l /\ status'[e] = "running"
                          /\ taskGeneration'[e] = gen[l]
    BY DEF ActiveExact
  <2>1. e \in act[l] <=> LaneOf[e] = l /\ st[e] = "running" /\ taskGeneration[e] = gen[l]
    BY DEF Consistent, ActiveExact
  <2>2. CASE e \in head(l)
    BY <2>2, <1>3, <1>5, <1>6
  <2>3. CASE e \notin head(l)
    <3>1. e \in activeTaskIds'[l] <=> e \in act[l]
      BY <2>3, <1>5
    <3>2. CASE LaneOf[e] = l
      BY <3>1, <3>2, <2>1, <2>3, <1>6
    <3>3. CASE LaneOf[e] # l
      BY <3>1, <3>3, <2>1
    <3> QED BY <3>2, <3>3
  <2> QED BY <2>2, <2>3
<1>13. PastGeneration(gen, taskGeneration', status')
  <2> SUFFICES ASSUME NEW e \in Entries, status'[e] = "running"
               PROVE  taskGeneration'[e] <= gen[LaneOf[e]]
    BY DEF PastGeneration
  <2>1. CASE e \in head(LaneOf[e])
    BY <2>1, <1>6, <1>7
  <2>2. CASE e \notin head(LaneOf[e])
    BY <2>2, <1>6 DEF Consistent, PastGeneration
  <2> QED BY <2>1, <2>2
<1>14. FullOutside({}, queue', activeTaskIds', max)
  <2> SUFFICES ASSUME NEW l \in Lanes, Len(queue'[l]) > 0
               PROVE  Cardinality(activeTaskIds'[l]) >= max[l]
    BY DEF FullOutside
  <2>1. n[l] < Len(q[l])
    BY <1>1, <1>4
  <2> QED BY <2>1, <1>1, <1>5
<1>15. ASSUME NEW l \in Lanes
       PROVE  \/ activeTaskIds'[l] = act[l]
              \/ Cardinality(activeTaskIds'[l]) <= max[l]
  <2>1. CASE n[l] = 0
    <3>1. head(l) = {}
      BY <2>1 DEF HeadSet
    <3> QED BY <3>1, <1>5
  <2>2. CASE n[l] > 0
    BY <2>2, <1>1, <1>5
  <2> QED BY <2>1, <2>2, <1>1
<1>16. ASSUME NEW e \in Entries, status'[e] # st[e]
       PROVE  st[e] = "queued"
  BY SMTT(30), <1>16, <1>3, <1>6, <1>7
<1> QED BY <1>8, <1>9, <1>10, <1>11, <1>12, <1>13, <1>14, <1>15, <1>16
    DEF Consistent, Drained

-----------------------------------------------------------------------------
(* One lemma per operation: it preserves the invariant, starts tasks only  *)
(* within the limit and leaves settled promises alone.                     *)

GoodStep ==
    /\ IInv'
    /\ \A l \in Lanes : \/ activeTaskIds'[l] \subseteq activeTaskIds[l]
                        \/ Cardinality(activeTaskIds'[l]) <= maxConcurrent'[l]
    /\ \A e \in Entries : status[e] \in Settled => status'[e] = status[e]

\* The empty queue of a started process satisfies the inductive invariant.
LEMMA InitIInv == Init => IInv
<1> SUFFICES ASSUME Init PROVE IInv
    OBVIOUS
<1>1. WellTyped(queue, activeTaskIds, maxConcurrent, generation, taskGeneration, status)
    BY DEF Init, WellTyped, Statuses
<1>2. Consistent(queue, activeTaskIds, generation, taskGeneration, status)
    BY DEF Init, Consistent, QueueSound, QueueComplete, QueueInjective, ActiveExact,
           PastGeneration
<1>3. FullOutside({}, queue, activeTaskIds, maxConcurrent)
    BY DEF Init, FullOutside
<1> QED BY <1>1, <1>2, <1>3 DEF IInv, Init

\* A call that is refused while the gateway drains.
LEMMA EnqueueRefusedGood ==
    ASSUME IInv, NEW e \in Entries, EnqueueRefused(e)
    PROVE  GoodStep
<1> USE DEF EnqueueRefused
<1>1. WellTyped(queue, activeTaskIds, maxConcurrent, generation, taskGeneration, status')
    BY DEF IInv, WellTyped, Statuses, Settled
<1>2. \A f \in Entries : /\ status'[f] = "queued" <=> status[f] = "queued"
                         /\ status'[f] = "running" <=> status[f] = "running"
    BY DEF IInv, WellTyped
<1>3. QueueSound(queue, status')
  <2> SUFFICES ASSUME NEW l \in Lanes, NEW i \in 1..Len(queue[l])
               PROVE  LaneOf[queue[l][i]] = l /\ status'[queue[l][i]] = "queued"
    BY DEF QueueSound
  <2>1. queue[l][i] \in Entries
    BY DEF IInv, WellTyped
  <2>2. LaneOf[queue[l][i]] = l /\ status[queue[l][i]] = "queued"
    BY DEF IInv, Consistent, QueueSound
  <2> QED BY <2>1, <2>2, <1>2
<1>4. QueueComplete(queue, status')
    BY <1>2 DEF IInv, Consistent, QueueComplete
<1>5. ActiveExact(activeTaskIds, generation, taskGeneration, status')
    BY <1>2 DEF IInv, Consistent, ActiveExact
<1>6. PastGeneration(generation, taskGeneration, status')
    BY <1>2 DEF IInv, Consistent, PastGeneration
<1>7. IInv'
    BY <1>1, <1>3, <1>4, <1>5, <1>6 DEF IInv, Consistent
<1>8. \A f \in Entries : status[f] \in Settled => status'[f] = status[f]
    BY DEF IInv, WellTyped, Settled
<1> QED BY <1>7, <1>8 DEF GoodStep

\* What enqueueCommandInLane hands to drainLane: the call at the end of its
\* lane, and its promise pending.
Pushed(e)  == [queue EXCEPT ![LaneOf[e]] = Append(@, e)]
Pending(e) == [status EXCEPT ![e] = "queued"]

LEMMA EnqueueReady ==
    ASSUME IInv, NEW e \in Entries, Enqueue(e)
    PROVE  /\ status[e] = "fresh" /\ {LaneOf[e]} \in SUBSET Lanes
           /\ \A f \in Entries : f # e => Pending(e)[f] = status[f]
           /\ Ready({LaneOf[e]}, Pushed(e), activeTaskIds, maxConcurrent, generation,
                    Pending(e))
           /\ DrainLanes({LaneOf[e]}, Pushed(e), activeTaskIds, maxConcurrent, generation,
                         Pending(e))
<1> DEFINE k == LaneOf[e]
           q == Pushed(e)
           st == Pending(e)
<1> USE DEF Pushed, Pending
<1>0. k \in Lanes /\ status[e] = "fresh"
    BY LaneOfAssumption DEF Enqueue
<1>1. DrainLanes({k}, q, activeTaskIds, maxConcurrent, generation, st)
    BY DEF Enqueue, Push
<1>t. /\ queue \in [Lanes -> Seq(Entries)]
      /\ activeTaskIds \in [Lanes -> SUBSET Entries]
      /\ maxConcurrent \in [Lanes -> Nat \ {0}]
      /\ generation \in [Lanes -> Nat]
      /\ taskGeneration \in [Entries -> Nat]
      /\ status \in [Entries -> Statuses]
    BY DEF IInv, WellTyped
<1>2. WellTyped(q, activeTaskIds, maxConcurrent, generation, taskGeneration, st)
    BY <1>0, <1>t DEF WellTyped, Statuses
<1>3. \A l \in Lanes : l # k => q[l] = queue[l]
    BY <1>0, <1>t
<1>4. /\ Len(q[k]) = Len(queue[k]) + 1
      /\ \A i \in 1..Len(queue[k]) : q[k][i] = queue[k][i]
      /\ q[k][Len(queue[k]) + 1] = e
    BY <1>0, <1>t
<1>5. \A f \in Entries : f # e => st[f] = status[f]
    BY <1>t
<1>6. st[e] = "queued"
    BY <1>t
<1>7. \A l \in Lanes : \A i \in 1..Len(queue[l]) :
          /\ queue[l][i] \in Entries \ {e}
          /\ LaneOf[queue[l][i]] = l
          /\ status[queue[l][i]] = "queued"
    BY <1>0, <1>t DEF IInv, Consistent, QueueSound
<1>n. Len(queue[k]) \in Nat
    BY <1>0, <1>t
<1> HIDE DEF q, st, k, Pushed, Pending
<1>8. QueueSound(q, st)
  <2> SUFFICES ASSUME NEW l \in Lanes, NEW i \in 1..Len(q[l])
               PROVE  LaneOf[q[l][i]] = l /\ st[q[l][i]] = "queued"
    BY DEF QueueSound
  <2>1. CASE l # k
    BY <2>1, <1>3, <1>5, <1>7
  <2>2. CASE l = k /\ i <= Len(queue[k])
    BY <2>2, <1>4, <1>5, <1>7, <1>n
  <2>3. CASE l = k /\ i = Len(queue[k]) + 1
    BY <2>3, <1>4, <1>6 DEF k
  <2> QED BY <2>1, <2>2, <2>3, <1>4, <1>n
<1>9. QueueComplete(q, st)
  <2> SUFFICES ASSUME NEW f \in Entries, st[f] = "queued"
               PROVE  \E i \in 1..Len(q[LaneOf[f]]) : q[LaneOf[f]][i] = f
    BY DEF QueueComplete
  <2>1. CASE f = e
    BY <2>1, <1>4, <1>n DEF k
  <2>2. CASE f # e
    <3>1. PICK i \in 1..Len(queue[LaneOf[f]]) : queue[LaneOf[f]][i] = f
      BY <2>2, <1>5 DEF IInv, Consistent, QueueComplete
    <3>2. CASE LaneOf[f] = k
      BY <3>1, <3>2, <1>4, <1>n
    <3>3. CASE LaneOf[f] # k
      BY <3>1, <3>3, <1>3, LaneOfAssumption
    <3> QED BY <3>2, <3>3
  <2> QED BY <2>1, <2>2
<1>10. QueueInjective(q)
  <2> SUFFICES ASSUME NEW l \in Lanes, NEW i \in 1..Len(q[l]), NEW j \in 1..Len(q[l]),
                      q[l][i] = q[l][j]
               PROVE  i = j
    BY DEF QueueInjective
  <2>1. CASE l # k
    BY <2>1, <1>3 DEF IInv, Consistent, QueueInjective
  <2>2. CASE l = k
    <3>1. CASE i <= Len(queue[k]) /\ j <= Len(queue[k])
      <4>1. i \in 1..Len(queue[k]) /\ j \in 1..Len(queue[k])
        BY <3>1, <2>2, <1>n
      <4>2. queue[k][i] = queue[k][j]
        BY <4>1, <2>2, <1>4
      <4> QED BY <4>1, <4>2, <1>0 DEF IInv, Consistent, QueueInjective
    <3>2. CASE i = Len(queue[k]) + 1 /\ j <= Len(queue[k])
      BY <3>2, <2>2, <1>4, <1>7, <1>0, <1>n
    <3>3. CASE i <= Len(queue[k]) /\ j = Len(queue[k]) + 1
      BY <3>3, <2>2, <1>4, <1>7, <1>0, <1>n
    <3>4. CASE i = Len(queue[k]) + 1 /\ j = Len(queue[k]) + 1
      BY <3>4
    <3> QED BY <3>1, <3>2, <3>3, <3>4, <2>2, <1>4, <1>n
  <2> QED BY <2>1, <2>2
<1>11. ActiveExact(activeTaskIds, generation, taskGeneration, st)
    BY <1>0, <1>5, <1>6 DEF IInv, Consistent, ActiveExact
<1>12. PastGeneration(generation, taskGeneration, st)
    BY <1>5, <1>6 DEF IInv, Consistent, PastGeneration
<1>13. FullOutside({k}, q, activeTaskIds, maxConcurrent)
    BY <1>3 DEF IInv, FullOutside
<1>14. Consistent(q, activeTaskIds, generation, taskGeneration, st)
    BY <1>8, <1>9, <1>10, <1>11, <1>12 DEF Consistent
<1>15. {k} \in SUBSET Lanes
    BY <1>0
<1>16. Ready({k}, q, activeTaskIds, maxConcurrent, generation, st)
    BY <1>2, <1>13, <1>14 DEF Ready
<1> QED BY <1>0, <1>1, <1>5, <1>15, <1>16 DEF k, q, st

\* A call that is pushed onto its lane, and the drain of the lane.
LEMMA EnqueueGood ==
    ASSUME IInv, NEW e \in Entries, Enqueue(e)
    PROVE  GoodStep
<1>1. Drained(activeTaskIds, maxConcurrent, generation, Pending(e))
    BY EnqueueReady, DrainLanesCorrect
<1>2. gatewayDraining' = gatewayDraining /\ maxConcurrent' = maxConcurrent
      /\ generation' = generation
    BY DEF Enqueue
<1>3. IInv'
    BY <1>1, <1>2 DEF IInv, Drained
<1>4. \A f \in Entries : status[f] \in Settled => status'[f] = status[f]
    BY <1>1, EnqueueReady DEF Settled, Drained
<1> QED BY <1>1, <1>2, <1>3, <1>4 DEF GoodStep, Drained

\* A task that ends, with the drain of its lane or, after a reset, without.
LEMMA SettleGood ==
    ASSUME IInv, NEW e \in Entries, Settle(e)
    PROVE  GoodStep
<1> DEFINE k == LaneOf[e]
           act == [activeTaskIds EXCEPT ![k] = @ \ {e}]
<1>t. /\ queue \in [Lanes -> Seq(Entries)]
      /\ activeTaskIds \in [Lanes -> SUBSET Entries]
      /\ maxConcurrent \in [Lanes -> Nat \ {0}]
      /\ generation \in [Lanes -> Nat]
      /\ taskGeneration \in [Entries -> Nat]
      /\ status \in [Entries -> Statuses]
      /\ k \in Lanes /\ status[e] = "running"
      /\ gatewayDraining' = gatewayDraining /\ maxConcurrent' = maxConcurrent
      /\ generation' = generation
    BY LaneOfAssumption DEF IInv, WellTyped, Settle
<1>1. PICK result \in {"resolved", "rejected"} :
          IF taskGeneration[e] = generation[k]
          THEN DrainLanes({k}, queue, act, maxConcurrent, generation,
                          [status EXCEPT ![e] = result])
          ELSE /\ status' = [status EXCEPT ![e] = result]
               /\ UNCHANGED <<queue, activeTaskIds, taskGeneration>>
    BY DEF Settle
<1> DEFINE st == [status EXCEPT ![e] = result]
<1>2. \A f \in Entries : f # e => st[f] = status[f]
    BY <1>t
<1>3. st[e] = result /\ st \in [Entries -> Statuses]
    BY <1>t DEF Statuses, Settled
<1>4. \A f \in Entries : /\ st[f] = "queued" <=> status[f] = "queued"
                         /\ st[f] = "running" <=> (status[f] = "running" /\ f # e)
    BY <1>t, <1>2, <1>3
<1>5. QueueSound(queue, st)
  <2> SUFFICES ASSUME NEW l \in Lanes, NEW i \in 1..Len(queue[l])
               PROVE  LaneOf[queue[l][i]] = l /\ st[queue[l][i]] = "queued"
    BY DEF QueueSound
  <2>1. queue[l][i] \in Entries
    BY <1>t
  <2>2. LaneOf[queue[l][i]] = l /\ status[queue[l][i]] = "queued"
    BY DEF IInv, Consistent, QueueSound
  <2> QED BY <2>1, <2>2, <1>4
<1>6. QueueComplete(queue, st) /\ QueueInjective(queue)
    BY <1>4 DEF IInv, Consistent, QueueComplete
<1>7. PastGeneration(generation, taskGeneration, st)
    BY <1>4 DEF IInv, Consistent, PastGeneration
<1>8. CASE taskGeneration[e] = generation[k]
  <2>1. DrainLanes({k}, queue, act, maxConcurrent, generation, st)
    BY <1>1, <1>8
  <2>2. /\ \A l \in Lanes : l # k => act[l] = activeTaskIds[l]
        /\ act[k] = activeTaskIds[k] \ {e}
        /\ act \in [Lanes -> SUBSET Entries]
    BY <1>t
  <2> HIDE DEF st, act, k
  <2>3. WellTyped(queue, act, maxConcurrent, generation, taskGeneration, st)
    BY <1>t, <1>3, <2>2 DEF WellTyped
  <2>4. ActiveExact(act, generation, taskGeneration, st)
    <3> SUFFICES ASSUME NEW l \in Lanes, NEW f \in Entries
                 PROVE  f \in act[l] <=> /\ LaneOf[f] = l /\ st[f] = "running"
                                         /\ taskGeneration[f] = generation[l]
      BY DEF ActiveExact
    <3>1. f \in activeTaskIds[l] <=> /\ LaneOf[f] = l /\ status[f] = "running"
                                     /\ taskGeneration[f] = generation[l]
      BY DEF IInv, Consistent, ActiveExact
    <3>2. CASE l = k
      BY <3>1, <3>2, <2>2, <1>4
    <3>3. CASE l # k
      BY <3>1, <3>3, <2>2, <1>4 DEF k
    <3> QED BY <3>2, <3>3
  <2>5. Consistent(queue, act, generation, taskGeneration, st)
    BY <2>4, <1>5, <1>6, <1>7 DEF Consistent
  <2>6. FullOutside({k}, queue, act, maxConcurrent)
    BY <2>2 DEF IInv, FullOutside
  <2>7. {k} \in SUBSET Lanes
    BY <1>t
  <2>8. Ready({k}, queue, act, maxConcurrent, generation, st)
    BY <2>3, <2>5, <2>6 DEF Ready
  <2>9. Drained(act, maxConcurrent, generation, st)
    BY <2>1, <2>7, <2>8, DrainLanesCorrect
  <2>10. IInv'
    BY <2>9, <1>t DEF IInv, Drained
  <2>11. \A l \in Lanes : act[l] \subseteq activeTaskIds[l]
    BY <2>2
  <2>12. \A f \in Entries : status[f] \in Settled => status'[f] = status[f]
    BY <1>t, <1>2, <2>9 DEF Settled, Drained
  <2> QED BY <2>9, <2>10, <2>11, <2>12, <1>t DEF GoodStep, Drained
<1>9. CASE taskGeneration[e] # generation[k]
  <2>1. status' = st /\ UNCHANGED <<queue, activeTaskIds, taskGeneration>>
    BY <1>1, <1>9
  <2> HIDE DEF st
  <2>2. ActiveExact(activeTaskIds, generation, taskGeneration, st)
    BY <1>4, <1>9 DEF IInv, Consistent, ActiveExact
  <2>3. WellTyped(queue, activeTaskIds, maxConcurrent, generation, taskGeneration, st)
    BY <1>t, <1>3 DEF WellTyped
  <2>4. IInv'
    BY <2>1, <2>2, <2>3, <1>t, <1>5, <1>6, <1>7 DEF IInv, Consistent
  <2>5. \A f \in Entries : status[f] \in Settled => status'[f] = status[f]
    BY <1>t, <1>2, <2>1 DEF Settled
  <2> QED BY <2>1, <2>4, <2>5 DEF GoodStep
<1> QED BY <1>8, <1>9

\* clearCommandLane: the entries it empties out of the lane settle.
LEMMA ClearCommandLaneGood ==
    ASSUME IInv, NEW k \in Lanes, ClearCommandLane(k)
    PROVE  GoodStep
<1> DEFINE cleared == HeadSet(queue[k], Len(queue[k]))
<1>t. /\ queue \in [Lanes -> Seq(Entries)]
      /\ activeTaskIds \in [Lanes -> SUBSET Entries]
      /\ maxConcurrent \in [Lanes -> Nat \ {0}]
      /\ generation \in [Lanes -> Nat]
      /\ taskGeneration \in [Entries -> Nat]
      /\ status \in [Entries -> Statuses]
    BY DEF IInv, WellTyped
<1>1. UNCHANGED <<gatewayDraining, activeTaskIds, maxConcurrent, generation, taskGeneration>>
    BY DEF ClearCommandLane
<1>2. /\ \A l \in Lanes : l # k => queue'[l] = queue[l]
      /\ queue'[k] = <<>>
      /\ queue' \in [Lanes -> Seq(Entries)]
    BY <1>t DEF ClearCommandLane
<1>3. status' = [e \in Entries |-> IF e \in cleared THEN "cleared" ELSE status[e]]
    BY DEF ClearCommandLane
<1>4. \A e \in Entries : e \in cleared <=> LaneOf[e] = k /\ status[e] = "queued"
  <2> SUFFICES ASSUME NEW e \in Entries
               PROVE  e \in cleared <=> LaneOf[e] = k /\ status[e] = "queued"
    OBVIOUS
  <2>1. e \in cleared <=> \E i \in 1..Len(queue[k]) : queue[k][i] = e
    BY DEF HeadSet
  <2>2. (\E i \in 1..Len(queue[k]) : queue[k][i] = e) => LaneOf[e] = k /\ status[e] = "queued"
    BY DEF IInv, Consistent, QueueSound
  <2>3. LaneOf[e] = k /\ status[e] = "queued" => \E i \in 1..Len(queue[k]) : queue[k][i] = e
    BY DEF IInv, Consistent, QueueComplete
  <2> QED BY <2>1, <2>2, <2>3
<1> HIDE DEF cleared
<1>5. \A e \in Entries :
          /\ status'[e] = "queued" <=> (status[e] = "queued" /\ LaneOf[e] # k)
          /\ status'[e] = "running" <=> status[e] = "running"
          /\ status'[e] # status[e] => status[e] = "queued"
    BY <1>3, <1>4
<1>6. status' \in [Entries -> Statuses]
    BY <1>t, <1>3 DEF Statuses, Settled
<1>7. WellTyped(queue', activeTaskIds, maxConcurrent, generation, taskGeneration, status')
    BY <1>t, <1>2, <1>6 DEF WellTyped
<1>8. QueueSound(queue', status')
  <2> SUFFICES ASSUME NEW l \in Lanes, NEW i \in 1..Len(queue'[l])
               PROVE  LaneOf[queue'[l][i]] = l /\ status'[queue'[l][i]] = "queued"
    BY DEF QueueSound
  <2>1. l # k
    BY <1>2
  <2>2. queue'[l] = queue[l] /\ queue[l][i] \in Entries
    BY <2>1, <1>2, <1>t
  <2>3. LaneOf[queue[l][i]] = l /\ status[queue[l][i]] = "queued"
    BY <2>2 DEF IInv, Consistent, QueueSound
  <2> QED BY <2>1, <2>2, <2>3, <1>5
<1>9. QueueComplete(queue', status')
  <2> SUFFICES ASSUME NEW e \in Entries, status'[e] = "queued"
               PROVE  \E i \in 1..Len(queue'[LaneOf[e]]) : queue'[LaneOf[e]][i] = e
    BY DEF QueueComplete
  <2>1. status[e] = "queued" /\ LaneOf[e] # k
    BY <1>5
  <2>2. queue'[LaneOf[e]] = queue[LaneOf[e]]
    BY <2>1, <1>2, LaneOfAssumption
  <2> QED BY <2>1, <2>2 DEF IInv, Consistent, QueueComplete
<1>10. QueueInjective(queue')
  <2> SUFFICES ASSUME NEW l \in Lanes, NEW i \in 1..Len(queue'[l]),
                      NEW j \in 1..Len(queue'[l]), queue'[l][i] = queue'[l][j]
               PROVE  i = j
    BY DEF QueueInjective
  <2>1. queue'[l] = queue[l]
    BY <1>2
  <2> QED BY <2>1 DEF IInv, Consistent, QueueInjective
<1>11. ActiveExact(activeTaskIds, generation, taskGeneration, status')
    BY <1>5 DEF IInv, Consistent, ActiveExact
<1>12. PastGeneration(generation, taskGeneration, status')
    BY <1>5 DEF IInv, Consistent, PastGeneration
<1>13. FullOutside({}, queue', activeTaskIds, maxConcurrent)
    BY <1>2 DEF IInv, FullOutside
<1>14. IInv'
    BY <1>1, <1>7, <1>8, <1>9, <1>10, <1>11, <1>12, <1>13 DEF IInv, Consistent
<1>15. \A e \in Entries : status[e] \in Settled => status'[e] = status[e]
    BY <1>5 DEF Settled
<1> QED BY <1>1, <1>14, <1>15 DEF GoodStep

\* A change of a lane's limit, and the drain of the lane.
LEMMA SetCommandLaneConcurrencyGood ==
    ASSUME IInv, NEW k \in Lanes, NEW n \in 0..MaxLimit, SetCommandLaneConcurrency(k, n)
    PROVE  GoodStep
<1> DEFINE max == [maxConcurrent EXCEPT ![k] = Limit(n)]
<1>1. /\ maxConcurrent' = max
      /\ DrainLanes({k}, queue, activeTaskIds, max, generation, status)
      /\ UNCHANGED <<gatewayDraining, generation>>
    BY DEF SetCommandLaneConcurrency
<1>2. max \in [Lanes -> Nat \ {0}] /\ \A l \in Lanes : l # k => max[l] = maxConcurrent[l]
    BY MaxLimitAssumption DEF IInv, WellTyped, Limit
<1> HIDE DEF max
<1>3. WellTyped(queue, activeTaskIds, max, generation, taskGeneration, status)
    BY <1>2 DEF IInv, WellTyped
<1>4. Consistent(queue, activeTaskIds, generation, taskGeneration, status)
    BY DEF IInv
<1>5. FullOutside({k}, queue, activeTaskIds, max)
    BY <1>2 DEF IInv, FullOutside
<1>6. {k} \in SUBSET Lanes
    OBVIOUS
<1>7. Ready({k}, queue, activeTaskIds, max, generation, status)
    BY <1>3, <1>4, <1>5 DEF Ready
<1>8. Drained(activeTaskIds, max, generation, status)
    BY <1>1, <1>6, <1>7, DrainLanesCorrect
<1>9. IInv'
    BY <1>1, <1>8 DEF IInv, Drained
<1>10. \A f \in Entries : status[f] \in Settled => status'[f] = status[f]
    BY <1>8 DEF Settled, Drained
<1> QED BY <1>1, <1>8, <1>9, <1>10 DEF GoodStep, Drained

\* resetAllLanes, and the drain of the lanes that still hold entries.
LEMMA ResetAllLanesGood ==
    ASSUME IInv, ResetAllLanes
    PROVE  GoodStep
<1> DEFINE ls == {l \in Lanes : queue[l] # <<>>}
           act == IdsAfterReset
<1>t. /\ queue \in [Lanes -> Seq(Entries)]
      /\ activeTaskIds \in [Lanes -> SUBSET Entries]
      /\ maxConcurrent \in [Lanes -> Nat \ {0}]
      /\ generation \in [Lanes -> Nat]
      /\ taskGeneration \in [Entries -> Nat]
      /\ status \in [Entries -> Statuses]
    BY DEF IInv, WellTyped
<1>1. /\ gatewayDraining' = FALSE /\ maxConcurrent' = maxConcurrent
      /\ generation' = [l \in Lanes |-> generation[l] + 1]
      /\ DrainLanes(ls, queue, act, maxConcurrent, generation', status)
    BY DEF ResetAllLanes
<1>2. act \in [Lanes -> SUBSET Entries] /\ \A l \in Lanes : act[l] = {}
    BY DEF IdsAfterReset
<1>3. generation' \in [Lanes -> Nat] /\ \A l \in Lanes : generation'[l] = generation[l] + 1
    BY <1>t, <1>1
<1> HIDE DEF act
<1>4. WellTyped(queue, act, maxConcurrent, generation', taskGeneration, status)
    BY <1>t, <1>2, <1>3 DEF WellTyped
<1>5. ActiveExact(act, generation', taskGeneration, status)
  <2> SUFFICES ASSUME NEW l \in Lanes, NEW e \in Entries, LaneOf[e] = l, status[e] = "running"
               PROVE  taskGeneration[e] # generation'[l]
    BY <1>2 DEF ActiveExact
  <2>1. taskGeneration[e] <= generation[l]
    BY DEF IInv, Consistent, PastGeneration
  <2> QED BY <2>1, <1>t, <1>3
<1>6. PastGeneration(generation', taskGeneration, status)
  <2> SUFFICES ASSUME NEW e \in Entries, status[e] = "running"
               PROVE  taskGeneration[e] <= generation'[LaneOf[e]]
    BY DEF PastGeneration
  <2>1. taskGeneration[e] <= generation[LaneOf[e]] /\ LaneOf[e] \in Lanes
    BY LaneOfAssumption DEF IInv, Consistent, PastGeneration
  <2> QED BY <2>1, <1>t, <1>3
<1>7. Consistent(queue, act, generation', taskGeneration, status)
    BY <1>5, <1>6 DEF IInv, Consistent
<1>8. FullOutside(ls, queue, act, maxConcurrent)
    BY <1>t DEF FullOutside
<1>9. ls \in SUBSET Lanes
    OBVIOUS
<1> HIDE DEF ls
<1>10. Ready(ls, queue, act, maxConcurrent, generation', status)
    BY <1>4, <1>7, <1>8 DEF Ready
<1>11. Drained(act, maxConcurrent, generation', status)
    BY <1>1, <1>9, <1>10, DrainLanesCorrect
<1>12. IInv'
    BY <1>1, <1>11 DEF IInv, Drained
<1>13. \A f \in Entries : status[f] \in Settled => status'[f] = status[f]
    BY <1>11 DEF Settled, Drained
<1>14. \A l \in Lanes : act[l] \subseteq activeTaskIds[l]
    BY <1>2
<1> QED BY <1>1, <1>11, <1>12, <1>13, <1>14 DEF GoodStep, Drained

\* Stuttering, and steps that only touch the draining flag.
LEMMA UnchangedGood ==
    ASSUME IInv, gatewayDraining' \in BOOLEAN,
           UNCHANGED <<queue, activeTaskIds, maxConcurrent, generation, taskGeneration, status>>
    PROVE  GoodStep
BY DEF GoodStep, IInv

\* Every step keeps the invariant, the limits and the settled promises.
LEMMA NextGood == IInv /\ [Next]_vars => GoodStep
<1> SUFFICES ASSUME IInv, [Next]_vars PROVE GoodStep
    OBVIOUS
<1>1. ASSUME NEW e \in Entries, EnqueueRefused(e) PROVE GoodStep
    BY <1>1, EnqueueRefusedGood
<1>2. ASSUME NEW e \in Entries, Enqueue(e) PROVE GoodStep
    BY <1>2, EnqueueGood
<1>3. ASSUME NEW e \in Entries, Settle(e) PROVE GoodStep
    BY <1>3, SettleGood
<1>4. ASSUME NEW l \in Lanes, ClearCommandLane(l) PROVE GoodStep
    BY <1>4, ClearCommandLaneGood
<1>5. ASSUME NEW l \in Lanes, NEW n \in 0..MaxLimit, SetCommandLaneConcurrency(l, n)
      PROVE  GoodStep
    BY <1>5, SetCommandLaneConcurrencyGood
<1>6. CASE MarkGatewayDraining
    BY <1>6, UnchangedGood DEF MarkGatewayDraining
<1>7. CASE ResetAllLanes
    BY <1>7, ResetAllLanesGood
<1>8. CASE UNCHANGED vars
    BY <1>8, UnchangedGood DEF vars, IInv
<1> QED BY <1>1, <1>2, <1>3, <1>4, <1>5, <1>6, <1>7, <1>8 DEF Next

-----------------------------------------------------------------------------
(* The order of a lane.                                                    *)

\* What a step owes to an entry e that waits: f, which stands behind e or has
\* not been enqueued, does not get past it.
KeepsOrder(e, f) ==
    \/ status'[e] # "queued"
    \/ status'[f] \in {"fresh", "refused"}
    \/ status'[f] = "queued" /\ Ahead(e, f)'

\* The pump starts entries that wait in a queue, and no others.
LEMMA DrainStartsQueued ==
    ASSUME NEW ls \in SUBSET Lanes, NEW q, NEW act, NEW max, NEW gen, NEW st,
           WellTyped(q, act, max, gen, taskGeneration, st), QueueSound(q, st),
           DrainLanes(ls, q, act, max, gen, st),
           NEW f \in Entries, st[f] # "queued"
    PROVE  status'[f] = st[f] /\ taskGeneration'[f] = taskGeneration[f]
<1> DEFINE n == [l \in Lanes |-> IF l \in ls THEN PumpCount(q[l], act[l], max[l]) ELSE 0]
           k == LaneOf[f]
<1>1. k \in Lanes
    BY LaneOfAssumption
<1>2. q[k] \in Seq(Entries) /\ act[k] \in SUBSET Entries /\ max[k] \in Nat \ {0}
    BY <1>1 DEF WellTyped
<1>3. n[k] \in 0..Len(q[k])
  <2>1. CASE k \in ls
    <3>1. n[k] = PumpCount(q[k], act[k], max[k])
      BY <1>1, <2>1
    <3> QED BY <1>2, <3>1, PumpCountFacts
  <2>2. CASE k \notin ls
    <3>1. n[k] = 0
      BY <1>1, <2>2
    <3> HIDE DEF n
    <3> QED BY <1>2, <3>1
  <2> QED BY <2>1, <2>2
<1>4. /\ status'[f] = IF f \in HeadSet(q[k], n[k]) THEN "running" ELSE st[f]
      /\ taskGeneration'[f] = IF f \in HeadSet(q[k], n[k]) THEN gen[k] ELSE taskGeneration[f]
    BY DEF DrainLanes
<1> HIDE DEF n
<1>5. f \notin HeadSet(q[k], n[k])
  <2> SUFFICES ASSUME NEW i \in 1..n[k], q[k][i] = f PROVE FALSE
    BY DEF HeadSet
  <2>1. i \in 1..Len(q[k])
    BY <1>2, <1>3
  <2> QED BY <1>1, <2>1 DEF QueueSound
<1> QED BY <1>4, <1>5

\* The pump takes entries from the front: of two entries of a lane, the one
\* behind neither starts nor moves ahead while the other one waits.
LEMMA DrainKeepsOrder ==
    ASSUME NEW ls \in SUBSET Lanes, NEW q, NEW act, NEW max, NEW gen, NEW st,
           WellTyped(q, act, max, gen, taskGeneration, st),
           QueueSound(q, st), QueueInjective(q),
           DrainLanes(ls, q, act, max, gen, st),
           NEW e \in Entries, NEW f \in Entries, LaneOf[e] = LaneOf[f],
           NEW i \in 1..Len(q[LaneOf[e]]), NEW j \in 1..Len(q[LaneOf[e]]),
           i < j, q[LaneOf[e]][i] = e, q[LaneOf[e]][j] = f
    PROVE  KeepsOrder(e, f)
<1> DEFINE n == [l \in Lanes |-> IF l \in ls THEN PumpCount(q[l], act[l], max[l]) ELSE 0]
           k == LaneOf[e]
<1>1. k \in Lanes
    BY LaneOfAssumption
<1>2. q[k] \in Seq(Entries) /\ act[k] \in SUBSET Entries /\ max[k] \in Nat \ {0}
    BY <1>1 DEF WellTyped
<1>3. n[k] \in 0..Len(q[k])
  <2>1. CASE k \in ls
    <3>1. n[k] = PumpCount(q[k], act[k], max[k])
      BY <1>1, <2>1
    <3> QED BY <1>2, <3>1, PumpCountFacts
  <2>2. CASE k \notin ls
    <3>1. n[k] = 0
      BY <1>1, <2>2
    <3> HIDE DEF n
    <3> QED BY <1>2, <3>1
  <2> QED BY <2>1, <2>2
<1>4. /\ status'[e] = IF e \in HeadSet(q[k], n[k]) THEN "running" ELSE st[e]
      /\ status'[f] = IF f \in HeadSet(q[k], n[k]) THEN "running" ELSE st[f]
      /\ queue'[k] = Rest(q[k], n[k])
    BY <1>1 DEF DrainLanes
<1> HIDE DEF n
<1>5. CASE i <= n[k]
  <2>1. i \in 1..n[k]
    BY <1>3, <1>5
  <2>2. e \in HeadSet(q[k], n[k])
    BY <2>1 DEF HeadSet
  <2> QED BY <1>4, <2>2 DEF KeepsOrder
<1>6. CASE i > n[k]
  <2>1. f \notin HeadSet(q[k], n[k])
    <3> SUFFICES ASSUME NEW m \in 1..n[k], q[k][m] = f PROVE FALSE
      BY DEF HeadSet
    <3>1. m \in 1..Len(q[k]) /\ m < j
      BY <1>2, <1>3, <1>6
    <3> QED BY <1>1, <3>1 DEF QueueInjective
  <2>2. st[f] = "queued"
    BY <1>1 DEF QueueSound
  <2>3. /\ Len(queue'[k]) = Len(q[k]) - n[k]
        /\ \A m \in 1..Len(q[k]) - n[k] : queue'[k][m] = q[k][n[k] + m]
    <3>1. /\ Len(Rest(q[k], n[k])) = Len(q[k]) - n[k]
          /\ \A m \in 1..Len(q[k]) - n[k] : Rest(q[k], n[k])[m] = q[k][n[k] + m]
      BY <1>2, <1>3, RestFacts
    <3> QED BY <1>4, <3>1
  <2>4. /\ i - n[k] \in 1..Len(q[k]) - n[k] /\ j - n[k] \in 1..Len(q[k]) - n[k]
        /\ i - n[k] < j - n[k]
        /\ n[k] + (i - n[k]) = i /\ n[k] + (j - n[k]) = j
    BY SMTT(30), <1>2, <1>3, <1>6
  <2>5. queue'[k][i - n[k]] = e /\ queue'[k][j - n[k]] = f
    BY <2>3, <2>4
  <2>6. Ahead(e, f)'
    BY <2>3, <2>4, <2>5 DEF Ahead
  <2> QED BY <1>4, <2>1, <2>2, <2>6 DEF KeepsOrder
<1> QED BY <1>2, <1>3, <1>5, <1>6


\* A drain of the queues as they are, of lanes in which f waits behind e.
LEMMA DrainFifo ==
    ASSUME NEW ls \in SUBSET Lanes, NEW act, NEW max, NEW gen, NEW st,
           WellTyped(queue, act, max, gen, taskGeneration, st),
           QueueSound(queue, st), QueueInjective(queue),
           DrainLanes(ls, queue, act, max, gen, st),
           NEW e \in Entries, NEW f \in Entries, LaneOf[e] = LaneOf[f],
           st[f] = "fresh" \/ Ahead(e, f)
    PROVE  KeepsOrder(e, f)
<1>1. CASE st[f] = "fresh"
    BY <1>1, DrainStartsQueued DEF KeepsOrder
<1>2. CASE Ahead(e, f)
  <2>1. PICK i \in 1..Len(queue[LaneOf[e]]), j \in 1..Len(queue[LaneOf[e]]) :
            i < j /\ queue[LaneOf[e]][i] = e /\ queue[LaneOf[e]][j] = f
    BY <1>2 DEF Ahead
  <2> QED BY <2>1, DrainKeepsOrder
<1> QED BY <1>1, <1>2

\* No operation lets an entry pass another one of its lane.
LEMMA NextKeepsOrder ==
    ASSUME IInv, [Next]_vars, NEW e \in Entries, NEW f \in Entries,
           LaneOf[e] = LaneOf[f], e # f,
           status[e] = "queued", status[f] = "fresh" \/ Ahead(e, f)
    PROVE  KeepsOrder(e, f)
<1> DEFINE k == LaneOf[e]
<1>t. /\ WellTyped(queue, activeTaskIds, maxConcurrent, generation, taskGeneration, status)
      /\ QueueSound(queue, status) /\ QueueInjective(queue)
    BY DEF IInv, Consistent
<1>k. k \in Lanes
    BY LaneOfAssumption
<1>a. Ahead(e, f) => status[f] = "queued"
  <2> SUFFICES ASSUME NEW i \in 1..Len(queue[k]), NEW j \in 1..Len(queue[k]), queue[k][j] = f
               PROVE  status[f] = "queued"
    BY DEF Ahead
  <2> QED BY <1>t, <1>k DEF QueueSound
<1>u. ASSUME queue'[k] = queue[k], status'[f] = status[f]
      PROVE  KeepsOrder(e, f)
    BY <1>u, <1>a DEF KeepsOrder, Ahead
<1>1. ASSUME NEW g \in Entries, EnqueueRefused(g) PROVE KeepsOrder(e, f)
  <2>1. queue' = queue /\ status[g] = "fresh" /\ status' = [status EXCEPT ![g] = "refused"]
    BY <1>1 DEF EnqueueRefused
  <2>2. CASE g = f
    BY <1>t, <2>1, <2>2 DEF KeepsOrder, WellTyped
  <2>3. CASE g # f
    BY <1>t, <1>u, <2>1, <2>3 DEF WellTyped
  <2> QED BY <2>2, <2>3
<1>2. ASSUME NEW g \in Entries, Enqueue(g) PROVE KeepsOrder(e, f)
  <2> DEFINE q == Pushed(g)
             st == Pending(g)
  <2>1. /\ status[g] = "fresh" /\ {LaneOf[g]} \in SUBSET Lanes
        /\ \A h \in Entries : h # g => st[h] = status[h]
        /\ WellTyped(q, activeTaskIds, maxConcurrent, generation, taskGeneration, st)
        /\ QueueSound(q, st) /\ QueueInjective(q)
        /\ DrainLanes({LaneOf[g]}, q, activeTaskIds, maxConcurrent, generation, st)
    BY <1>2, EnqueueReady DEF Ready, Consistent
  <2>2. /\ queue[k] \in Seq(Entries) /\ Len(queue[k]) \in Nat
        /\ Len(queue[k]) <= Len(q[k])
        /\ \A i \in 1..Len(queue[k]) : q[k][i] = queue[k][i]
        /\ LaneOf[g] = k => Len(q[k]) = Len(queue[k]) + 1 /\ q[k][Len(queue[k]) + 1] = g
    BY SMTT(30), <1>t, <1>k DEF WellTyped, Pushed
  <2> HIDE DEF q, st
  <2>3. CASE f = g
    <3>1. PICK i \in 1..Len(queue[k]) : queue[k][i] = e
      BY DEF IInv, Consistent, QueueComplete
    <3>2. /\ i \in 1..Len(q[k]) /\ Len(queue[k]) + 1 \in 1..Len(q[k])
          /\ i < Len(queue[k]) + 1
          /\ q[k][i] = e /\ q[k][Len(queue[k]) + 1] = f
      BY <2>2, <2>3, <3>1
    <3> QED BY <2>1, <3>2, DrainKeepsOrder
  <2>4. CASE f # g /\ status[f] = "fresh"
    <3>1. status'[f] = "fresh"
      BY <2>1, <2>4, DrainStartsQueued
    <3> QED BY <3>1 DEF KeepsOrder
  <2>5. CASE Ahead(e, f)
    <3>1. PICK i \in 1..Len(queue[k]), j \in 1..Len(queue[k]) :
              i < j /\ queue[k][i] = e /\ queue[k][j] = f
      BY <2>5 DEF Ahead
    <3>2. /\ i \in 1..Len(q[k]) /\ j \in 1..Len(q[k])
          /\ q[k][i] = e /\ q[k][j] = f
      BY <2>2, <3>1
    <3> QED BY <2>1, <3>1, <3>2, DrainKeepsOrder
  <2> QED BY <2>3, <2>4, <2>5
<1>3. ASSUME NEW g \in Entries, Settle(g) PROVE KeepsOrder(e, f)
  <2>1. status[g] = "running" /\ f # g
    BY <1>3, <1>a DEF Settle
  <2>2. PICK result \in {"resolved", "rejected"} :
            IF taskGeneration[g] = generation[LaneOf[g]]
            THEN DrainLanes({LaneOf[g]}, queue, [activeTaskIds EXCEPT ![LaneOf[g]] = @ \ {g}],
                            maxConcurrent, generation, [status EXCEPT ![g] = result])
            ELSE /\ status' = [status EXCEPT ![g] = result]
                 /\ UNCHANGED <<queue, activeTaskIds, taskGeneration>>
    BY <1>3 DEF Settle
  <2> DEFINE st == [status EXCEPT ![g] = result]
             act == [activeTaskIds EXCEPT ![LaneOf[g]] = @ \ {g}]
  <2>3. /\ st \in [Entries -> Statuses] /\ act \in [Lanes -> SUBSET Entries]
        /\ \A h \in Entries : h # g => st[h] = status[h]
        /\ {LaneOf[g]} \in SUBSET Lanes
    BY <1>t, LaneOfAssumption DEF WellTyped, Statuses, Settled
  <2>4. QueueSound(queue, st)
    <3> SUFFICES ASSUME NEW l \in Lanes, NEW i \in 1..Len(queue[l])
                 PROVE  LaneOf[queue[l][i]] = l /\ st[queue[l][i]] = "queued"
      BY DEF QueueSound
    <3>1. queue[l][i] \in Entries
      BY <1>t DEF WellTyped
    <3>2. LaneOf[queue[l][i]] = l /\ status[queue[l][i]] = "queued"
      BY <1>t DEF QueueSound
    <3> QED BY <2>1, <2>3, <3>1, <3>2
  <2>5. WellTyped(queue, act, maxConcurrent, generation, taskGeneration, st)
    BY <1>t, <2>3 DEF WellTyped
  <2>6. CASE taskGeneration[g] = generation[LaneOf[g]]
    <3>1. DrainLanes({LaneOf[g]}, queue, act, maxConcurrent, generation, st)
      BY <2>2, <2>6
    <3>2. st[f] = "fresh" \/ Ahead(e, f)
      BY <2>1, <2>3
    <3> HIDE DEF st, act
    <3> QED BY <1>t, <2>3, <2>4, <2>5, <3>1, <3>2, DrainFifo
  <2>7. CASE taskGeneration[g] # generation[LaneOf[g]]
    <3>1. queue' = queue /\ status' = st
      BY <2>2, <2>7
    <3> QED BY <1>u, <2>1, <2>3, <3>1
  <2> QED BY <2>6, <2>7
<1>4. ASSUME NEW l \in Lanes, ClearCommandLane(l) PROVE KeepsOrder(e, f)
  <2>1. /\ queue' = [queue EXCEPT ![l] = <<>>]
        /\ status' = [g \in Entries |->
               IF g \in HeadSet(queue[l], Len(queue[l])) THEN "cleared" ELSE status[g]]
    BY <1>4 DEF ClearCommandLane
  <2>2. CASE l = k
    <3>1. PICK i \in 1..Len(queue[k]) : queue[k][i] = e
      BY DEF IInv, Consistent, QueueComplete
    <3>2. e \in HeadSet(queue[l], Len(queue[l]))
      BY <2>2, <3>1 DEF HeadSet
    <3> QED BY <2>1, <3>2 DEF KeepsOrder
  <2>3. CASE l # k
    <3>1. queue'[k] = queue[k]
      BY <1>t, <1>k, <2>1, <2>3 DEF WellTyped
    <3>2. f \notin HeadSet(queue[l], Len(queue[l]))
      BY <1>t, <2>3 DEF HeadSet, QueueSound
    <3> QED BY <1>u, <2>1, <3>1, <3>2
  <2> QED BY <2>2, <2>3
<1>5. ASSUME NEW l \in Lanes, NEW n \in 0..MaxLimit, SetCommandLaneConcurrency(l, n)
      PROVE  KeepsOrder(e, f)
  <2> DEFINE max == [maxConcurrent EXCEPT ![l] = Limit(n)]
  <2>1. DrainLanes({l}, queue, activeTaskIds, max, generation, status)
    BY <1>5 DEF SetCommandLaneConcurrency
  <2>2. max \in [Lanes -> Nat \ {0}]
    BY <1>t, MaxLimitAssumption DEF WellTyped, Limit
  <2> HIDE DEF max
  <2>3. WellTyped(queue, activeTaskIds, max, generation, taskGeneration, status)
    BY <1>t, <2>2 DEF WellTyped
  <2> QED BY <1>t, <2>1, <2>3, DrainFifo
<1>6. CASE MarkGatewayDraining
    BY <1>6, <1>u DEF MarkGatewayDraining
<1>7. CASE ResetAllLanes
  <2>1. DrainLanes({l \in Lanes : queue[l] # <<>>}, queue, IdsAfterReset,
                   maxConcurrent, generation', status)
    BY <1>7 DEF ResetAllLanes
  <2>2. generation' \in [Lanes -> Nat]
    BY <1>7, <1>t DEF ResetAllLanes, WellTyped
  <2>3. WellTyped(queue, IdsAfterReset, maxConcurrent, generation', taskGeneration, status)
    BY <1>t, <2>2 DEF WellTyped, IdsAfterReset
  <2> QED BY <1>t, <2>1, <2>3, DrainFifo
<1>8. CASE UNCHANGED vars
    BY <1>8, <1>u DEF vars
<1> QED BY <1>1, <1>2, <1>3, <1>4, <1>5, <1>6, <1>7, <1>8 DEF Next

-----------------------------------------------------------------------------
(* The generations of tasks.                                               *)

\* An executing task keeps the generation of its start until it settles, and
\* one that starts has the generation of its lane.
KeepsTask(e) ==
    /\ status[e] = "running" =>
          \/ status'[e] = "running" /\ taskGeneration'[e] = taskGeneration[e]
          \/ status'[e] \in Settled
    /\ status[e] # "running" /\ status'[e] = "running" =>
          taskGeneration'[e] = generation'[LaneOf[e]]

LEMMA DrainKeepsTask ==
    ASSUME NEW ls \in SUBSET Lanes, NEW q, NEW act, NEW max, NEW st,
           WellTyped(q, act, max, generation', taskGeneration, st), QueueSound(q, st),
           DrainLanes(ls, q, act, max, generation', st),
           NEW e \in Entries,
           status[e] = "running" => st[e] = "running" \/ st[e] \in Settled,
           status[e] # "running" => st[e] # "running"
    PROVE  KeepsTask(e)
<1>1. CASE status[e] = "running"
  <2>1. st[e] # "queued"
    BY <1>1 DEF Settled
  <2>2. \A gen : gen = generation' =>
            DrainLanes(ls, q, act, max, gen, st) /\ WellTyped(q, act, max, gen, taskGeneration, st)
    OBVIOUS
  <2>3. status'[e] = st[e] /\ taskGeneration'[e] = taskGeneration[e]
    BY <2>1, <2>2, DrainStartsQueued
  <2> QED BY <1>1, <2>3 DEF KeepsTask
<1>2. CASE status[e] # "running"
  <2>1. status'[e] = "running" => taskGeneration'[e] = generation'[LaneOf[e]]
    BY <1>2 DEF DrainLanes
  <2> QED BY <1>2, <2>1 DEF KeepsTask
<1> QED BY <1>1, <1>2

\* What a completion leaves for the pump, if it pumps.
LEMMA SettlePump ==
    ASSUME IInv, NEW g \in Entries, Settle(g)
    PROVE  \E st, act :
              /\ WellTyped(queue, act, maxConcurrent, generation, taskGeneration, st)
              /\ QueueSound(queue, st)
              /\ st[g] \in Settled /\ \A h \in Entries : h # g => st[h] = status[h]
              /\ \/ DrainLanes({LaneOf[g]}, queue, act, maxConcurrent, generation, st)
                 \/ status' = st /\ taskGeneration' = taskGeneration
<1>t. /\ WellTyped(queue, activeTaskIds, maxConcurrent, generation, taskGeneration, status)
      /\ QueueSound(queue, status)
    BY DEF IInv, Consistent
<1>2. /\ status[g] = "running"
      /\ \E result \in {"resolved", "rejected"} :
            IF taskGeneration[g] = generation[LaneOf[g]]
            THEN DrainLanes({LaneOf[g]}, queue, [activeTaskIds EXCEPT ![LaneOf[g]] = @ \ {g}],
                            maxConcurrent, generation, [status EXCEPT ![g] = result])
            ELSE /\ status' = [status EXCEPT ![g] = result]
                 /\ UNCHANGED <<queue, activeTaskIds, taskGeneration>>
    BY DEF Settle
<1>r. PICK result \in {"resolved", "rejected"} :
            IF taskGeneration[g] = generation[LaneOf[g]]
            THEN DrainLanes({LaneOf[g]}, queue, [activeTaskIds EXCEPT ![LaneOf[g]] = @ \ {g}],
                            maxConcurrent, generation, [status EXCEPT ![g] = result])
            ELSE /\ status' = [status EXCEPT ![g] = result]
                 /\ UNCHANGED <<queue, activeTaskIds, taskGeneration>>
    BY <1>2
<1> DEFINE st == [status EXCEPT ![g] = result]
           act == [activeTaskIds EXCEPT ![LaneOf[g]] = @ \ {g}]
<1>3. /\ st \in [Entries -> Statuses] /\ act \in [Lanes -> SUBSET Entries]
      /\ st[g] \in Settled /\ \A h \in Entries : h # g => st[h] = status[h]
    BY <1>t, LaneOfAssumption DEF WellTyped, Statuses, Settled
<1>4. QueueSound(queue, st)
  <2> SUFFICES ASSUME NEW l \in Lanes, NEW i \in 1..Len(queue[l])
               PROVE  LaneOf[queue[l][i]] = l /\ st[queue[l][i]] = "queued"
    BY DEF QueueSound
  <2>1. queue[l][i] \in Entries
    BY <1>t DEF WellTyped
  <2>2. LaneOf[queue[l][i]] = l /\ status[queue[l][i]] = "queued"
    BY <1>t DEF QueueSound
  <2> QED BY <1>2, <1>3, <2>1, <2>2
<1>5. WellTyped(queue, act, maxConcurrent, generation, taskGeneration, st)
    BY <1>t, <1>3 DEF WellTyped
<1>6. \/ DrainLanes({LaneOf[g]}, queue, act, maxConcurrent, generation, st)
      \/ status' = st /\ taskGeneration' = taskGeneration
    BY <1>r
<1> HIDE DEF st, act
<1> QED BY <1>3, <1>4, <1>5, <1>6

LEMMA NextKeepsTasks ==
    ASSUME IInv, [Next]_vars, NEW e \in Entries
    PROVE  KeepsTask(e)
<1>t. /\ WellTyped(queue, activeTaskIds, maxConcurrent, generation, taskGeneration, status)
      /\ QueueSound(queue, status)
    BY DEF IInv, Consistent
<1>u. ASSUME status'[e] = status[e], taskGeneration' = taskGeneration PROVE KeepsTask(e)
    BY <1>u DEF KeepsTask
<1>1. ASSUME NEW g \in Entries, EnqueueRefused(g) PROVE KeepsTask(e)
  <2>1. /\ taskGeneration' = taskGeneration /\ status[g] = "fresh"
        /\ status' = [status EXCEPT ![g] = "refused"]
    BY <1>1 DEF EnqueueRefused
  <2>2. CASE g = e
    BY <1>t, <2>1, <2>2 DEF KeepsTask, WellTyped
  <2>3. CASE g # e
    BY <1>t, <1>u, <2>1, <2>3 DEF WellTyped
  <2> QED BY <2>2, <2>3
<1>2. ASSUME NEW g \in Entries, Enqueue(g) PROVE KeepsTask(e)
  <2> DEFINE q == Pushed(g)
             st == Pending(g)
  <2>1. /\ status[g] = "fresh" /\ {LaneOf[g]} \in SUBSET Lanes /\ generation' = generation
        /\ st[g] = "queued" /\ \A h \in Entries : h # g => st[h] = status[h]
        /\ WellTyped(q, activeTaskIds, maxConcurrent, generation, taskGeneration, st)
        /\ QueueSound(q, st)
        /\ DrainLanes({LaneOf[g]}, q, activeTaskIds, maxConcurrent, generation, st)
    BY <1>2, <1>t, EnqueueReady DEF Ready, Consistent, Enqueue, Pending, WellTyped
  <2> HIDE DEF q, st
  <2>2. /\ status[e] = "running" => st[e] = "running"
        /\ status[e] # "running" => st[e] # "running"
    BY <2>1
  <2> QED BY <2>1, <2>2, DrainKeepsTask
<1>3. ASSUME NEW g \in Entries, Settle(g) PROVE KeepsTask(e)
  <2>1. PICK st, act :
            /\ WellTyped(queue, act, maxConcurrent, generation, taskGeneration, st)
            /\ QueueSound(queue, st)
            /\ st[g] \in Settled /\ \A h \in Entries : h # g => st[h] = status[h]
            /\ \/ DrainLanes({LaneOf[g]}, queue, act, maxConcurrent, generation, st)
               \/ status' = st /\ taskGeneration' = taskGeneration
    BY <1>3, SettlePump
  <2>2. /\ status[g] = "running" /\ generation' = generation /\ {LaneOf[g]} \in SUBSET Lanes
    BY <1>3, LaneOfAssumption DEF Settle
  <2>3. /\ status[e] = "running" => st[e] = "running" \/ st[e] \in Settled
        /\ status[e] # "running" => st[e] # "running"
    BY <2>1, <2>2
  <2>4. CASE DrainLanes({LaneOf[g]}, queue, act, maxConcurrent, generation, st)
    BY <2>1, <2>2, <2>3, <2>4, DrainKeepsTask
  <2>5. CASE status' = st /\ taskGeneration' = taskGeneration
    BY <2>3, <2>5 DEF KeepsTask
  <2> QED BY <2>1, <2>4, <2>5
<1>4. ASSUME NEW l \in Lanes, ClearCommandLane(l) PROVE KeepsTask(e)
  <2>1. /\ taskGeneration' = taskGeneration
        /\ status'[e] = IF e \in HeadSet(queue[l], Len(queue[l])) THEN "cleared" ELSE status[e]
    BY <1>4 DEF ClearCommandLane
  <2> QED BY <2>1 DEF KeepsTask, Settled
<1>5. ASSUME NEW l \in Lanes, NEW n \in 0..MaxLimit, SetCommandLaneConcurrency(l, n)
      PROVE  KeepsTask(e)
  <2> DEFINE max == [maxConcurrent EXCEPT ![l] = Limit(n)]
  <2>1. DrainLanes({l}, queue, activeTaskIds, max, generation, status) /\ generation' = generation
    BY <1>5 DEF SetCommandLaneConcurrency
  <2>2. max \in [Lanes -> Nat \ {0}]
    BY <1>t, MaxLimitAssumption DEF WellTyped, Limit
  <2> HIDE DEF max
  <2>3. WellTyped(queue, activeTaskIds, max, generation, taskGeneration, status)
    BY <1>t, <2>2 DEF WellTyped
  <2> QED BY <1>t, <2>1, <2>3, DrainKeepsTask
<1>6. CASE MarkGatewayDraining
    BY <1>6, <1>u DEF MarkGatewayDraining
<1>7. CASE ResetAllLanes
  <2>1. DrainLanes({l \in Lanes : queue[l] # <<>>}, queue, IdsAfterReset,
                   maxConcurrent, generation', status)
    BY <1>7 DEF ResetAllLanes
  <2>2. generation' \in [Lanes -> Nat]
    BY <1>7, <1>t DEF ResetAllLanes, WellTyped
  <2>3. WellTyped(queue, IdsAfterReset, maxConcurrent, generation', taskGeneration, status)
    BY <1>t, <2>2 DEF WellTyped, IdsAfterReset
  <2> QED BY <1>t, <2>1, <2>3, DrainKeepsTask
<1>8. CASE UNCHANGED vars
    BY <1>8, <1>u DEF vars
<1> QED BY <1>1, <1>2, <1>3, <1>4, <1>5, <1>6, <1>7, <1>8 DEF Next

-----------------------------------------------------------------------------
(* Lanes of limit 1, as the gateway's session lanes are.                   *)

AtMostOne(ids) == \A e, f \in ids : e = f

\* Within one generation at most one task of the lane executes.
OneTaskPerGeneration(l) ==
    \A e, f \in Entries :
        /\ e # f /\ LaneOf[e] = l /\ LaneOf[f] = l
        /\ status[e] = "running" /\ status[f] = "running"
        => taskGeneration[e] # taskGeneration[f]

LEMMA AtMostOneKept ==
    ASSUME IInv, [Next]_vars, NEW l \in Lanes, AtMostOne(activeTaskIds[l]), maxConcurrent'[l] = 1
    PROVE  AtMostOne(activeTaskIds'[l])
<1> SUFFICES ASSUME NEW e \in activeTaskIds'[l], NEW f \in activeTaskIds'[l]
             PROVE  e = f
    BY DEF AtMostOne
<1>1. CASE activeTaskIds'[l] \subseteq activeTaskIds[l]
    BY <1>1 DEF AtMostOne
<1>2. CASE Cardinality(activeTaskIds'[l]) <= 1
  <2>1. activeTaskIds'[l] \in SUBSET Entries
    BY NextGood DEF GoodStep, IInv, WellTyped
  <2>2. IsFiniteSet(activeTaskIds'[l])
    BY <2>1, EntriesAssumption, FS_Subset
  <2>3. Cardinality(activeTaskIds'[l]) \in Nat /\ Cardinality(activeTaskIds'[l]) # 0
    BY <2>2, FS_CardinalityType, FS_EmptySet
  <2>4. Cardinality(activeTaskIds'[l]) = 1
    BY <1>2, <2>3
  <2>5. \E x : activeTaskIds'[l] = {x}
    BY <2>2, <2>4, FS_Singleton
  <2> QED BY <2>5
<1> QED BY <1>1, <1>2, NextGood DEF GoodStep

LEMMA OneTaskKept ==
    ASSUME IInv, [Next]_vars, NEW l \in Lanes, OneTaskPerGeneration(l), AtMostOne(activeTaskIds'[l])
    PROVE  \A e, f \in Entries :
              /\ e # f /\ LaneOf[e] = l /\ LaneOf[f] = l
              /\ status'[e] = "running" /\ status'[f] = "running"
              => taskGeneration'[e] # taskGeneration'[f]
<1> SUFFICES ASSUME NEW e \in Entries, NEW f \in Entries, e # f, LaneOf[e] = l, LaneOf[f] = l,
                    status'[e] = "running", status'[f] = "running",
                    taskGeneration'[e] = taskGeneration'[f]
             PROVE  FALSE
    OBVIOUS
<1>1. KeepsTask(e) /\ KeepsTask(f)
    BY NextKeepsTasks
<1>2. "running" \notin Settled
    BY DEF Settled
<1>3. CASE status[e] = "running" /\ status[f] = "running"
    BY <1>1, <1>2, <1>3 DEF OneTaskPerGeneration, KeepsTask
<1>4. CASE status[e] # "running" \/ status[f] # "running"
  <2>1. taskGeneration'[e] = generation'[l]
    BY <1>1, <1>4 DEF KeepsTask
  <2>2. ActiveExact(activeTaskIds', generation', taskGeneration', status')
    BY NextGood DEF GoodStep, IInv, Consistent
  <2>3. e \in activeTaskIds'[l] /\ f \in activeTaskIds'[l]
    BY <2>1, <2>2 DEF ActiveExact
  <2> QED BY <2>3 DEF AtMostOne
<1> QED BY <1>3, <1>4

-----------------------------------------------------------------------------
(* Steps that are no operation on a call leave it as it is, unless it waits. *)

OtherStep(e) ==
    \/ \E g \in Entries \ {e} : EnqueueRefused(g) \/ Enqueue(g) \/ Settle(g)
    \/ \E l \in Lanes : ClearCommandLane(l)
    \/ \E l \in Lanes, n \in 0..MaxLimit : SetCommandLaneConcurrency(l, n)
    \/ MarkGatewayDraining \/ ResetAllLanes
    \/ UNCHANGED vars

LEMMA OthersKept ==
    ASSUME IInv, NEW e \in Entries, OtherStep(e), status[e] # "queued"
    PROVE  status'[e] = status[e]
<1>t. /\ WellTyped(queue, activeTaskIds, maxConcurrent, generation, taskGeneration, status)
      /\ QueueSound(queue, status)
    BY DEF IInv, Consistent
<1>1. ASSUME NEW g \in Entries, g # e, EnqueueRefused(g) PROVE status'[e] = status[e]
    BY <1>1, <1>t DEF EnqueueRefused, WellTyped
<1>2. ASSUME NEW g \in Entries, g # e, Enqueue(g) PROVE status'[e] = status[e]
  <2> DEFINE q == Pushed(g)
             st == Pending(g)
  <2>1. /\ {LaneOf[g]} \in SUBSET Lanes
        /\ \A h \in Entries : h # g => st[h] = status[h]
        /\ WellTyped(q, activeTaskIds, maxConcurrent, generation, taskGeneration, st)
        /\ QueueSound(q, st)
        /\ DrainLanes({LaneOf[g]}, q, activeTaskIds, maxConcurrent, generation, st)
    BY <1>2, EnqueueReady DEF Ready, Consistent
  <2> HIDE DEF q, st
  <2>2. st[e] = status[e]
    BY <1>2, <2>1
  <2> QED BY <2>1, <2>2, DrainStartsQueued
<1>3. ASSUME NEW g \in Entries, g # e, Settle(g) PROVE status'[e] = status[e]
  <2>1. PICK st, act :
            /\ WellTyped(queue, act, maxConcurrent, generation, taskGeneration, st)
            /\ QueueSound(queue, st)
            /\ st[g] \in Settled /\ \A h \in Entries : h # g => st[h] = status[h]
            /\ \/ DrainLanes({LaneOf[g]}, queue, act, maxConcurrent, generation, st)
               \/ status' = st /\ taskGeneration' = taskGeneration
    BY <1>3, SettlePump
  <2>2. st[e] = status[e] /\ {LaneOf[g]} \in SUBSET Lanes
    BY <1>3, <2>1, LaneOfAssumption
  <2> QED BY <2>1, <2>2, DrainStartsQueued
<1>4. ASSUME NEW l \in Lanes, ClearCommandLane(l) PROVE status'[e] = status[e]
  <2>1. e \notin HeadSet(queue[l], Len(queue[l]))
    BY <1>t DEF HeadSet, QueueSound
  <2>2. status'[e] = IF e \in HeadSet(queue[l], Len(queue[l])) THEN "cleared" ELSE status[e]
    BY <1>4 DEF ClearCommandLane
  <2> QED BY <2>1, <2>2
<1>5. ASSUME NEW l \in Lanes, NEW n \in 0..MaxLimit, SetCommandLaneConcurrency(l, n)
      PROVE  status'[e] = status[e]
  <2> DEFINE max == [maxConcurrent EXCEPT ![l] = Limit(n)]
  <2>1. DrainLanes({l}, queue, activeTaskIds, max, generation, status)
    BY <1>5 DEF SetCommandLaneConcurrency
  <2>2. max \in [Lanes -> Nat \ {0}]
    BY <1>t, MaxLimitAssumption DEF WellTyped, Limit
  <2> HIDE DEF max
  <2>3. WellTyped(queue, activeTaskIds, max, generation, taskGeneration, status)
    BY <1>t, <2>2 DEF WellTyped
  <2> QED BY <1>t, <2>1, <2>3, DrainStartsQueued
<1>6. CASE MarkGatewayDraining
    BY <1>6 DEF MarkGatewayDraining
<1>7. CASE ResetAllLanes
  <2>1. DrainLanes({l \in Lanes : queue[l] # <<>>}, queue, IdsAfterReset,
                   maxConcurrent, generation', status)
    BY <1>7 DEF ResetAllLanes
  <2>2. generation' \in [Lanes -> Nat]
    BY <1>7, <1>t DEF ResetAllLanes, WellTyped
  <2>3. WellTyped(queue, IdsAfterReset, maxConcurrent, generation', taskGeneration, status)
    BY <1>t, <2>2 DEF WellTyped, IdsAfterReset
  <2> DEFINE ls == {l \in Lanes : queue[l] # <<>>}
  <2>4. ls \in SUBSET Lanes
    OBVIOUS
  <2> HIDE DEF ls
  <2>5. \A gen : gen = generation' =>
            /\ DrainLanes(ls, queue, IdsAfterReset, maxConcurrent, gen, status)
            /\ WellTyped(queue, IdsAfterReset, maxConcurrent, gen, taskGeneration, status)
    BY <2>1, <2>3 DEF ls
  <2> QED BY <1>t, <2>4, <2>5, DrainStartsQueued
<1>8. CASE UNCHANGED vars
    BY <1>8 DEF vars
<1> QED BY <1>1, <1>2, <1>3, <1>4, <1>5, <1>6, <1>7, <1>8 DEF OtherStep

-----------------------------------------------------------------------------
(* The theorems.                                                           *)

\* The inductive invariant holds in every reachable state of the queue.
THEOREM InductiveInvariant == Spec => []IInv
<1>1. IInv /\ [Next]_vars => IInv'
    BY NextGood DEF GoodStep
<1> QED BY InitIInv, <1>1, PTL DEF Spec

\* LaneState and queueState keep their types.
THEOREM TypeCorrect == Spec => []TypeOK
<1>1. IInv => TypeOK
    BY DEF IInv, WellTyped, TypeOK
<1> QED BY InductiveInvariant, <1>1, PTL

\* Accepted calls are never lost or duplicated between push, shift, splice
\* and reset, for any number of lanes, calls and resets.
THEOREM QueuedOnceHolds == Spec => []QueuedOnce
<1>1. IInv => QueuedOnce
    BY DEF IInv, Consistent, QueueSound, QueueComplete, QueueInjective, QueuedOnce
<1> QED BY InductiveInvariant, <1>1, PTL

\* activeTaskIds holds exactly the executing tasks of the current generation.
THEOREM SlotsExact == Spec => []ActiveIsCurrentGeneration
<1>1. IInv => ActiveIsCurrentGeneration
  <2> SUFFICES ASSUME IInv, NEW l \in Lanes
               PROVE  activeTaskIds[l] = {e \in Running(l) : taskGeneration[e] = generation[l]}
    BY DEF ActiveIsCurrentGeneration
  <2>1. activeTaskIds[l] \subseteq Entries
    BY DEF IInv, WellTyped
  <2> QED BY <2>1 DEF IInv, Consistent, ActiveExact, Running
<1> QED BY InductiveInvariant, <1>1, PTL

\* No lane ever has both a free slot and a queued entry, so the queue cannot
\* stall with work in it.
THEOREM NoLostWakeup == Spec => []WorkConserving
<1>1. IInv => WorkConserving
  <2> SUFFICES ASSUME IInv, NEW l \in Lanes, queue[l] # <<>>
               PROVE  Cardinality(activeTaskIds[l]) >= maxConcurrent[l]
    BY DEF WorkConserving
  <2>1. Len(queue[l]) > 0
    BY DEF IInv, WellTyped
  <2> QED BY <2>1 DEF IInv, FullOutside
<1> QED BY InductiveInvariant, <1>1, PTL

\* A step that starts a task leaves its lane within maxConcurrent.
THEOREM LimitRespected == Spec => StartsWithinLimit
<1>1. IInv /\ [Next]_vars =>
          [\A l \in Lanes : activeTaskIds'[l] \subseteq activeTaskIds[l]
            \/ Cardinality(activeTaskIds'[l]) <= maxConcurrent'[l]]_vars
    BY NextGood DEF GoodStep
<1> QED BY InductiveInvariant, <1>1, PTL DEF Spec, StartsWithinLimit

\* A promise settles once, and a settled call is never executed afterwards.
THEOREM PromisesSettleOnce == Spec => SettlesOnce
<1>1. IInv /\ [Next]_vars =>
          [\A e \in Entries : status[e] \in Settled => status'[e] = status[e]]_vars
    BY NextGood DEF GoodStep
<1> QED BY InductiveInvariant, <1>1, PTL DEF Spec, SettlesOnce

\* Lanes are FIFO by arrival, whatever limits, clears and resets do.
THEOREM LanesAreFifo == Spec => FifoStart
<1>1. IInv /\ [Next]_vars =>
          [\A e, f \in Entries :
            /\ LaneOf[e] = LaneOf[f] /\ e # f
            /\ status[e] = "queued" /\ (status[f] = "fresh" \/ Ahead(e, f))
            => \/ status'[e] # "queued"
               \/ status'[f] \in {"fresh", "refused"}
               \/ status'[f] = "queued" /\ Ahead(e, f)']_vars
    BY NextKeepsOrder DEF KeepsOrder
<1> QED BY InductiveInvariant, <1>1, PTL DEF Spec, FifoStart
=============================================================================
