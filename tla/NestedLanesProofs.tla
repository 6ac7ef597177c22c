-------------------------- MODULE NestedLanesProofs --------------------------
(* Theorems about NestedLanes, for any finite set of runs, any sessions and  *)
(* any limits of the global lanes.                                           *)
EXTENDS NestedLanes, FiniteSetTheorems, TLAPS

QP == INSTANCE CommandQueueProofs WITH Entries <- Calls, Lanes <- LaneNames, LaneOf <- CallLane

-----------------------------------------------------------------------------
(* The calls of the runs, and what the queue assumes of them.                *)

LEMMA CallsAre ==
    /\ \A p \in Runs : Outer(p) \in Calls /\ Inner(p) \in Calls
    /\ \A p \in CronJobs : Job(p) \in Calls
    /\ \A p, q \in Runs : Outer(p) # Inner(q) /\ Outer(p) # Job(q) /\ Inner(p) # Job(q)
    /\ \A p, q \in Runs : p # q => Outer(p) # Outer(q) /\ Inner(p) # Inner(q)
    BY NestedAssumption DEF Calls, Outer, Inner, Job

LEMMA CallLaneTyped ==
    /\ CallLane \in [Calls -> LaneNames]
    /\ \A p \in Runs : CallLane[Outer(p)] = SessionOf[p]
<1>1. ASSUME NEW c \in Calls PROVE CallLane[c] \in LaneNames
  <2>1. CASE \E r \in Runs : c = Outer(r)
      BY <2>1, NestedAssumption DEF CallLane, Outer, LaneNames
  <2>2. CASE \E r \in Runs : c = Inner(r)
      BY <2>2, NestedAssumption DEF CallLane, Inner, LaneNames, ResolveGlobalLane
  <2>3. CASE \E r \in CronJobs : c = Job(r)
      BY <2>3 DEF CallLane, Job, LaneNames
  <2> QED BY <2>1, <2>2, <2>3 DEF Calls
<1>2. CallLane \in [Calls -> LaneNames]
    BY <1>1 DEF CallLane
<1>3. \A p \in Runs : CallLane[Outer(p)] = SessionOf[p]
    BY CallsAre DEF CallLane, Outer
<1> QED BY <1>2, <1>3

LEMMA CallsFinite == IsFiniteSet(Calls)
<1> DEFINE outer == [r \in Runs |-> Outer(r)]
           inner == [r \in Runs |-> Inner(r)]
           job   == [r \in CronJobs |-> Job(r)]
<1>1. /\ outer \in Surjection(Runs, {Outer(r) : r \in Runs})
      /\ inner \in Surjection(Runs, {Inner(r) : r \in Runs})
      /\ job \in Surjection(CronJobs, {Job(r) : r \in CronJobs})
    BY DEF Surjection
<1>2. IsFiniteSet(CronJobs)
    BY NestedAssumption, FS_Subset
<1> HIDE DEF outer, inner, job
<1>3. /\ IsFiniteSet({Outer(r) : r \in Runs}) /\ IsFiniteSet({Inner(r) : r \in Runs})
      /\ IsFiniteSet({Job(r) : r \in CronJobs})
    BY <1>1, <1>2, NestedAssumption, FS_Surjection
<1> QED BY <1>3, FS_Union DEF Calls

LEMMA QueueAssumptions ==
    /\ QP!IsFiniteSet(Calls) /\ CallLane \in [Calls -> LaneNames]
    /\ MaxLimit \in Nat \ {0} /\ MaxGeneration \in Nat
<1>1. QP!IsFiniteSet(Calls)
    BY CallsFinite DEF IsFiniteSet, QP!IsFiniteSet
<1> QED BY <1>1, CallLaneTyped, NestedAssumption

-----------------------------------------------------------------------------
(* The runs drive the queue: each of their steps is one of the queue's.      *)

LEMMA QueueStep == [Next]_vars => [Q!Next]_(Q!vars)
<1> SUFFICES ASSUME [Next]_vars PROVE [Q!Next]_(Q!vars)
    OBVIOUS
<1>1. ASSUME NEW r \in Runs, EnqueueGlobal(r) PROVE Q!Next
    BY <1>1, CallsAre DEF EnqueueGlobal, Submit, Q!Next
<1>2. ASSUME NEW r \in Runs, EnqueueJob(r) PROVE Q!Next
    BY <1>2, CallsAre DEF EnqueueJob, Submit, Q!Next
<1>3. ASSUME NEW r \in Runs, RunAgent(r) PROVE Q!Next
    BY <1>3, CallsAre DEF RunAgent, Submit, Q!Next
<1>4. ASSUME NEW r \in Runs, FinishTurn(r) \/ FinishSessionTask(r) \/ FinishJob(r) PROVE Q!Next
    BY <1>4, CallsAre DEF FinishTurn, FinishSessionTask, FinishJob, Q!Next
<1>5. ASSUME NEW s \in Sessions, ClearSession(s) PROVE Q!Next
    BY <1>5 DEF ClearSession, Q!Next, LaneNames
<1>6. ASSUME NEW l \in {"main", "cron", "subagent"}, NEW n \in 1..MaxLimit, ConfigureLanes(l, n)
      PROVE  Q!Next
  <2>1. l \in LaneNames /\ n \in 0..MaxLimit
      BY NestedAssumption DEF LaneNames
  <2> QED BY <1>6, <2>1 DEF ConfigureLanes, Q!Next
<1>7. CASE Q!MarkGatewayDraining \/ Q!ResetAllLanes
    BY <1>7 DEF Q!Next
<1>8. CASE UNCHANGED vars
    BY <1>8 DEF vars, Q!vars
<1> QED BY <1>1, <1>2, <1>3, <1>4, <1>5, <1>6, <1>7, <1>8 DEF Next

LEMMA SameOperations ==
    /\ \A c \in Calls : /\ Q!EnqueueRefused(c) <=> QP!EnqueueRefused(c)
                        /\ Q!Enqueue(c) <=> QP!Enqueue(c)
                        /\ Q!Settle(c) <=> QP!Settle(c)
    /\ \A l \in LaneNames : Q!ClearCommandLane(l) <=> QP!ClearCommandLane(l)
    /\ \A l \in LaneNames, n \in 0..MaxLimit :
          Q!SetCommandLaneConcurrency(l, n) <=> QP!SetCommandLaneConcurrency(l, n)
    /\ Q!MarkGatewayDraining <=> QP!MarkGatewayDraining
    /\ Q!ResetAllLanes <=> QP!ResetAllLanes
<1>1. ASSUME NEW ls, NEW q, NEW act, NEW max, NEW gen, NEW st
      PROVE  Q!DrainLanes(ls, q, act, max, gen, st) <=> QP!DrainLanes(ls, q, act, max, gen, st)
    BY DEF Q!DrainLanes, QP!DrainLanes, Q!PumpCount, QP!PumpCount, Q!HeadSet, QP!HeadSet,
           Q!Rest, QP!Rest, Q!Cardinality, QP!Cardinality
<1>2. ASSUME NEW c \in Calls
      PROVE  /\ Q!EnqueueRefused(c) <=> QP!EnqueueRefused(c)
             /\ Q!Enqueue(c) <=> QP!Enqueue(c)
             /\ Q!Settle(c) <=> QP!Settle(c)
  <2>1. Q!EnqueueRefused(c) <=> QP!EnqueueRefused(c)
      BY DEF Q!EnqueueRefused, QP!EnqueueRefused
  <2>2. Q!Enqueue(c) <=> QP!Enqueue(c)
      BY <1>1 DEF Q!Enqueue, QP!Enqueue, Q!Push, QP!Push
  <2>3. Q!Settle(c) <=> QP!Settle(c)
      BY <1>1 DEF Q!Settle, QP!Settle
  <2> QED BY <2>1, <2>2, <2>3
<1>3. ASSUME NEW l \in LaneNames
      PROVE  Q!ClearCommandLane(l) <=> QP!ClearCommandLane(l)
    BY DEF Q!ClearCommandLane, QP!ClearCommandLane, Q!HeadSet, QP!HeadSet
<1>4. ASSUME NEW l \in LaneNames, NEW n \in 0..MaxLimit
      PROVE  Q!SetCommandLaneConcurrency(l, n) <=> QP!SetCommandLaneConcurrency(l, n)
    BY <1>1 DEF Q!SetCommandLaneConcurrency, QP!SetCommandLaneConcurrency, Q!Limit, QP!Limit
<1>5. Q!MarkGatewayDraining <=> QP!MarkGatewayDraining
    BY DEF Q!MarkGatewayDraining, QP!MarkGatewayDraining
<1>6. Q!ResetAllLanes <=> QP!ResetAllLanes
    BY <1>1 DEF Q!ResetAllLanes, QP!ResetAllLanes, Q!IdsAfterReset, QP!IdsAfterReset
<1> QED BY <1>2, <1>3, <1>4, <1>5, <1>6

LEMMA SameQueue ==
    /\ Q!Init <=> QP!Init
    /\ [Q!Next]_(Q!vars) <=> [QP!Next]_(QP!vars)
<1>1. (UNCHANGED Q!vars <=> UNCHANGED QP!vars) /\ (Q!Init <=> QP!Init)
    BY DEF Q!vars, QP!vars, Q!Init, QP!Init
<1>2. Q!Next <=> QP!Next
    BY SameOperations DEF Q!Next, QP!Next
<1> QED BY <1>1, <1>2

-----------------------------------------------------------------------------
(* The inductive invariant.                                                  *)

\* A run that waits for, or executes in, its global lane holds its session's.
HoldsSession(r) ==
    status[Inner(r)] \in {"queued", "running"} => status[Outer(r)] = "running"

\* No operation configures a session's lane: its limit stays 1.
SessionLane(s) ==
    /\ maxConcurrent[s] = 1
    /\ QP!AtMostOne(activeTaskIds[s])
    /\ QP!OneTaskPerGeneration(s)

NInv ==
    /\ QP!IInv
    /\ \A s \in Sessions : SessionLane(s)
    /\ \A r \in Runs : HoldsSession(r)

LEMMA InitNInv == Init => NInv
<1> SUFFICES ASSUME Init PROVE NInv
    OBVIOUS
<1>1. QP!IInv
    BY SameQueue, QP!InitIInv, QueueAssumptions DEF Init
<1>2. \A c \in Calls : status[c] = "fresh"
    BY DEF Init, Q!Init
<1>3. \A s \in Sessions : SessionLane(s)
    BY <1>2 DEF Init, Q!Init, SessionLane, QP!AtMostOne, QP!OneTaskPerGeneration, LaneNames
<1>4. \A r \in Runs : HoldsSession(r)
    BY <1>2, CallsAre DEF HoldsSession
<1> QED BY <1>1, <1>3, <1>4 DEF NInv

\* The queue's lemmas, for a step of the runs.
LEMMA QueueKept ==
    ASSUME NInv, [Next]_vars
    PROVE  QP!IInv /\ [QP!Next]_(QP!vars) /\ QP!GoodStep
<1>1. QP!IInv /\ [QP!Next]_(QP!vars)
    BY QueueStep, SameQueue DEF NInv
<1> QED BY <1>1, QP!NextGood, QueueAssumptions

LEMMA SessionLimitsKept ==
    ASSUME [Next]_vars, NInv, NEW s \in Sessions
    PROVE  maxConcurrent'[s] = maxConcurrent[s]
<1>t. maxConcurrent \in [LaneNames -> Nat \ {0}]
    BY DEF NInv, QP!IInv, QP!WellTyped
<1>1. ASSUME NEW l \in {"main", "cron", "subagent"}, NEW n \in 1..MaxLimit, ConfigureLanes(l, n)
      PROVE  maxConcurrent'[s] = maxConcurrent[s]
  <2>1. l # s
      BY NestedAssumption
  <2> QED BY <1>1, <1>t, <2>1 DEF ConfigureLanes, Q!SetCommandLaneConcurrency
<1>2. ASSUME NEW r \in Runs,
             \/ EnqueueGlobal(r) \/ EnqueueJob(r) \/ RunAgent(r)
             \/ FinishTurn(r) \/ FinishSessionTask(r) \/ FinishJob(r)
      PROVE  maxConcurrent' = maxConcurrent
    BY <1>2 DEF EnqueueGlobal, EnqueueJob, RunAgent, FinishTurn, FinishSessionTask, FinishJob,
                Submit, Q!Enqueue, Q!EnqueueRefused, Q!Settle
<1>3. ASSUME NEW r \in Sessions, ClearSession(r) PROVE maxConcurrent' = maxConcurrent
    BY <1>3 DEF ClearSession, Q!ClearCommandLane
<1>4. CASE Q!MarkGatewayDraining \/ Q!ResetAllLanes
    BY <1>4 DEF Q!MarkGatewayDraining, Q!ResetAllLanes
<1>5. CASE UNCHANGED vars
    BY <1>5 DEF vars
<1> QED BY <1>1, <1>2, <1>3, <1>4, <1>5 DEF Next

LEMMA SessionLaneKept ==
    ASSUME NInv, [Next]_vars, NEW s \in Sessions
    PROVE  SessionLane(s)'
<1>1. s \in LaneNames /\ maxConcurrent'[s] = 1
    BY SessionLimitsKept DEF NInv, SessionLane, LaneNames
<1>2. QP!AtMostOne(activeTaskIds'[s])
    BY <1>1, QueueKept, QP!AtMostOneKept, QueueAssumptions DEF NInv, SessionLane
<1>3. \A e, f \in Calls :
          /\ e # f /\ CallLane[e] = s /\ CallLane[f] = s
          /\ status'[e] = "running" /\ status'[f] = "running"
          => taskGeneration'[e] # taskGeneration'[f]
    BY <1>1, <1>2, QueueKept, QP!OneTaskKept, QueueAssumptions DEF NInv, SessionLane
<1>4. QP!OneTaskPerGeneration(s)'
    BY <1>3 DEF QP!OneTaskPerGeneration
<1>5. QP!AtMostOne(activeTaskIds[s])'
    BY <1>2 DEF QP!AtMostOne
<1> QED BY <1>1, <1>4, <1>5 DEF SessionLane

\* What the operations leave alone: calls that are not theirs and do not wait.
Operation(c) == Q!EnqueueRefused(c) \/ Q!Enqueue(c) \/ Q!Settle(c)
LaneOperation ==
    \/ \E l \in LaneNames : Q!ClearCommandLane(l)
    \/ \E l \in LaneNames, n \in 0..MaxLimit : Q!SetCommandLaneConcurrency(l, n)
    \/ Q!MarkGatewayDraining \/ Q!ResetAllLanes
    \/ UNCHANGED vars

LEMMA OthersKept ==
    ASSUME NInv, NEW c \in Calls, status[c] # "queued",
           LaneOperation \/ \E d \in Calls \ {c} : Operation(d)
    PROVE  status'[c] = status[c]
<1>1. QP!OtherStep(c)
    BY SameOperations DEF LaneOperation, Operation, QP!OtherStep, vars, QP!vars
<1> QED BY <1>1, QP!OthersKept, QueueAssumptions DEF NInv

\* As long as no operation on the session's call ends it, its run holds it;
\* a step that is no submission of the global call does not make it wait.
LEMMA HoldKept ==
    ASSUME NInv, NEW r \in Runs, LaneOperation \/ \E d \in Calls \ {Outer(r), Inner(r)} : Operation(d)
    PROVE  HoldsSession(r)'
<1>1. Outer(r) \in Calls /\ Inner(r) \in Calls /\ HoldsSession(r)
    BY CallsAre DEF NInv
<1>2. status[Outer(r)] = "running" => status'[Outer(r)] = "running"
    BY <1>1, OthersKept
<1>3. status[Inner(r)] # "queued" => status'[Inner(r)] = status[Inner(r)]
    BY <1>1, OthersKept
<1> QED BY <1>1, <1>2, <1>3 DEF HoldsSession

LEMMA HoldsSessionKept ==
    ASSUME NInv, [Next]_vars, NEW r \in Runs
    PROVE  HoldsSession(r)'
<1>c. /\ Outer(r) \in Calls /\ Inner(r) \in Calls /\ Outer(r) # Inner(r) /\ HoldsSession(r)
    BY CallsAre DEF NInv
<1>1. ASSUME NEW s \in Runs, EnqueueGlobal(s) PROVE HoldsSession(r)'
  <2>1. Operation(Inner(s)) /\ Inner(s) \in Calls \ {Outer(r)} /\ status[Outer(s)] = "running"
      BY <1>1, CallsAre DEF EnqueueGlobal, Submit, Operation, Urgent
  <2>2. CASE s = r
      BY <1>c, <2>1, <2>2, OthersKept DEF HoldsSession
  <2>3. CASE s # r
      BY <2>1, <2>3, CallsAre, HoldKept
  <2> QED BY <2>2, <2>3
<1>2. ASSUME NEW s \in Runs, EnqueueJob(s) \/ FinishJob(s) PROVE HoldsSession(r)'
  <2>1. Operation(Job(s)) /\ Job(s) \in Calls \ {Outer(r), Inner(r)}
      BY <1>2, CallsAre DEF EnqueueJob, FinishJob, Submit, Operation
  <2> QED BY <2>1, HoldKept
<1>3. ASSUME NEW s \in Runs, RunAgent(s) PROVE HoldsSession(r)'
  <2>1. Operation(Outer(s)) /\ Outer(s) \in Calls \ {Inner(r)} /\ status[Outer(s)] = "fresh"
      BY <1>3, CallsAre DEF RunAgent, Submit, Operation, Q!Enqueue, Q!EnqueueRefused
  <2>2. CASE s = r
      BY <1>c, <2>1, <2>2, OthersKept DEF HoldsSession
  <2>3. CASE s # r
      BY <2>1, <2>3, CallsAre, HoldKept
  <2> QED BY <2>2, <2>3
<1>4. ASSUME NEW s \in Runs, FinishTurn(s) PROVE HoldsSession(r)'
  <2>1. Operation(Inner(s)) /\ Inner(s) \in Calls \ {Outer(r)} /\ status[Inner(s)] = "running"
      BY <1>4, CallsAre DEF FinishTurn, Operation, Q!Settle
  <2>2. CASE s = r
      BY <1>c, <2>1, <2>2, OthersKept DEF HoldsSession
  <2>3. CASE s # r
      BY <2>1, <2>3, CallsAre, HoldKept
  <2> QED BY <2>2, <2>3
<1>5. ASSUME NEW s \in Runs, FinishSessionTask(s) PROVE HoldsSession(r)'
  <2>1. Operation(Outer(s)) /\ Outer(s) \in Calls \ {Inner(r)} /\ status[Inner(s)] \in Q!Settled
      BY <1>5, CallsAre DEF FinishSessionTask, Done, Operation
  <2>2. CASE s = r
    <3>1. status[Inner(r)] \notin {"queued", "running"}
        BY <2>1, <2>2 DEF Q!Settled
    <3> QED BY <1>c, <2>1, <2>2, <3>1, OthersKept DEF HoldsSession
  <2>3. CASE s # r
      BY <2>1, <2>3, CallsAre, HoldKept
  <2> QED BY <2>2, <2>3
<1>6. ASSUME \/ \E s \in Sessions : ClearSession(s)
             \/ \E l \in {"main", "cron", "subagent"}, n \in 1..MaxLimit : ConfigureLanes(l, n)
             \/ Q!MarkGatewayDraining \/ Q!ResetAllLanes \/ UNCHANGED vars
      PROVE  HoldsSession(r)'
  <2>1. \A n \in 1..MaxLimit : n \in 0..MaxLimit
      BY NestedAssumption
  <2>2. LaneOperation
      BY <1>6, <2>1 DEF ClearSession, ConfigureLanes, LaneOperation, LaneNames
  <2> QED BY <2>2, HoldKept
<1> QED BY <1>1, <1>2, <1>3, <1>4, <1>5, <1>6 DEF Next

LEMMA NextNInv == NInv /\ [Next]_vars => NInv'
<1> SUFFICES ASSUME NInv, [Next]_vars PROVE NInv'
    OBVIOUS
<1>1. QP!IInv'
    BY QueueKept DEF QP!GoodStep
<1> QED BY <1>1, SessionLaneKept, HoldsSessionKept DEF NInv

-----------------------------------------------------------------------------
(* The theorems.                                                             *)

\* Whatever runs and cron jobs do, the queue behaves as CommandQueue.
THEOREM ImplementsQueue == Spec => Q!Spec
<1>1. Init => Q!Init
    BY DEF Init
<1> QED BY <1>1, QueueStep, PTL DEF Spec, Q!Spec

\* The inductive invariant holds in every reachable state of the runs.
THEOREM RunsInvariant == Spec => []NInv
    BY InitNInv, NextNInv, PTL DEF Spec

\* Within a life cycle no two agent turns of a session overlap.
THEOREM TurnsExclude == Spec => []OneTurnPerSession
<1>1. NInv => OneTurnPerSession
  <2> SUFFICES ASSUME NInv, NEW r \in Runs, NEW s \in Runs, r # s, SessionOf[r] = SessionOf[s],
                      status[Inner(r)] = "running", status[Inner(s)] = "running"
               PROVE  taskGeneration[Outer(r)] # taskGeneration[Outer(s)]
      BY DEF OneTurnPerSession
  <2>1. status[Outer(r)] = "running" /\ status[Outer(s)] = "running"
      BY DEF NInv, HoldsSession
  <2>2. /\ Outer(r) \in Calls /\ Outer(s) \in Calls /\ Outer(r) # Outer(s)
        /\ CallLane[Outer(r)] = SessionOf[r] /\ CallLane[Outer(s)] = SessionOf[r]
        /\ SessionOf[r] \in Sessions
    <3>1. Outer(r) \in Calls /\ Outer(s) \in Calls /\ Outer(r) # Outer(s)
        BY CallsAre
    <3>2. CallLane[Outer(r)] = SessionOf[r] /\ CallLane[Outer(s)] = SessionOf[r]
        BY CallLaneTyped
    <3>3. SessionOf[r] \in Sessions
        BY NestedAssumption
    <3> QED BY <3>1, <3>2, <3>3
  <2>3. QP!OneTaskPerGeneration(SessionOf[r])
      BY <2>2 DEF NInv, SessionLane
  <2> QED BY <2>1, <2>2, <2>3 DEF QP!OneTaskPerGeneration
<1> QED BY RunsInvariant, <1>1, PTL
=============================================================================
