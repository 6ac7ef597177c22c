------------------------ MODULE GatewayRunLoopProofs ------------------------
(* Theorems about GatewayRunLoop, for every set of entries and lanes.  The   *)
(* lemmas about the queue's own steps are those of CommandQueueProofs.       *)
EXTENDS GatewayRunLoop, TLAPS

QP == INSTANCE CommandQueueProofs

-----------------------------------------------------------------------------
(* The loop drives the queue: each of its steps is one of the queue's steps  *)
(* or leaves the queue alone.                                                *)

LEMMA EntriesFinite == QP!IsFiniteSet(Entries)
    BY LanesAssumption DEF IsFiniteSet, QP!IsFiniteSet

LEMMA QueueStep == [Next]_vars => [Q!Next]_(Q!vars)
<1> SUFFICES ASSUME [Next]_vars PROVE [Q!Next]_(Q!vars)
    OBVIOUS
<1>1. ASSUME NEW e \in Entries, Submit(e) PROVE Q!Next
    BY <1>1 DEF Submit, Q!Next
<1>2. ASSUME NEW e \in Entries, Finish(e) PROVE Q!Next
    BY <1>2 DEF Finish, Q!Next
<1>3. ASSUME NEW e \in Entries, RegisterRun(e) \/ ClearRun(e) PROVE UNCHANGED Q!vars
    BY <1>3 DEF RegisterRun, ClearRun, queueVars, Q!vars
<1>4. ASSUME NEW l \in Lanes, ClearLane(l) PROVE Q!Next
    BY <1>4 DEF ClearLane, Q!Next
<1>5. CASE LoopStep
    BY <1>5 DEF LoopStep, StartSucceeds, FirstStartFails, RestartFails,
                AwaitRestartAfterFailure, queueVars, Q!vars
<1>6. CASE Stop
    BY <1>6 DEF Stop, queueVars, Q!vars
<1>7. CASE Restart
    BY <1>7 DEF Restart, Q!Next
<1>8. CASE RestartInProcess
    BY <1>8 DEF RestartInProcess, Q!Next
<1>9. CASE \/ TasksDrained \/ RunsDrained \/ DrainTimesOut \/ CloseServer \/ ServerClosed
           \/ ForceExit \/ ExitAfterClose \/ ReacquireFails \/ RestartResolvesNothing
    BY <1>9 DEF TasksDrained, RunsDrained, DrainTimesOut, CloseServer, ServerClosed,
                ForceExit, ExitAfterClose, ReacquireFails, RestartResolvesNothing,
                queueVars, Q!vars
<1>10. CASE UNCHANGED vars
    BY <1>10 DEF vars, queueVars, Q!vars
<1> QED BY <1>1, <1>2, <1>3, <1>4, <1>5, <1>6, <1>7, <1>8, <1>9, <1>10
        DEF Next, LaneStep, ShutdownStep

LEMMA SameQueue ==
    /\ Q!Init <=> QP!Init
    /\ [Q!Next]_(Q!vars) <=> [QP!Next]_(QP!vars)
<1>1. (UNCHANGED Q!vars <=> UNCHANGED QP!vars) /\ (Q!Init <=> QP!Init)
    BY DEF Q!vars, QP!vars, Q!Init, QP!Init
<1>2. ASSUME NEW ls, NEW q, NEW act, NEW max, NEW gen, NEW st
      PROVE  Q!DrainLanes(ls, q, act, max, gen, st) <=> QP!DrainLanes(ls, q, act, max, gen, st)
    BY DEF Q!DrainLanes, QP!DrainLanes, Q!PumpCount, QP!PumpCount, Q!HeadSet, QP!HeadSet,
           Q!Rest, QP!Rest, Q!Cardinality, QP!Cardinality
<1>3. ASSUME NEW e \in Entries
      PROVE  /\ Q!EnqueueRefused(e) <=> QP!EnqueueRefused(e)
             /\ Q!Enqueue(e) <=> QP!Enqueue(e)
             /\ Q!Settle(e) <=> QP!Settle(e)
  <2>1. Q!EnqueueRefused(e) <=> QP!EnqueueRefused(e)
      BY DEF Q!EnqueueRefused, QP!EnqueueRefused
  <2>2. Q!Enqueue(e) <=> QP!Enqueue(e)
      BY <1>2 DEF Q!Enqueue, QP!Enqueue, Q!Push, QP!Push
  <2>3. Q!Settle(e) <=> QP!Settle(e)
      BY <1>2 DEF Q!Settle, QP!Settle
  <2> QED BY <2>1, <2>2, <2>3
<1>4. ASSUME NEW l \in Lanes
      PROVE  Q!ClearCommandLane(l) <=> QP!ClearCommandLane(l)
    BY DEF Q!ClearCommandLane, QP!ClearCommandLane, Q!HeadSet, QP!HeadSet
<1>5. ASSUME NEW l \in Lanes, NEW n \in 0..MaxLimit
      PROVE  Q!SetCommandLaneConcurrency(l, n) <=> QP!SetCommandLaneConcurrency(l, n)
    BY <1>2 DEF Q!SetCommandLaneConcurrency, QP!SetCommandLaneConcurrency, Q!Limit, QP!Limit
<1>6. /\ Q!MarkGatewayDraining <=> QP!MarkGatewayDraining
      /\ Q!ResetAllLanes <=> QP!ResetAllLanes
  <2>1. Q!MarkGatewayDraining <=> QP!MarkGatewayDraining
      BY DEF Q!MarkGatewayDraining, QP!MarkGatewayDraining
  <2>2. Q!ResetAllLanes <=> QP!ResetAllLanes
      BY <1>2 DEF Q!ResetAllLanes, QP!ResetAllLanes, Q!IdsAfterReset, QP!IdsAfterReset
  <2> QED BY <2>1, <2>2
<1>7. Q!Next <=> QP!Next
    BY <1>3, <1>4, <1>5, <1>6 DEF Q!Next, QP!Next
<1> QED BY <1>1, <1>7

-----------------------------------------------------------------------------
(* The inductive invariant.                                                  *)

LoopTyped ==
    /\ restartResolver = "pending" <=> loop = "waiting"
    /\ activeRuns \in [Lanes -> Entries \cup {NoRun}]
    /\ loop \in {"firstStart", "restarting", "unlocking", "waiting"}
    /\ {server, listening, lockHeld, hadLock} \subseteq BOOLEAN
    /\ restartResolver \in {"none", "pending", "resolved"}
    /\ shutdown \in {"idle", "draining", "closing", "nothingToClose", "released"}
    /\ action \in {"none", "restart", "stop"}
    /\ waits \in [tasks : {"none", "waiting", "drained", "timedOut"},
                  runs : {"none", "waiting", "drained", "timedOut"}]
    /\ activeAtStart \subseteq Entries
    /\ exited \in {"no", "startupError", "forced0", "forced1", "stopped",
                   "replaced", "lockError"}
    /\ early \in BOOLEAN

\* As long as every signal finds the loop at rest, a shutdown meets the loop
\* waiting, closes the server the loop has, and ends with the flag cleared.
SignalAtRest ==
    ~early =>
        /\ listening <=> server
        /\ loop # "waiting" => shutdown = "idle" /\ ~server
        /\ shutdown = "idle" => ~gatewayDraining
        /\ shutdown = "closing" => server
        /\ shutdown \in {"nothingToClose", "released"} => ~server

\* What a restart waits for: the tasks of its snapshot execute in the current
\* generation or have settled, and the wait ends when all of them have.
Draining ==
    ShuttingDown /\ action = "restart" =>
        /\ \A e \in activeAtStart :
              \/ status[e] = "running" /\ taskGeneration[e] = generation[LaneOf[e]]
              \/ status[e] \in QP!Settled
        /\ waits.tasks = "none" => activeAtStart = {}
        /\ waits.tasks = "drained" => \A e \in activeAtStart : status[e] \in QP!Settled
        /\ shutdown # "draining" => waits.tasks # "waiting"

\* Session lanes have limit 1.
OneAtATime ==
    /\ maxConcurrent = [l \in Lanes |-> 1]
    /\ \A l \in Lanes : QP!AtMostOne(activeTaskIds[l])
    /\ OneRunPerLifeCycle

LInv == QP!IInv /\ LoopTyped /\ SignalAtRest /\ Draining /\ OneAtATime

-----------------------------------------------------------------------------
(* Every step keeps it.                                                      *)

LEMMA InitLInv == Init => LInv
<1> SUFFICES ASSUME Init PROVE LInv
    OBVIOUS
<1>1. QP!IInv
    BY SameQueue, QP!InitIInv, LanesAssumption, EntriesFinite DEF Init
<1>2. LoopTyped /\ SignalAtRest /\ Draining
    BY DEF Init, Q!Init, NoWaits, LoopTyped, SignalAtRest, Draining, ShuttingDown
<1>3. OneAtATime
    BY DEF Init, Q!Init, OneAtATime, OneRunPerLifeCycle, QP!AtMostOne
<1> QED BY <1>1, <1>2, <1>3 DEF LInv

\* What the queue's own steps guarantee.
QueueKept ==
    /\ QP!GoodStep
    /\ \A e \in Entries : QP!KeepsTask(e)
    /\ maxConcurrent' = maxConcurrent

LEMMA LimitsKept == [Next]_vars => maxConcurrent' = maxConcurrent
<1> SUFFICES ASSUME [Next]_vars PROVE maxConcurrent' = maxConcurrent
    OBVIOUS
<1>1. CASE LaneStep
    BY <1>1 DEF LaneStep, Submit, RegisterRun, ClearRun, Finish, ClearLane, Q!Enqueue,
                Q!EnqueueRefused, Q!Settle, Q!ClearCommandLane, queueVars
<1>2. CASE LoopStep
    BY <1>2 DEF LoopStep, StartSucceeds, FirstStartFails, RestartFails,
                AwaitRestartAfterFailure, queueVars
<1>3. CASE Stop \/ Restart
    BY <1>3 DEF Stop, Restart, Q!MarkGatewayDraining, queueVars
<1>4. CASE ShutdownStep
    BY <1>4 DEF ShutdownStep, TasksDrained, RunsDrained, DrainTimesOut, CloseServer,
                ServerClosed, ForceExit, ExitAfterClose, ReacquireFails, RestartInProcess,
                RestartResolvesNothing, Q!ResetAllLanes, queueVars
<1> QED BY <1>1, <1>2, <1>3, <1>4 DEF Next, vars, queueVars

LEMMA QueueIsKept == LInv /\ [Next]_vars => QueueKept
<1> SUFFICES ASSUME LInv, [Next]_vars PROVE QueueKept
    OBVIOUS
<1>1. QP!IInv /\ [QP!Next]_(QP!vars)
    BY QueueStep, SameQueue DEF LInv
<1>2. QP!GoodStep
    BY <1>1, QP!NextGood, LanesAssumption, EntriesFinite
<1>3. \A e \in Entries : QP!KeepsTask(e)
    BY <1>1, QP!NextKeepsTasks, LanesAssumption, EntriesFinite
<1> QED BY <1>2, <1>3, LimitsKept DEF QueueKept

LEMMA OneAtATimeKept == LInv /\ [Next]_vars => OneAtATime'
<1> SUFFICES ASSUME LInv, [Next]_vars PROVE OneAtATime'
    OBVIOUS
<1>1. QP!IInv /\ [QP!Next]_(QP!vars) /\ \A l \in Lanes : QP!AtMostOne(activeTaskIds[l])
    BY QueueStep, SameQueue DEF LInv, OneAtATime
<1>2. maxConcurrent' = [l \in Lanes |-> 1]
    BY LimitsKept DEF LInv, OneAtATime
<1>3. ASSUME NEW l \in Lanes PROVE QP!AtMostOne(activeTaskIds'[l])
  <2>1. maxConcurrent'[l] = 1
      BY <1>2
  <2> QED BY <1>1, <2>1, QP!AtMostOneKept, LanesAssumption, EntriesFinite
<1>4. ASSUME NEW l \in Lanes
      PROVE  \A e, f \in Entries :
                /\ e # f /\ LaneOf[e] = l /\ LaneOf[f] = l
                /\ status'[e] = "running" /\ status'[f] = "running"
                => taskGeneration'[e] # taskGeneration'[f]
  <2>1. QP!OneTaskPerGeneration(l)
      BY DEF LInv, OneAtATime, OneRunPerLifeCycle, QP!OneTaskPerGeneration
  <2> QED BY <1>1, <1>3, <2>1, QP!OneTaskKept, LanesAssumption, EntriesFinite
<1>5. OneRunPerLifeCycle'
    BY <1>4, LanesAssumption DEF OneRunPerLifeCycle
<1>6. \A l \in Lanes : QP!AtMostOne(activeTaskIds[l])'
    BY <1>3 DEF QP!AtMostOne
<1> QED BY <1>2, <1>5, <1>6 DEF OneAtATime

LEMMA LoopTypedKept == LInv /\ [Next]_vars => LoopTyped'
<1> SUFFICES ASSUME LInv, [Next]_vars PROVE LoopTyped'
    OBVIOUS
<1> USE DEF LInv, LoopTyped
<1>1. CASE LaneStep
  <2>1. ASSUME NEW e \in Entries, Submit(e) PROVE LoopTyped'
      BY <2>1 DEF Submit, loopVars
  <2>2. ASSUME NEW l \in Lanes, ClearLane(l) PROVE LoopTyped'
      BY <2>2 DEF ClearLane, loopVars
  <2>3. ASSUME NEW e \in Entries, RegisterRun(e) \/ ClearRun(e) \/ Finish(e) PROVE LoopTyped'
      BY <2>3, LanesAssumption DEF RegisterRun, ClearRun, Finish, loopVars
  <2> QED BY <1>1, <2>1, <2>2, <2>3 DEF LaneStep
<1>2. CASE LoopStep
    BY ZenonT(30), <1>2 DEF LoopStep, StartSucceeds, FirstStartFails, RestartFails,
                AwaitRestartAfterFailure, Starting
<1>3. CASE Stop
    BY <1>3 DEF Stop, ShuttingDown
<1>4. CASE Restart
  <2>1. AllActive \subseteq Entries
      BY DEF AllActive, QP!IInv, QP!WellTyped
  <2>2. waits' \in [tasks : {"none", "waiting", "drained", "timedOut"},
                   runs : {"none", "waiting", "drained", "timedOut"}]
      BY <1>4 DEF Restart, WaitsFor
  <2> QED BY <1>4, <2>1, <2>2 DEF Restart
<1>5. CASE TasksDrained \/ RunsDrained \/ DrainTimesOut
    BY <1>5 DEF TasksDrained, RunsDrained, DrainTimesOut
<1>6. CASE CloseServer \/ ServerClosed \/ ForceExit \/ ExitAfterClose \/ ReacquireFails
    BY ZenonT(30), <1>6 DEF CloseServer, ServerClosed, ForceExit, ExitAfterClose, ReacquireFails
<1>7. CASE RestartInProcess \/ RestartResolvesNothing
    BY <1>7 DEF RestartInProcess, RestartResolvesNothing
<1>8. CASE UNCHANGED vars
    BY <1>8 DEF vars, loopVars
<1> QED BY <1>1, <1>2, <1>3, <1>4, <1>5, <1>6, <1>7, <1>8 DEF Next, ShutdownStep

LEMMA SignalAtRestKept == LInv /\ [Next]_vars => SignalAtRest'
<1> SUFFICES ASSUME LInv, [Next]_vars PROVE SignalAtRest'
    OBVIOUS
<1> USE DEF LInv, LoopTyped, SignalAtRest
<1>1. CASE LaneStep
  <2>1. gatewayDraining' = gatewayDraining /\ UNCHANGED <<loop, server, listening, shutdown, early>>
      BY <1>1 DEF LaneStep, Submit, RegisterRun, ClearRun, Finish, ClearLane, Q!Enqueue,
                  Q!EnqueueRefused, Q!Settle, Q!ClearCommandLane, queueVars, loopVars
  <2> QED BY <2>1
<1>2. CASE LoopStep
    BY <1>2 DEF LoopStep, StartSucceeds, FirstStartFails, RestartFails,
                AwaitRestartAfterFailure, Starting, queueVars
<1>3. CASE Stop
    BY <1>3 DEF Stop, ShuttingDown, queueVars
<1>4. CASE Restart
    BY <1>4 DEF Restart, ShuttingDown
<1>5. CASE TasksDrained \/ RunsDrained \/ DrainTimesOut
    BY <1>5 DEF TasksDrained, RunsDrained, DrainTimesOut, queueVars
<1>6. CASE CloseServer \/ ServerClosed \/ ForceExit \/ ExitAfterClose \/ ReacquireFails
    BY <1>6 DEF CloseServer, ServerClosed, ForceExit, ExitAfterClose, ReacquireFails, queueVars
<1>7. CASE RestartInProcess
    BY <1>7 DEF RestartInProcess, Q!ResetAllLanes
<1>8. CASE RestartResolvesNothing
    BY <1>8 DEF RestartResolvesNothing, queueVars
<1>9. CASE UNCHANGED vars
    BY <1>9 DEF vars, queueVars, loopVars
<1> QED BY <1>1, <1>2, <1>3, <1>4, <1>5, <1>6, <1>7, <1>8, <1>9 DEF Next, ShutdownStep

\* A task of the snapshot goes on executing in its generation, or settles.
LEMMA SnapshotKept ==
    ASSUME QueueKept, generation' = generation, NEW e \in Entries
    PROVE  /\ status[e] \in QP!Settled => status'[e] \in QP!Settled
           /\ status[e] = "running" /\ taskGeneration[e] = generation[LaneOf[e]] =>
                 \/ status'[e] = "running" /\ taskGeneration'[e] = generation'[LaneOf[e]]
                 \/ status'[e] \in QP!Settled
    BY DEF QueueKept, QP!GoodStep, QP!KeepsTask

LEMMA DrainingKept == LInv /\ [Next]_vars => Draining'
<1> SUFFICES ASSUME LInv, [Next]_vars PROVE Draining'
    OBVIOUS
<1>t. LoopTyped /\ Draining
    BY DEF LInv
<1>q. QueueKept
    BY QueueIsKept
<1>0. ASSUME generation' = generation,
             UNCHANGED <<shutdown, action, waits, activeAtStart>>
      PROVE  Draining'
  <2>1. activeAtStart \subseteq Entries
      BY <1>t DEF LoopTyped
  <2> QED BY <1>0, <1>t, <1>q, <2>1, SnapshotKept DEF Draining, ShuttingDown
<1>1. CASE LaneStep
  <2>1. generation' = generation /\ UNCHANGED <<shutdown, action, waits, activeAtStart>>
      BY <1>1 DEF LaneStep, Submit, RegisterRun, ClearRun, Finish, ClearLane, Q!Enqueue,
                  Q!EnqueueRefused, Q!Settle, Q!ClearCommandLane, queueVars, loopVars
  <2> QED BY <1>0, <2>1
<1>2. CASE LoopStep
  <2>1. generation' = generation /\ UNCHANGED <<shutdown, action, waits, activeAtStart>>
      BY <1>2 DEF LoopStep, StartSucceeds, FirstStartFails, RestartFails,
                  AwaitRestartAfterFailure, queueVars
  <2> QED BY <1>0, <2>1
<1>3. CASE Stop
  <2>1. CASE ShuttingDown
      BY <1>0, <1>3, <2>1 DEF Stop, queueVars
  <2>2. CASE ~ShuttingDown
      BY <1>3, <2>2 DEF Stop, Draining
  <2> QED BY <2>1, <2>2
<1>4. CASE Restart
  <2>1. activeAtStart' = AllActive /\ waits' = WaitsFor /\ shutdown' = "draining"
      BY <1>4 DEF Restart
  <2>2. /\ status' = status /\ taskGeneration' = taskGeneration /\ generation' = generation
      BY <1>4 DEF Restart, Q!MarkGatewayDraining
  <2>3. \A e \in AllActive :
            e \in Entries /\ status[e] = "running" /\ taskGeneration[e] = generation[LaneOf[e]]
      BY DEF AllActive, LInv, QP!IInv, QP!WellTyped, QP!Consistent, QP!ActiveExact
  <2>4. /\ waits'.tasks = "none" => AllActive = {}
        /\ waits'.tasks # "drained"
      BY <2>1 DEF WaitsFor
  <2> QED BY <2>1, <2>2, <2>3, <2>4 DEF Draining
<1>5. CASE TasksDrained
  <2>1. /\ waits' = [waits EXCEPT !.tasks = "drained"] /\ activeAtStart' = activeAtStart
        /\ status' = status /\ taskGeneration' = taskGeneration /\ generation' = generation
        /\ shutdown' = shutdown /\ action' = action /\ shutdown = "draining"
        /\ activeAtStart \cap AllActive = {}
      BY <1>5 DEF TasksDrained, queueVars
  <2>2. waits'.tasks = "drained"
      BY <1>t, <2>1 DEF LoopTyped
  <2>3. ASSUME NEW e \in activeAtStart, status[e] = "running",
               taskGeneration[e] = generation[LaneOf[e]]
        PROVE  FALSE
    <3>1. e \in Entries /\ LaneOf[e] \in Lanes
        BY <1>t, LanesAssumption DEF LoopTyped
    <3>2. e \in activeTaskIds[LaneOf[e]]
        BY <2>3, <3>1 DEF LInv, QP!IInv, QP!Consistent, QP!ActiveExact
    <3> QED BY <2>1, <3>1, <3>2 DEF AllActive
  <2> QED BY <1>t, <2>1, <2>2, <2>3 DEF Draining, ShuttingDown
<1>6. CASE RunsDrained \/ DrainTimesOut
  <2>1. /\ activeAtStart' = activeAtStart /\ shutdown' = shutdown /\ action' = action
        /\ status' = status /\ taskGeneration' = taskGeneration /\ generation' = generation
        /\ shutdown = "draining"
      BY <1>6 DEF RunsDrained, DrainTimesOut, queueVars
  <2>2. waits'.tasks = waits.tasks \/ waits'.tasks = "timedOut"
      BY <1>6, <1>t DEF RunsDrained, DrainTimesOut, LoopTyped
  <2> QED BY <1>t, <2>1, <2>2 DEF Draining, ShuttingDown
<1>7. CASE CloseServer \/ ServerClosed
  <2>1. /\ activeAtStart' = activeAtStart /\ waits' = waits /\ action' = action
        /\ status' = status /\ taskGeneration' = taskGeneration /\ generation' = generation
        /\ ShuttingDown
        /\ (shutdown = "draining" /\ action = "restart") => waits.tasks # "waiting"
      BY <1>7 DEF CloseServer, ServerClosed, queueVars, ShuttingDown
  <2> QED BY <1>t, <2>1 DEF Draining, ShuttingDown
<1>8. CASE ForceExit \/ ExitAfterClose \/ ReacquireFails
  <2>1. generation' = generation /\ UNCHANGED <<shutdown, action, waits, activeAtStart>>
      BY <1>8 DEF ForceExit, ExitAfterClose, ReacquireFails, queueVars
  <2> QED BY <1>0, <2>1
<1>9. CASE RestartInProcess \/ RestartResolvesNothing
    BY <1>9 DEF RestartInProcess, RestartResolvesNothing, Draining, ShuttingDown
<1>10. CASE UNCHANGED vars
    BY <1>0, <1>10 DEF vars, queueVars, loopVars
<1> QED BY <1>1, <1>2, <1>3, <1>4, <1>5, <1>6, <1>7, <1>8, <1>9, <1>10 DEF Next, ShutdownStep

LEMMA NextLInv == LInv /\ [Next]_vars => LInv'
<1>1. LInv /\ [Next]_vars => QP!IInv'
    BY QueueIsKept DEF QueueKept, QP!GoodStep
<1> QED BY <1>1, LoopTypedKept, SignalAtRestKept, DrainingKept, OneAtATimeKept DEF LInv

-----------------------------------------------------------------------------
(* The theorems.                                                             *)

\* The gateway uses the command queue as its interface allows: whatever the
\* loop, the signals and the runs do, the queue behaves as CommandQueue.
THEOREM ImplementsQueue == Spec => Q!Spec
<1>1. Init => Q!Init
    BY DEF Init
<1> QED BY <1>1, QueueStep, PTL DEF Spec, Q!Spec

\* The inductive invariant holds in every reachable state of the gateway.
THEOREM LoopInvariant == Spec => []LInv
    BY InitLInv, NextLInv, PTL DEF Spec

\* The loop's variables keep their types.
THEOREM TypeCorrect == Spec => []TypeOK
<1>1. LInv => TypeOK
    BY DEF LInv, LoopTyped, TypeOK
<1> QED BY LoopInvariant, <1>1, PTL

\* After every restart whose signal found the loop at rest, the queue accepts
\* work again as soon as the server serves.
THEOREM ServingAccepts == Spec => []AcceptsWhileServing
<1>1. LInv => AcceptsWhileServing
    BY DEF LInv, SignalAtRest, AcceptsWhileServing, ShuttingDown
<1> QED BY LoopInvariant, <1>1, PTL

\* The loop knows of every server that listens.
THEOREM ServerKnown == Spec => []NoOrphanServer
<1>1. LInv => NoOrphanServer
    BY DEF LInv, SignalAtRest, NoOrphanServer
<1> QED BY LoopInvariant, <1>1, PTL

\* A session lane executes one run at a time in each life cycle.
THEOREM OneRun == Spec => []OneRunPerLifeCycle
<1>1. LInv => OneRunPerLifeCycle
    BY DEF LInv, OneAtATime
<1> QED BY LoopInvariant, <1>1, PTL

\* An in-process restart that did not run into the drain deadline resets the
\* lanes only when the tasks it waited for have ended.
THEOREM DrainWaits == Spec => ActiveTasksFinishFirst
<1>1. LInv /\ [Next]_vars =>
          [loop = "waiting" /\ loop' = "restarting" /\ waits.tasks # "timedOut"
            => \A e \in activeAtStart : status[e] # "running"]_vars
  <2> SUFFICES ASSUME LInv, Next, loop = "waiting", loop' = "restarting",
                      waits.tasks # "timedOut", NEW e \in activeAtStart
               PROVE  status[e] # "running"
      OBVIOUS
  <2>1. shutdown = "released" /\ action = "restart"
    <3>1. CASE LaneStep
        BY <3>1 DEF LaneStep, Submit, RegisterRun, ClearRun, Finish, ClearLane, loopVars
    <3>2. CASE LoopStep
        BY <3>2 DEF LoopStep, StartSucceeds, FirstStartFails, RestartFails,
                    AwaitRestartAfterFailure, Starting
    <3>3. CASE Stop \/ Restart
        BY <3>3 DEF Stop, Restart
    <3>4. CASE ShutdownStep
        BY <3>4 DEF ShutdownStep, TasksDrained, RunsDrained, DrainTimesOut, CloseServer,
                    ServerClosed, ForceExit, ExitAfterClose, ReacquireFails,
                    RestartInProcess, RestartResolvesNothing
    <3> QED BY <3>1, <3>2, <3>3, <3>4 DEF Next
  <2>2. waits.tasks = "none" \/ waits.tasks = "drained"
      BY <2>1 DEF LInv, LoopTyped, Draining, ShuttingDown
  <2>3. status[e] \in QP!Settled
      BY <2>1, <2>2 DEF LInv, Draining, ShuttingDown
  <2> QED BY <2>3 DEF QP!Settled
<1> QED BY LoopInvariant, <1>1, PTL DEF Spec, ActiveTasksFinishFirst
=============================================================================
