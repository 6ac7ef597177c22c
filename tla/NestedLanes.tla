----------------------------- MODULE NestedLanes -----------------------------
(***************************************************************************)
(* Agent runs in the command queue.  runEmbeddedPiAgent takes its          *)
(* session's lane and, holding it, a global lane; a manual cron run holds  *)
(* the cron lane around both (src/src/agents/pi-embedded-runner/run.ts,    *)
(* lanes.ts, src/src/cron/service/ops.ts).  Slots are held while waiting   *)
(* for more slots, so the question is whether runs can block each other.   *)
(***************************************************************************)
EXTENDS Naturals, Sequences, FiniteSets

CONSTANTS
    Runs,           \* calls of runEmbeddedPiAgent
    CronJobs,       \* those that a queued manual cron run makes
    Sessions,       \* session lanes
    SessionOf,      \* the session each run belongs to
    LaneParam,      \* params.lane of each run; "none" when it is not given
    MaxLimit, MaxGeneration   \* see CommandQueue

\* A session's lane has a name of its own: its key with the prefix "session:".
ASSUME NestedAssumption ==
    /\ IsFiniteSet(Runs) /\ CronJobs \subseteq Runs
    /\ SessionOf \in [Runs -> Sessions]
    /\ Sessions \cap {"main", "cron", "subagent", "nested"} = {}
    /\ LaneParam \in [Runs -> {"none", "cron", "subagent", "nested"}]
    /\ MaxLimit \in Nat \ {0} /\ MaxGeneration \in Nat

VARIABLES gatewayDraining, queue, activeTaskIds, maxConcurrent, generation,
          taskGeneration, status   \* see CommandQueue

vars == <<gatewayDraining, queue, activeTaskIds, maxConcurrent, generation,
          taskGeneration, status>>

\* resolveGlobalLane: a run of the cron lane must not wait for the lane its
\* own job holds.
GlobalLaneAsGiven(lane) == IF lane = "none" THEN "main" ELSE lane
ResolveGlobalLane(lane) ==
    IF lane = "cron" THEN "nested" ELSE IF lane = "none" THEN "main" ELSE lane

\* The calls of enqueueCommandInLane that the runs make.
Outer(r) == <<"session", r>>
Inner(r) == <<"global", r>>
Job(r)   == <<"cron", r>>
Calls == {Outer(r) : r \in Runs} \cup {Inner(r) : r \in Runs} \cup {Job(r) : r \in CronJobs}
LaneNames == Sessions \cup {"main", "cron", "subagent", "nested"}
CallLane == [c \in Calls |->
    CASE c[1] = "session" -> SessionOf[c[2]]
      [] c[1] = "global"  -> ResolveGlobalLane(LaneParam[c[2]])
      [] c[1] = "cron"    -> "cron"]

Q == INSTANCE CommandQueue WITH Entries <- Calls, Lanes <- LaneNames, LaneOf <- CallLane

Submit(c) == Q!Enqueue(c) \/ Q!EnqueueRefused(c)
Done(c) == status[c] \in Q!Settled

\* A session task that has just started has not called enqueueGlobal yet: it
\* does so in the same turn, before anything else happens.
Urgent == {r \in Runs : status[Outer(r)] = "running" /\ status[Inner(r)] = "fresh"}

-----------------------------------------------------------------------------

Init == Q!Init

\* enqueueRun: the job waits for the cron lane.
EnqueueJob(r) == r \in CronJobs /\ Submit(Job(r))

\* runEmbeddedPiAgent: called directly, or by the cron job that now executes.
RunAgent(r) ==
    /\ r \in CronJobs => status[Job(r)] = "running"
    /\ Submit(Outer(r))

\* enqueueSession(() => enqueueGlobal(...))
EnqueueGlobal(r) == r \in Urgent /\ Submit(Inner(r))

\* The agent's turn ends; then the calls that awaited it, from the inside out.
FinishTurn(r) == Q!Settle(Inner(r))
FinishSessionEarly(r) == Q!Settle(Outer(r))
FinishSessionTask(r) == Done(Inner(r)) /\ Q!Settle(Outer(r))
FinishJob(r) == r \in CronJobs /\ Done(Outer(r)) /\ Q!Settle(Job(r))

\* clearSessionQueues and the interrupt mode clear a session's lane only.
ClearSession(s) == Q!ClearCommandLane(s)

\* server-lanes.ts and a config reload set the three configurable lanes.
ConfigureLanes(l, n) == l \in {"main", "cron", "subagent"} /\ Q!SetCommandLaneConcurrency(l, n)

Next ==
    \/ \E r \in Runs : EnqueueGlobal(r)
    \/ /\ Urgent = {}
       /\ \/ \E r \in Runs : \/ EnqueueJob(r) \/ RunAgent(r) \/ FinishTurn(r)
                             \/ FinishSessionTask(r) \/ FinishJob(r)
          \/ \E s \in Sessions : ClearSession(s)
          \/ \E l \in {"main", "cron", "subagent"}, n \in 1..MaxLimit : ConfigureLanes(l, n)
          \/ Q!MarkGatewayDraining
          \/ Q!ResetAllLanes

Spec == Init /\ [][Next]_vars

\* Turns are bounded by the run timeout; continuations run.
Progress(r) ==
    \/ EnqueueGlobal(r)
    \/ Urgent = {} /\ (FinishTurn(r) \/ FinishSessionTask(r) \/ FinishJob(r))
    \/ Urgent = {} /\ r \in CronJobs /\ RunAgent(r)
FairSpec == Spec /\ \A r \in Runs : WF_vars(Progress(r))

-----------------------------------------------------------------------------
(* Properties.                                                             *)

\* A session's lane stays taken for as long as the run it let through waits
\* for, or executes in, its global lane: within one life cycle no second run
\* of the session can be executing.
OneTurnPerSession ==
    \A r, s \in Runs :
        /\ r # s /\ SessionOf[r] = SessionOf[s]
        /\ status[Inner(r)] = "running" /\ status[Inner(s)] = "running"
        => taskGeneration[Outer(r)] # taskGeneration[Outer(s)]

\* No deadlock by hold-and-wait: every run that has been accepted ends, also
\* when cron jobs hold the only cron slot, when the gateway starts draining
\* while a run holds its session's lane, and across resets.
EveryRunEnds ==
    /\ \A r \in Runs : status[Outer(r)] \in {"queued", "running"} ~> Done(Outer(r))
    /\ \A r \in CronJobs : status[Job(r)] \in {"queued", "running"} ~> Done(Job(r))
=============================================================================
