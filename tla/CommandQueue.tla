---------------------------- MODULE CommandQueue ----------------------------
(***************************************************************************)
(* The gateway's in-process command queue (src/src/process/                *)
(* command-queue.ts): named lanes, each a FIFO of calls with a limit on    *)
(* how many of them execute at once.                                       *)
(*                                                                         *)
(* Every handler below runs to its end in one turn of the event loop, so   *)
(* it is one atomic action that includes the pump it triggers.  An entry   *)
(* is one call of enqueueCommandInLane: its queue entry, the task id the   *)
(* pump gives it (ids are never reused) and the promise its caller holds.  *)
(* The `draining' flag of a lane is true only inside the synchronous pump, *)
(* hence never between two actions.                                        *)
(***************************************************************************)
EXTENDS Naturals, Sequences, FiniteSets

CONSTANTS
    Entries,        \* calls of enqueueCommandInLane
    Lanes,          \* the lane names in use, after trim() || "main"
    LaneOf,         \* the lane each call names
    MaxLimit,       \* largest value passed to setCommandLaneConcurrency
    MaxGeneration   \* bound: number of resets explored

ASSUME EntriesAssumption == IsFiniteSet(Entries)
ASSUME LaneOfAssumption == LaneOf \in [Entries -> Lanes]
ASSUME MaxLimitAssumption == MaxLimit \in Nat \ {0}
ASSUME MaxGenerationAssumption == MaxGeneration \in Nat

VARIABLES
    gatewayDraining,  \* queueState.gatewayDraining
    queue,            \* LaneState.queue, per lane
    activeTaskIds,    \* LaneState.activeTaskIds, per lane
    maxConcurrent,    \* LaneState.maxConcurrent, per lane
    generation,       \* LaneState.generation, per lane
    taskGeneration,   \* the generation each task captured when it started
    status            \* the entry's promise, and whether its task executes

vars == <<gatewayDraining, queue, activeTaskIds, maxConcurrent, generation,
          taskGeneration, status>>

Settled  == {"resolved", "rejected", "cleared", "refused"}
Statuses == {"fresh", "queued", "running"} \cup Settled

Running(l) == {e \in Entries : LaneOf[e] = l /\ status[e] = "running"}

-----------------------------------------------------------------------------
(* The pump.                                                               *)

\* How many entries the pump shifts: it stops at the limit or at the end.
PumpCountAll(q, act, max) == Len(q)
PumpCount(q, act, max) ==
    IF Cardinality(act) >= max THEN 0
    ELSE IF Len(q) <= max - Cardinality(act) THEN Len(q)
    ELSE max - Cardinality(act)

\* state.queue.push(entry)
Push(q, e) == Append(q, e)

\* The first n elements of q, as a set, and q without them.
HeadSet(q, n) == {q[i] : i \in 1..n}
Rest(q, n)    == SubSeq(q, n + 1, Len(q))

\* drainLane on every lane of ls, from the state (q, act, max, gen, st) its
\* caller has produced; other lanes get q, act and st as they are.
DrainLanes(ls, q, act, max, gen, st) ==
    LET n == [l \in Lanes |-> IF l \in ls THEN PumpCount(q[l], act[l], max[l]) ELSE 0]
        started(e) == e \in HeadSet(q[LaneOf[e]], n[LaneOf[e]])
    IN  /\ queue' = [l \in Lanes |-> Rest(q[l], n[l])]
        /\ activeTaskIds' = [l \in Lanes |-> act[l] \cup HeadSet(q[l], n[l])]
        /\ status' = [e \in Entries |-> IF started(e) THEN "running" ELSE st[e]]
        /\ taskGeneration' = [e \in Entries |->
               IF started(e) THEN gen[LaneOf[e]] ELSE taskGeneration[e]]

-----------------------------------------------------------------------------
(* The operations.                                                         *)

Init ==
    /\ gatewayDraining = FALSE
    /\ queue = [l \in Lanes |-> <<>>]
    /\ activeTaskIds = [l \in Lanes |-> {}]
    /\ maxConcurrent = [l \in Lanes |-> 1]
    /\ generation = [l \in Lanes |-> 0]
    /\ taskGeneration = [e \in Entries |-> 0]
    /\ status = [e \in Entries |-> "fresh"]

\* enqueueCommandInLane: refused at once while the gateway drains ...
EnqueueRefused(e) ==
    /\ status[e] = "fresh"
    /\ gatewayDraining
    /\ status' = [status EXCEPT ![e] = "refused"]
    /\ UNCHANGED <<gatewayDraining, queue, activeTaskIds, maxConcurrent,
                   generation, taskGeneration>>

\* ... and otherwise appended to its lane, which is then drained.
Enqueue(e) ==
    /\ status[e] = "fresh"
    /\ ~gatewayDraining
    /\ DrainLanes({LaneOf[e]},
                  [queue EXCEPT ![LaneOf[e]] = Push(@, e)],
                  activeTaskIds, maxConcurrent, generation,
                  [status EXCEPT ![e] = "queued"])
    /\ UNCHANGED <<gatewayDraining, maxConcurrent, generation>>

SettleNoPump(e) ==
    /\ status[e] = "running"
    /\ status' = [status EXCEPT ![e] = "resolved"]
    /\ activeTaskIds' = [activeTaskIds EXCEPT ![LaneOf[e]] = @ \ {e}]
    /\ UNCHANGED <<gatewayDraining, queue, maxConcurrent, generation, taskGeneration>>
\* A task's promise settles: completeTask and the pump are skipped when the
\* lane has been reset since the task started; the caller hears either way.
Settle(e) ==
    LET l == LaneOf[e] IN
    /\ status[e] = "running"
    /\ \E result \in {"resolved", "rejected"} :
           IF taskGeneration[e] = generation[l]
           THEN DrainLanes({l}, queue, [activeTaskIds EXCEPT ![l] = @ \ {e}],
                           maxConcurrent, generation, [status EXCEPT ![e] = result])
           ELSE /\ status' = [status EXCEPT ![e] = result]
                /\ UNCHANGED <<queue, activeTaskIds, taskGeneration>>
    /\ UNCHANGED <<gatewayDraining, maxConcurrent, generation>>

\* clearCommandLane: every queued entry of the lane is rejected; active tasks
\* are left alone.
ClearKeepQueue(l) ==
    /\ queue[l] # <<>>
    /\ status' = [e \in Entries |->
           IF e \in HeadSet(queue[l], Len(queue[l])) THEN "cleared" ELSE status[e]]
    /\ UNCHANGED <<gatewayDraining, queue, activeTaskIds, maxConcurrent,
                   generation, taskGeneration>>
ClearCommandLane(l) ==
    /\ queue[l] # <<>>
    /\ queue' = [queue EXCEPT ![l] = <<>>]
    /\ status' = [e \in Entries |->
           IF e \in HeadSet(queue[l], Len(queue[l])) THEN "cleared" ELSE status[e]]
    /\ UNCHANGED <<gatewayDraining, activeTaskIds, maxConcurrent, generation,
                   taskGeneration>>

\* setCommandLaneConcurrency: Math.max(1, n), then drainLane.
Limit(n) == IF n < 1 THEN 1 ELSE n
SetCommandLaneConcurrency(l, n) ==
    LET limit == [maxConcurrent EXCEPT ![l] = Limit(n)] IN
    /\ maxConcurrent' = limit
    /\ DrainLanes({l}, queue, activeTaskIds, limit, generation, status)
    /\ UNCHANGED <<gatewayDraining, generation>>

MarkGatewayDraining ==
    /\ gatewayDraining' = TRUE
    /\ UNCHANGED <<queue, activeTaskIds, maxConcurrent, generation,
                   taskGeneration, status>>

\* resetAllLanes: a new generation in every lane, no active ids, and then the
\* lanes with queued work are drained.
IdsKept == activeTaskIds
IdsAfterReset == [l \in Lanes |-> {}]
ResetAllLanes ==
    /\ \A l \in Lanes : generation[l] < MaxGeneration
    /\ gatewayDraining' = FALSE
    /\ generation' = [l \in Lanes |-> generation[l] + 1]
    /\ DrainLanes({l \in Lanes : queue[l] # <<>>}, queue, IdsAfterReset,
                  maxConcurrent, generation', status)
    /\ UNCHANGED maxConcurrent

Next ==
    \/ \E e \in Entries : EnqueueRefused(e) \/ Enqueue(e) \/ Settle(e)
    \/ \E l \in Lanes : ClearCommandLane(l)
    \/ \E l \in Lanes, n \in 0..MaxLimit : SetCommandLaneConcurrency(l, n)
    \/ MarkGatewayDraining
    \/ ResetAllLanes

Spec == Init /\ [][Next]_vars

\* Agent runs, cron jobs and the other tasks are bounded by their own
\* timeouts, so a task that executes settles.
FairSpec == Spec /\ \A e \in Entries : WF_vars(Settle(e))

-----------------------------------------------------------------------------
(* Properties.                                                             *)

\* The type of the queue's state (LaneState and queueState).
TypeOK ==
    /\ gatewayDraining \in BOOLEAN
    /\ queue \in [Lanes -> Seq(Entries)]
    /\ activeTaskIds \in [Lanes -> SUBSET Entries]
    /\ maxConcurrent \in [Lanes -> Nat \ {0}]
    /\ generation \in [Lanes -> Nat]
    /\ taskGeneration \in [Entries -> Nat]
    /\ status \in [Entries -> Statuses]

\* An entry waits in its own lane's queue exactly while its promise is
\* pending and its task has not started, and it waits there once: no call is
\* lost between push, shift, splice and reset, and none can be pumped twice.
QueuedOnce ==
    /\ \A l \in Lanes : \A i \in 1..Len(queue[l]) :
           LaneOf[queue[l][i]] = l /\ status[queue[l][i]] = "queued"
    /\ \A e \in Entries : status[e] = "queued" =>
           \E i \in 1..Len(queue[LaneOf[e]]) : queue[LaneOf[e]][i] = e
    /\ \A l \in Lanes : \A i, j \in 1..Len(queue[l]) :
           queue[l][i] = queue[l][j] => i = j

\* activeTaskIds counts exactly the executing tasks of the lane's current
\* generation: a completion that arrives late neither leaks a slot nor frees
\* one that a task of the new generation holds.
ActiveIsCurrentGeneration ==
    \A l \in Lanes : activeTaskIds[l] =
        {e \in Running(l) : taskGeneration[e] = generation[l]}

\* No wake-up is lost: whenever a lane has queued entries, every one of its
\* slots is taken, so some completion will pump it (drainLane after enqueue,
\* after a completion, after a limit change and after a reset).
WorkConserving ==
    \A l \in Lanes : queue[l] # <<>> =>
        Cardinality(activeTaskIds[l]) >= maxConcurrent[l]

\* The pump never exceeds the limit: a step that starts a task leaves the lane
\* within maxConcurrent, also after the limit was lowered below what executes.
StartsWithinLimit ==
    [][\A l \in Lanes : activeTaskIds'[l] \subseteq activeTaskIds[l]
            \/ Cardinality(activeTaskIds'[l]) <= maxConcurrent'[l]]_vars

\* Lanes are FIFO by arrival: while e waits, an entry of its lane that stands
\* behind e, or has not been enqueued yet, neither starts nor moves ahead of e.
Ahead(e, f) ==
    \E i, j \in 1..Len(queue[LaneOf[e]]) :
        i < j /\ queue[LaneOf[e]][i] = e /\ queue[LaneOf[e]][j] = f
FifoStart ==
    [][\A e, f \in Entries :
            /\ LaneOf[e] = LaneOf[f] /\ e # f
            /\ status[e] = "queued" /\ (status[f] = "fresh" \/ Ahead(e, f))
            => \/ status'[e] # "queued"
               \/ status'[f] \in {"fresh", "refused"}
               \/ status'[f] = "queued" /\ Ahead(e, f)']_vars

\* A caller's promise settles at most once, and a settled call is never
\* executed afterwards (a cleared entry is not pumped later).
SettlesOnce ==
    [][\A e \in Entries : status[e] \in Settled => status'[e] = status[e]]_vars

\* Every accepted call is answered: it executes to its end or is cleared,
\* whatever limit changes and resets happen meanwhile.
EveryCallSettles ==
    \A e \in Entries : status[e] = "queued" ~> status[e] \in Settled
=============================================================================
