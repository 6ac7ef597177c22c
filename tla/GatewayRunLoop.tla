--------------------------- MODULE GatewayRunLoop ---------------------------
(***************************************************************************)
(* The life cycle of the gateway process (src/src/cli/gateway-cli/         *)
(* run-loop.ts) composed with the command queue it drains and resets, and  *)
(* with the registry of embedded agent runs (src/src/agents/               *)
(* pi-embedded-runner/runs.ts) it waits for.                               *)
(*                                                                         *)
(* Three flows interleave at their awaits: the main loop (start the        *)
(* server, await the restart promise), the shutdown started by a signal    *)
(* (drain, close, release the lock, respawn) and the tasks in the lanes.   *)
(***************************************************************************)
EXTENDS Naturals, Sequences, FiniteSets

CONSTANTS
    Entries, Lanes, LaneOf, MaxLimit, MaxGeneration,   \* see CommandQueue
    NoRun,              \* no entry in activeRuns for a session
    Stuck               \* tasks whose promise never settles once they execute

ASSUME LanesAssumption ==
    /\ IsFiniteSet(Entries) /\ LaneOf \in [Entries -> Lanes]
    /\ MaxLimit \in Nat \ {0} /\ MaxGeneration \in Nat

VARIABLES
    gatewayDraining, queue, activeTaskIds, maxConcurrent, generation,
    taskGeneration, status,   \* see CommandQueue
    activeRuns,     \* ACTIVE_EMBEDDED_RUNS: the registered run per session
    loop,           \* where the main loop awaits
    server,         \* is the variable `server' set?
    listening,      \* is a started server still bound to the port?
    lockHeld,       \* is the gateway lock held?
    restartResolver,\* does it resolve the promise the loop awaits?
    shutdown,       \* where the shutdown flow awaits ("idle": shuttingDown = false)
    action,         \* "restart" or "stop", of the latest request
    waits,          \* Promise.all of the two drain waits
    activeAtStart,  \* the task ids waitForActiveTasks snapshots
    hadLock,        \* result of releaseLockIfHeld
    exited,         \* "no", or how the process ended
    early           \* history: a signal came while params.start() was pending

queueVars == <<gatewayDraining, queue, activeTaskIds, maxConcurrent,
               generation, taskGeneration, status>>
loopVars  == <<loop, server, listening, lockHeld, restartResolver, shutdown,
               action, waits, activeAtStart, hadLock, exited>>
vars == <<queueVars, activeRuns, loopVars, early>>

Q == INSTANCE CommandQueue

AllActive == UNION {activeTaskIds[l] : l \in Lanes}
RegisteredRuns == {activeRuns[l] : l \in Lanes} \ {NoRun}
ShuttingDown == shutdown # "idle"

-----------------------------------------------------------------------------
(* The work in the lanes; here a lane is a session.                        *)

Alive == exited = "no"

Submit(e) ==
    /\ Alive
    /\ Q!Enqueue(e) \/ Q!EnqueueRefused(e)
    /\ UNCHANGED <<activeRuns, loopVars, early>>

\* clearCommandLane, when an interrupting message or /stop empties a session.
ClearLane(l) ==
    /\ Alive
    /\ Q!ClearCommandLane(l)
    /\ UNCHANGED <<activeRuns, loopVars, early>>

\* setActiveEmbeddedRun, some awaits after the task started and once per
\* attempt; it replaces whatever run the session had registered.
RegisterRun(e) ==
    /\ Alive
    /\ status[e] = "running" /\ activeRuns[LaneOf[e]] # e
    /\ activeRuns' = [activeRuns EXCEPT ![LaneOf[e]] = e]
    /\ UNCHANGED <<queueVars, loopVars, early>>

\* clearActiveEmbeddedRun removes the run only if it is still the registered
\* one: at the end of an attempt ...
ClearRun(e) ==
    /\ Alive
    /\ e \notin Stuck
    /\ status[e] = "running" /\ activeRuns[LaneOf[e]] = e
    /\ activeRuns' = [activeRuns EXCEPT ![LaneOf[e]] = NoRun]
    /\ UNCHANGED <<queueVars, loopVars, early>>

\* ... and before the task itself settles.
Finish(e) ==
    /\ Alive
    /\ e \notin Stuck
    /\ Q!Settle(e)
    /\ activeRuns' = [activeRuns EXCEPT ![LaneOf[e]] = IF @ = e THEN NoRun ELSE @]
    /\ UNCHANGED <<loopVars, early>>

-----------------------------------------------------------------------------
(* The main loop.                                                          *)

NoWaits == [tasks |-> "none", runs |-> "none"]

Init ==
    /\ Q!Init
    /\ activeRuns = [l \in Lanes |-> NoRun]
    /\ loop = "firstStart"
    /\ server = FALSE /\ listening = FALSE
    /\ lockHeld = TRUE
    /\ restartResolver = "none"
    /\ shutdown = "idle" /\ action = "none"
    /\ waits = NoWaits
    /\ activeAtStart = {}
    /\ hadLock = FALSE
    /\ exited = "no" /\ early = FALSE

Starting == loop \in {"firstStart", "restarting"}

\* params.start() resolves: the port was free, and the loop awaits a new
\* promise whose resolver it stores.
StartSucceeds ==
    /\ Alive /\ Starting
    /\ ~listening
    /\ server' = TRUE /\ listening' = TRUE
    /\ loop' = "waiting" /\ restartResolver' = "pending"
    /\ UNCHANGED <<queueVars, activeRuns, lockHeld, shutdown, action, waits,
                   activeAtStart, hadLock, exited, early>>

\* params.start() throws.  The first time the error leaves runGatewayLoop ...
FirstStartFails ==
    /\ Alive /\ loop = "firstStart"
    /\ lockHeld' = FALSE
    /\ exited' = "startupError"
    /\ UNCHANGED <<queueVars, activeRuns, loop, server, listening, restartResolver,
                   shutdown, action, waits, activeAtStart, hadLock, early>>

\* ... later the process stays alive without a server and without the lock.
RestartFails ==
    /\ Alive /\ loop = "restarting"
    /\ server' = FALSE
    /\ loop' = "unlocking"
    /\ UNCHANGED <<queueVars, activeRuns, listening, lockHeld, restartResolver, shutdown,
                   action, waits, activeAtStart, hadLock, exited, early>>
AwaitRestartAfterFailure ==
    /\ Alive /\ loop = "unlocking"
    /\ lockHeld' = FALSE
    /\ loop' = "waiting" /\ restartResolver' = "pending"
    /\ UNCHANGED <<queueVars, activeRuns, server, listening, shutdown, action, waits,
                   activeAtStart, hadLock, exited, early>>

-----------------------------------------------------------------------------
(* Signals and the shutdown flow.                                          *)

\* request("stop"): close at once.
Stop ==
    /\ Alive
    /\ IF ShuttingDown
       THEN UNCHANGED <<shutdown, action>>
       ELSE shutdown' = "draining" /\ action' = "stop"
    /\ UNCHANGED <<queueVars, activeRuns, loop, server, listening, lockHeld,
                   restartResolver, waits, activeAtStart, hadLock, exited>>
    /\ early' = (early \/ loop # "waiting")

\* request("restart"): refuse new work, and wait for what is active now.
WaitsFor ==
    [tasks |-> IF AllActive # {} THEN "waiting" ELSE "none",
     runs  |-> IF RegisteredRuns # {} THEN "waiting" ELSE "none"]
Restart ==
    /\ Alive
    /\ ~ShuttingDown
    /\ \A l \in Lanes : generation[l] < MaxGeneration
    /\ Q!MarkGatewayDraining
    /\ shutdown' = "draining" /\ action' = "restart"
    /\ activeAtStart' = AllActive
    /\ waits' = WaitsFor
    /\ UNCHANGED <<activeRuns, loop, server, listening, lockHeld, restartResolver,
                   hadLock, exited>>
    /\ early' = (early \/ loop # "waiting")

\* waitForActiveTasks and waitForActiveEmbeddedRuns poll independently.
TasksDrained ==
    /\ Alive /\ shutdown = "draining" /\ waits.tasks = "waiting"
    /\ activeAtStart \cap AllActive = {}
    /\ waits' = [waits EXCEPT !.tasks = "drained"]
    /\ UNCHANGED <<queueVars, activeRuns, loop, server, listening, lockHeld, restartResolver,
                   shutdown, action, activeAtStart, hadLock, exited, early>>
RunsDrained ==
    /\ Alive /\ shutdown = "draining" /\ waits.runs = "waiting"
    /\ RegisteredRuns = {}
    /\ waits' = [waits EXCEPT !.runs = "drained"]
    /\ UNCHANGED <<queueVars, activeRuns, loop, server, listening, lockHeld, restartResolver,
                   shutdown, action, activeAtStart, hadLock, exited, early>>

\* DRAIN_TIMEOUT_MS: both waits have the same deadline; runs still registered
\* are told to abort, which bounds how long they go on but does not end them.
DrainTimesOut ==
    /\ Alive /\ shutdown = "draining"
    /\ "waiting" \in {waits.tasks, waits.runs}
    /\ waits' = [tasks |-> IF waits.tasks = "waiting" THEN "timedOut" ELSE waits.tasks,
                 runs  |-> IF waits.runs = "waiting" THEN "timedOut" ELSE waits.runs]
    /\ UNCHANGED <<queueVars, activeRuns, loop, server, listening, lockHeld, restartResolver,
                   shutdown, action, activeAtStart, hadLock, exited, early>>

\* server?.close(): `server' is read now, when the waits are over.
CloseForgotten ==
    /\ Alive /\ shutdown = "draining"
    /\ action = "restart" => "waiting" \notin {waits.tasks, waits.runs}
    /\ shutdown' = "nothingToClose"
    /\ UNCHANGED <<queueVars, activeRuns, loop, server, listening, lockHeld, restartResolver,
                   action, waits, activeAtStart, hadLock, exited, early>>
CloseServer ==
    /\ Alive /\ shutdown = "draining"
    /\ action = "restart" => "waiting" \notin {waits.tasks, waits.runs}
    /\ shutdown' = IF server THEN "closing" ELSE "nothingToClose"
    /\ UNCHANGED <<queueVars, activeRuns, loop, server, listening, lockHeld, restartResolver,
                   action, waits, activeAtStart, hadLock, exited, early>>

\* The close ends (or fails): the timer is cleared, server = null, and
\* releaseLockIfHeld releases the lock.
ServerClosed ==
    /\ Alive /\ shutdown \in {"closing", "nothingToClose"}
    /\ server' = FALSE
    /\ listening' = IF shutdown = "closing" THEN FALSE ELSE listening
    /\ hadLock' = lockHeld
    /\ lockHeld' = FALSE
    /\ shutdown' = "released"
    /\ UNCHANGED <<queueVars, activeRuns, loop, restartResolver, action, waits,
                   activeAtStart, exited, early>>

\* forceExitTimer, due SHUTDOWN_TIMEOUT_MS after the drain deadline.
ForceExit ==
    /\ Alive /\ shutdown = "closing"
    /\ exited' = IF action = "restart" THEN "forced1" ELSE "forced0"
    /\ UNCHANGED <<queueVars, activeRuns, loop, server, listening, lockHeld, restartResolver,
                   shutdown, action, waits, activeAtStart, hadLock, early>>

\* handleStopAfterServerClose, and handleRestartAfterServerClose when a
\* replacement process was spawned or a supervisor starts one.
ExitOnRestartOnly ==
    /\ Alive /\ shutdown = "released" /\ action = "restart"
    /\ exited' = "replaced"
    /\ UNCHANGED <<queueVars, activeRuns, loop, server, listening, lockHeld, restartResolver,
                   shutdown, action, waits, activeAtStart, hadLock, early>>
ExitAfterClose ==
    /\ Alive /\ shutdown = "released"
    /\ exited' = IF action = "stop" THEN "stopped" ELSE "replaced"
    /\ UNCHANGED <<queueVars, activeRuns, loop, server, listening, lockHeld, restartResolver,
                   shutdown, action, waits, activeAtStart, hadLock, early>>

\* The in-process restart: reacquire the lock if it was held; if that fails,
\* exit.
ReacquireFails ==
    /\ Alive /\ shutdown = "released" /\ action = "restart" /\ hadLock
    /\ exited' = "lockError"
    /\ UNCHANGED <<queueVars, activeRuns, loop, server, listening, lockHeld, restartResolver,
                   shutdown, action, waits, activeAtStart, hadLock, early>>

\* restartResolver?.() ends the promise the loop awaits: the loop runs
\* onIteration (resetAllLanes) and starts the server again ...
RestartNoReset ==
    /\ Alive /\ shutdown = "released" /\ action = "restart"
    /\ loop = "waiting" /\ restartResolver = "pending"
    /\ lockHeld' = hadLock
    /\ shutdown' = "idle"
    /\ restartResolver' = "resolved"
    /\ loop' = "restarting"
    /\ UNCHANGED <<queueVars, activeRuns, server, listening, action, waits, activeAtStart,
                   hadLock, exited, early>>
RestartInProcess ==
    /\ Alive /\ shutdown = "released" /\ action = "restart"
    /\ loop = "waiting" /\ restartResolver = "pending"
    /\ lockHeld' = hadLock
    /\ shutdown' = "idle"
    /\ restartResolver' = "resolved"
    /\ loop' = "restarting"
    /\ Q!ResetAllLanes
    /\ UNCHANGED <<activeRuns, server, listening, action, waits, activeAtStart, hadLock,
                   exited, early>>

\* ... but it is null, or resolves an older promise, while the loop is still
\* inside params.start(): then nothing more happens.
RestartResolvesNothing ==
    /\ Alive /\ shutdown = "released" /\ action = "restart"
    /\ restartResolver # "pending"
    /\ lockHeld' = hadLock
    /\ shutdown' = "idle"
    /\ UNCHANGED <<queueVars, activeRuns, loop, server, listening, restartResolver, action,
                   waits, activeAtStart, hadLock, exited, early>>

LaneStep ==
    \/ \E e \in Entries : Submit(e) \/ RegisterRun(e) \/ ClearRun(e) \/ Finish(e)
    \/ \E l \in Lanes : ClearLane(l)
LoopStep == StartSucceeds \/ FirstStartFails \/ RestartFails \/ AwaitRestartAfterFailure
ShutdownStep ==
    \/ TasksDrained \/ RunsDrained \/ DrainTimesOut \/ CloseServer \/ ServerClosed
    \/ ForceExit \/ ExitAfterClose \/ ReacquireFails
    \/ RestartInProcess \/ RestartResolvesNothing
Next == LaneStep \/ LoopStep \/ Stop \/ Restart \/ ShutdownStep

Spec == Init /\ [][Next]_vars

\* Timers fire, start() settles, the lock calls return; a task that is not
\* stuck ends.  server.close() need not end: ForceExit bounds it.
FairSpec ==
    /\ Spec
    /\ WF_vars(LoopStep)
    /\ WF_vars(ShutdownStep)
    /\ \A e \in Entries : WF_vars(Finish(e))

-----------------------------------------------------------------------------
(* Properties.                                                             *)

\* The type of the loop's own variables; the stored resolver is live exactly
\* while the loop awaits its promise.
TypeOK ==
    /\ restartResolver = "pending" <=> loop = "waiting"
    /\ activeRuns \in [Lanes -> Entries \cup {NoRun}]
    /\ loop \in {"firstStart", "restarting", "unlocking", "waiting"}
    /\ {server, listening, lockHeld, hadLock} \subseteq BOOLEAN
    /\ restartResolver \in {"none", "pending", "resolved"}
    /\ shutdown \in {"idle", "draining", "closing", "nothingToClose", "released"}
    /\ action \in {"none", "restart", "stop"}
    /\ {waits.tasks, waits.runs} \subseteq {"none", "waiting", "drained", "timedOut"}
    /\ activeAtStart \subseteq Entries
    /\ exited \in {"no", "startupError", "forced0", "forced1", "stopped",
                   "replaced", "lockError"}
    /\ early \in BOOLEAN

\* A gateway that serves and is not shutting down accepts work: a restart
\* never leaves the draining flag of the old life cycle behind, unless a
\* signal came during start(), when a restart resolves no promise.
AcceptsWhileServing ==
    Alive /\ loop = "waiting" /\ server /\ ~ShuttingDown => early \/ ~gatewayDraining

\* The loop knows of the server it started: a port that is bound while the
\* loop is at rest belongs to the server it would close on the next signal,
\* unless a signal came during start(), whose shutdown forgets the server.
NoOrphanServer ==
    Alive /\ loop = "waiting" /\ ~ShuttingDown => early \/ (listening <=> server)

\* Within one life cycle (one generation) a session lane of limit 1 executes
\* one run at a time, whatever stale runs of earlier life cycles still do.
OneRunPerLifeCycle ==
    \A e, f \in Entries :
        /\ e # f /\ LaneOf[e] = LaneOf[f]
        /\ status[e] = "running" /\ status[f] = "running"
        => taskGeneration[e] # taskGeneration[f]

\* A restart that did not hit the drain deadline goes on only after every task
\* that was active when the signal came has ended.
ActiveTasksFinishFirst ==
    [][loop = "waiting" /\ loop' = "restarting" /\ waits.tasks # "timedOut"
        => \A e \in activeAtStart : status[e] # "running"]_vars

\* The restart recovers a lane that a stuck task blocks: the entry at the
\* head of its queue starts, is cleared, or goes with the process, unless
\* a signal came during start().
RestartUnblocksLanes ==
    \A e \in Entries :
        ShuttingDown /\ action = "restart" /\ queue[LaneOf[e]] # <<>>
            /\ Head(queue[LaneOf[e]]) = e
        ~> status[e] # "queued" \/ early \/ ~Alive

\* A stop the loop has accepted ends the process.
AcceptedStopExits == ShuttingDown /\ action = "stop" ~> ~Alive
=============================================================================
