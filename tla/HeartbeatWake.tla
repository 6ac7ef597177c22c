---------------------------- MODULE HeartbeatWake ----------------------------
(***************************************************************************)
(* The wake layer of the heartbeat: requests to run a heartbeat for a      *)
(* target are coalesced per target, batched by one timer and passed to the *)
(* registered handler (src/src/infra/heartbeat-wake.ts); the handler is    *)
(* the heartbeat runner, which answers "disabled" once it is stopped       *)
(* (src/src/infra/heartbeat-runner.ts).                                    *)
(* Time is counted in ticks of the coalescing window; a timer may be late. *)
(***************************************************************************)
EXTENDS Naturals, FiniteSets

CONSTANTS
    Targets,         \* wake targets: agent and session
    Priorities,      \* of the reasons in use, out of REASON_PRIORITY: 0..3
    CoalesceTicks,   \* DEFAULT_COALESCE_MS
    RetryTicks,      \* DEFAULT_RETRY_MS
    MaxHandlers,     \* bound: handlers registered, one per gateway life cycle
    MaxRefusals,     \* bound: answers "requests-in-flight" and exceptions
    SwapDuringBatch, \* a handler may be replaced while its batch is running
    RequestsDuringBatch \* wakes may be requested while a batch is running

ASSUME HeartbeatAssumption ==
    /\ Priorities \subseteq 0..3 /\ "none" \notin Targets
    /\ CoalesceTicks \in Nat /\ RetryTicks \in Nat /\ CoalesceTicks < RetryTicks
    /\ MaxHandlers \in Nat \ {0} /\ MaxRefusals \in Nat
    /\ {SwapDuringBatch, RequestsDuringBatch} \subseteq BOOLEAN

VARIABLES
    handler,       \* the registered handler, 0 for null; handlers are numbered
    registered,    \* handlers registered so far
    pendingWakes,  \* per target: the priority of its pending reason, None without one
    scheduled, running,
    timer,         \* NoTimer, or [due, kind, delay]
    batches,       \* per handler: the batches it is executing, in two slots
    refusals,
    cooldown,      \* history: ticks left of the delay after a refusal that
                   \* found no earlier wake waiting
    asked          \* history: targets whose wake no live handler has answered

wakeVars == <<handler, registered, pendingWakes, scheduled, running, timer, batches,
              refusals, cooldown, asked>>

None == 4
NoTimer == [due |-> 0, kind |-> "none", delay |-> 0]
Delays == {0, CoalesceTicks}
Timers == [due : 0..RetryTicks, kind : {"none", "normal", "retry"}, delay : 0..RetryTicks]
Handlers == 1..MaxHandlers
Slots == Handlers \X {1, 2}

\* left: targets not tried yet; at: the target the handler is working on.
NoBatch == [at |-> "none", left |-> {}, wakes |-> [t \in Targets |-> None], delay |-> 0]
Batches == [at : Targets \cup {"none"}, left : SUBSET Targets, wakes : [Targets -> 0..None],
            delay : 0..RetryTicks]
Busy(b) == batches[b].at # "none"
NoBatchRuns == \A b \in Slots : ~Busy(b)

\* A handler that is no longer registered belongs to a runner that was stopped.
Stopped(h) == h # handler

-----------------------------------------------------------------------------
(* Operators on [pending, timer], the part that wakes and timers change.   *)

\* queuePendingWakeReason: the higher priority wins, the later one on a tie.
Merge(pending, t, priority) ==
    IF pending[t] = None \/ priority >= pending[t]
    THEN [pending EXCEPT ![t] = priority] ELSE pending
MergeAll(pending, wakes) ==
    [t \in Targets |-> IF wakes[t] = None THEN pending[t] ELSE Merge(pending, t, wakes[t])[t]]

ScheduleReplacesRetry(old, delay, kind) ==
    IF old.kind # "none" /\ old.due <= delay THEN old
    ELSE [due |-> delay, kind |-> kind, delay |-> delay]
\* schedule: a retry timer is never replaced, a normal one only by a timer
\* that is due sooner.
Schedule(old, delay, kind) ==
    IF old.kind = "retry" \/ (old.kind = "normal" /\ old.due <= delay) THEN old
    ELSE [due |-> delay, kind |-> kind, delay |-> delay]

AnyPending(pending) == \E t \in Targets : pending[t] # None

\* The finally block of a batch that was started by a timer with this delay.
Reschedule(pending, sched, old, delay) ==
    IF AnyPending(pending) \/ sched THEN Schedule(old, delay, "normal") ELSE old

-----------------------------------------------------------------------------

WakeInit ==
    /\ handler = 0 /\ registered = 0
    /\ pendingWakes = [t \in Targets |-> None]
    /\ scheduled = FALSE /\ running = FALSE
    /\ timer = NoTimer
    /\ batches = [b \in Slots |-> NoBatch]
    /\ refusals = 0
    /\ cooldown = 0 /\ asked = {}

\* requestHeartbeatNow
RequestHeartbeatNow(t, priority, delay) ==
    /\ RequestsDuringBatch \/ NoBatchRuns
    /\ pendingWakes' = Merge(pendingWakes, t, priority)
    /\ timer' = Schedule(timer, delay, "normal")
    /\ asked' = asked \cup {t}
    /\ UNCHANGED <<handler, registered, scheduled, running, batches, refusals, cooldown>>

\* Time passes; the clock does not outrun a timer that is due.
WakeTick ==
    /\ timer.kind # "none" => timer.due > 0
    /\ timer' = IF timer.kind = "none" THEN timer ELSE [timer EXCEPT !.due = @ - 1]
    /\ cooldown' = IF cooldown > 0 THEN cooldown - 1 ELSE 0
    /\ UNCHANGED <<handler, registered, pendingWakes, scheduled, running, batches,
                   refusals, asked>>

TimerDue == timer.kind # "none" /\ timer.due = 0

\* The timer fires without a handler: the wakes stay pending.
FireUnheard ==
    /\ TimerDue /\ handler = 0
    /\ timer' = NoTimer /\ scheduled' = FALSE
    /\ UNCHANGED <<handler, registered, pendingWakes, running, batches, refusals,
                   cooldown, asked>>

\* The timer fires during a batch: it is set again.
FireWhileRunning ==
    /\ TimerDue /\ handler # 0 /\ running
    /\ scheduled' = TRUE
    /\ timer' = Schedule(NoTimer, timer.delay, timer.kind)
    /\ UNCHANGED <<handler, registered, pendingWakes, running, batches, refusals,
                   cooldown, asked>>

\* The timer fires: the pending wakes become a batch and the handler is
\* called with the first of them.  There is one: see WakeHasTimer.
Start(b, t) ==
    /\ b[1] = handler /\ ~Busy(b) /\ (b[2] = 2 => Busy(<<handler, 1>>))
    /\ batches' = [batches EXCEPT ![b] =
           [at |-> t, wakes |-> pendingWakes, delay |-> timer.delay,
            left |-> {u \in Targets \ {t} : pendingWakes[u] # None}]]
    /\ pendingWakes' = [u \in Targets |-> None]
    /\ timer' = NoTimer /\ scheduled' = FALSE /\ running' = TRUE
    /\ asked' = asked \cup {u \in Targets : pendingWakes[u] # None}
    /\ UNCHANGED <<handler, registered, refusals, cooldown>>
FireAlways(b, t) == TimerDue /\ handler # 0 /\ pendingWakes[t] # None /\ Start(b, t)
Fire(b, t) == TimerDue /\ handler # 0 /\ ~running /\ pendingWakes[t] # None /\ Start(b, t)

\* The batch goes on with another wake, or ends with its finally block.
Continue(b, pending, newTimer) ==
    IF batches[b].left = {}
    THEN /\ batches' = [batches EXCEPT ![b] = NoBatch]
         /\ running' = FALSE
         /\ timer' = Reschedule(pending, scheduled, newTimer, batches[b].delay)
    ELSE /\ \E t \in batches[b].left :
               batches' = [batches EXCEPT ![b].at = t, ![b].left = @ \ {t}]
         /\ timer' = newTimer /\ UNCHANGED running

\* The handler answers: the heartbeat ran, was skipped for a reason of its
\* own, or its runner has been stopped and only says so.
Answered(b) ==
    /\ Busy(b)
    /\ Continue(b, pendingWakes, timer)
    /\ asked' = IF Stopped(b[1]) THEN asked ELSE asked \ {batches[b].at}
    /\ UNCHANGED <<handler, registered, pendingWakes, scheduled, refusals, cooldown>>

Refuse(b) ==
    /\ Busy(b) /\ ~Stopped(b[1])
    /\ refusals < MaxRefusals /\ refusals' = refusals + 1
    /\ cooldown' = IF cooldown = 0 /\ timer.kind = "none" THEN RetryTicks ELSE cooldown

\* "requests-in-flight": the wake is pending again and a retry is scheduled.
RequestsInFlight(b) ==
    LET t == batches[b].at
        pending == Merge(pendingWakes, t, batches[b].wakes[t])
    IN  /\ Refuse(b)
        /\ pendingWakes' = pending
        /\ Continue(b, pending, Schedule(timer, RetryTicks, "retry"))
        /\ UNCHANGED <<handler, registered, scheduled, asked>>

\* The handler throws: the whole batch is pending again, what ran included.
HandlerThrows(b) ==
    LET pending == MergeAll(pendingWakes, batches[b].wakes)
    IN  /\ Refuse(b)
        /\ pendingWakes' = pending
        /\ batches' = [batches EXCEPT ![b] = NoBatch]
        /\ running' = FALSE
        /\ timer' = Reschedule(pending, scheduled, Schedule(timer, RetryTicks, "retry"),
                               batches[b].delay)
        /\ UNCHANGED <<handler, registered, scheduled, asked>>

MaySwap == registered < MaxHandlers /\ (SwapDuringBatch \/ NoBatchRuns)

SetHandlerKeepTimer ==
    /\ MaySwap
    /\ registered' = registered + 1 /\ handler' = registered + 1
    /\ running' = FALSE /\ scheduled' = FALSE
    /\ timer' = NoTimer
    /\ cooldown' = 0
    /\ UNCHANGED <<pendingWakes, batches, refusals, asked>>
\* setHeartbeatWakeHandler(next): the state of the previous life cycle is
\* reset, whatever its batch is doing.
SetHandler ==
    /\ MaySwap
    /\ registered' = registered + 1 /\ handler' = registered + 1
    /\ running' = FALSE /\ scheduled' = FALSE
    /\ timer' = IF AnyPending(pendingWakes) THEN Schedule(NoTimer, CoalesceTicks, "normal")
                ELSE NoTimer
    /\ cooldown' = 0
    /\ UNCHANGED <<pendingWakes, batches, refusals, asked>>

\* The disposer of the registered handler; stale disposers do nothing.
Dispose ==
    /\ handler # 0 /\ handler < MaxHandlers /\ (SwapDuringBatch \/ NoBatchRuns)
    /\ handler' = 0
    /\ UNCHANGED <<registered, pendingWakes, scheduled, running, timer, batches,
                   refusals, cooldown, asked>>

WakeNext ==
    \/ \E t \in Targets, p \in Priorities, n \in Delays : RequestHeartbeatNow(t, p, n)
    \/ \E b \in Slots, t \in Targets : Fire(b, t)
    \/ \E b \in Slots : Answered(b) \/ RequestsInFlight(b) \/ HandlerThrows(b)
    \/ WakeTick \/ FireUnheard \/ FireWhileRunning \/ SetHandler \/ Dispose

WakeSpec == WakeInit /\ [][WakeNext]_wakeVars

\* Timers fire, handlers return (agent turns are bounded by their timeout),
\* and a gateway that stopped one runner starts the next.
WakeFairSpec ==
    /\ WakeSpec
    /\ WF_wakeVars(WakeTick) /\ WF_wakeVars(FireUnheard)
    /\ WF_wakeVars(\E b \in Slots, t \in Targets : Fire(b, t))
    /\ \A b \in Slots : WF_wakeVars(Answered(b) \/ RequestsInFlight(b) \/ HandlerThrows(b))
    /\ WF_wakeVars(handler = 0 /\ SetHandler)

-----------------------------------------------------------------------------
(* Properties.                                                             *)

\* Types; a batch has a reason for every target it works on or has left, and
\* "scheduled" is set only together with a timer.
WakeTypeOK ==
    /\ handler \in 0..registered /\ registered \in 0..MaxHandlers
    /\ pendingWakes \in [Targets -> 0..None]
    /\ scheduled \in BOOLEAN /\ running \in BOOLEAN
    /\ timer \in Timers /\ (scheduled => timer.kind # "none")
    /\ batches \in [Slots -> Batches]
    /\ \A b \in Slots : Busy(b) =>
            \A t \in batches[b].left \cup {batches[b].at} : batches[b].wakes[t] # None
    /\ refusals \in 0..MaxRefusals
    /\ cooldown \in 0..RetryTicks /\ asked \subseteq Targets

\* A pending wake never waits for nothing: with a handler registered, a timer
\* is set or a batch is executing whose end sets one.  And no timer is left
\* behind that would start a batch without a wake.
WakeHasTimer ==
    /\ handler # 0 /\ AnyPending(pendingWakes) => timer.kind # "none" \/ ~NoBatchRuns
    /\ timer.kind # "none" => AnyPending(pendingWakes)

\* Heartbeats of one runner never overlap: it executes one batch at a time.
OneBatchPerHandler == \A h \in Handlers : ~(Busy(<<h, 1>>) /\ Busy(<<h, 2>>))

\* After a wake was refused because the main lane is busy, or the handler
\* threw, no batch starts before the retry delay is over, whoever asks: unless
\* a wake that came during the batch had set its timer before the refusal.
CooldownKept == [][\A b \in Slots : Busy(b)' /\ ~Busy(b) => cooldown = 0]_wakeVars

\* Every requested wake gets into a batch, and every wake that gets there is
\* answered by a runner that has not been stopped.
EveryWakeAnswered ==
    \A t \in Targets : /\ pendingWakes[t] # None ~> pendingWakes[t] = None
                       /\ t \in asked ~> t \notin asked
=============================================================================
