# A TLA+ model of the Laia-Arch gateway

Laia-Arch is a personal assistant gateway: one Node process receives messages
from chat channels, runs agent turns for them and sends the replies. Everything
runs on one event loop, so there are no data races; what goes wrong goes wrong
*between* awaits, between two timers, between a crash and the next start, and
between two life cycles of the same process. This directory models the parts of
the program where that matters, checks them with TLC and proves the central ones
with TLAPS.

A name such as `drain.ts:96` is a line of the repository; `PROJECT.json` maps
every definition to the lines it stands for.

## 1. Inventory

| Component | State | Operations | Interacts with | Hard because |
|---|---|---|---|---|
| Command queue `process/command-queue.ts` | per lane: queue, active ids, limit, generation; a draining flag | enqueue, pump, complete, clear, set limit, mark draining, reset | everything that runs an agent | tasks outlive resets; pumping depends on every path remembering it |
| Gateway run loop `cli/gateway-cli/run-loop.ts` | server, lock, `shuttingDown`, `restartResolver` | start, signals, drain, close, respawn, in-process restart | lanes, run registry, lock | three flows interleave at awaits; deadlines; failed starts |
| Embedded run registry `agents/pi-embedded-runner/runs.ts` | run handle per session | set, clear if same, abort, wait for empty | run loop, reply path | handles of older attempts |
| Nested lanes `pi-embedded-runner/run.ts`, `lanes.ts` | none of its own | a session lane around a global lane, around both the cron lane | lanes | hold and wait |
| Followup queue `auto-reply/reply/queue/*`, `utils/queue-helpers.ts` | map of queue objects, cached callbacks, recent ids | enqueue with dedupe and overflow, drain loop, clear | reply path, session reset | drains keep references to objects the map has forgotten; state read before an await |
| Outbound delivery `infra/outbound/delivery-queue.ts`, `deliver.ts` | files `{id}.json`, `{id}.delivered`, `failed/` | enqueue, ack in two phases, fail, recovery pass | channels | crashes; recovery beside live calls |
| Heartbeat wake `infra/heartbeat-wake.ts` | pending wakes, one timer, `running`, `scheduled`, handler | request, timer, batch, register, dispose | heartbeat runner | one timer with two meanings; handlers replaced while they work |
| Heartbeat runner `infra/heartbeat-runner.ts` | agents and their due times | interval scheduling, preflight, turn | wake, lanes | due times against retries |
| Cron service `cron/service/*` | jobs in a store file and in memory, running markers, one timer | start with catch-up, tick, add, update, remove, read, manual run, stop | lanes, heartbeat, reload | runs outside the lock; markers across crashes; a store read again under a run; two services at a reload |
| Exec approvals `gateway/exec-approval-manager.ts`, `exec-approval.ts`, `node-invoke-system-run-approval.ts` | map of approvals with promises and timers | request, wait, resolve, expire, consume | node.invoke, chat forwarder | a decision against its expiry; ids used again; a flag read before an await |
| Node registry `gateway/node-registry.ts`, `server-methods/nodes.ts` | sessions by node and by connection, pending invocations, wakes, queued actions | register, unregister, invoke, answer, wake, pull, acknowledge | approvals, push service | reconnects before the old end is noticed; calls that share a wake |
| File locks `plugin-sdk/file-lock.ts`, `session-write-lock.ts`, `gateway-lock.ts` | lock files, held locks | acquire, stale detection, release | every store | check-then-remove between processes |
| Auth profile store `agents/auth-profiles/oauth.ts`, `store.ts`, `usage.ts` | credentials and usage in a file, copies in memory | refresh, update, snapshot | file lock, providers | refresh tokens are good for one use; callers hold older copies |
| ACP session actors `acp/control-plane` | a chain of promises per actor | run, cancel, close | agents | keyed serialization |
| Subagents `agents/subagent-*.ts` | run records, announce queues | register, complete, announce | lanes, sessions | delivery retried across restarts |
| Auth profile order, model fallback | usage and cooldown per profile | order, mark failed | agent turn | windows that overlap |
| Restart scheduling `infra/restart.ts` | tokens, one pending timer | schedule, emit, consume | run loop | coalescing with a cooldown |
| Process supervisor `process/supervisor` | running children | spawn, cancel, time out | tools | exit against timeout |
| Pairing stores | request files | request, approve, expire | gateway | caps and expiry |
| Guided installer `installer/` | plan, executed steps | approve, execute, roll back | system tools | a step that fails midway |
| Channels, plugins, browser, media, UI, apps | | | | I/O and presentation |

What each modelled component must guarantee:

* **Command queue.** An accepted call executes once or is cleared; a lane never
  exceeds its limit, never forgets queued work, stays FIFO, and a completion that
  belongs to an earlier life cycle changes nothing in the present one.
* **Run loop.** A gateway that serves accepts work; draining and stops come to an
  end; the loop closes the server that is bound.
* **Nested lanes.** Holding one slot while waiting for another never blocks a run
  for good; a session has one turn at a time.
* **Followup queue.** A message that was accepted is put before the agent once,
  or given up by a policy the user chose; chats are not mixed; nothing waits for
  ever.
* **Delivery queue.** A message that was written down is owed until it is out,
  parked or withdrawn; duplicates have a cause.
* **Heartbeat wake.** A wake is answered; batches do not overlap; the retry
  cooldown is respected.
* **Cron service.** A due job is executed, once at a time; no time is skipped
  silently; a marker does not outlive its run; what an operator disabled stays so.
* **Exec approvals.** A run passes only within the decision made on it; everybody
  who asks gets the same, final answer; every request gets one.
* **Node registry.** Every invocation is answered, none waits on a node that is
  gone; an action accepted for later is kept.
* **File lock and auth store.** One process at a time; an orphaned lock goes away;
  a refresh token is exchanged once and what it brought is stored.

## 2. Plan

Done, in this order: `CommandQueue` and its proofs, because every agent turn
passes through it; `GatewayRunLoop` and `NestedLanes`, which compose it;
`FollowupQueue`; `DeliveryQueue` against `OutboundPromise`; `HeartbeatWake`;
`CronService`; `ExecApprovals` with its proofs and `NodeInvoke`, which composes
and implements it; `FileLock` and `AuthRefresh` on top of it.

Next, most important first:

1. *Session write lock* and *gateway lock*, refined to the same mutual exclusion
   as `FileLock`; the *pairing stores* on top.
2. *Restart scheduling* as the source of restart signals; *heartbeat runner* as
   the handler of `HeartbeatWake`; *ACP actors*; *subagent announce queue* as a
   variant of `FollowupQueue`.
3. *Auth profile order and cooldowns*: functions checked against a reference
   definition over bounded usage records.
4. *Installer executor*: steps, confirmation, rollback.

Proofs cover every module but the abstract `OutboundPromise`, which
`DeliveryQueue` is proved to implement (section 5). Next: a statement of the
cron service's promises that survives reloads, which needs the old service's
sections between those of the new one in the invariant.

## 3. Modules

| Module | Role |
|---|---|
| `CommandQueue` | lanes, one action per exported operation |
| `CommandQueueProofs` | inductive invariant, safety theorems |
| `GatewayRunLoop` | run loop and run registry, with an instance of `CommandQueue` over the same variables |
| `GatewayRunLoopProofs` | it implements `CommandQueue`; inductive invariant, safety theorems |
| `NestedLanes` | agent runs and cron jobs as calls of an instance of `CommandQueue` |
| `NestedLanesProofs` | it implements `CommandQueue`; inductive invariant, one turn per session |
| `FollowupQueue` | the queue of one session |
| `FollowupQueueProofs` | three inductive invariants: one chat per turn, nothing vanishes, nothing is answered twice |
| `OutboundPromise` | what the delivery queue promises: five fates of a message |
| `DeliveryQueue` | the directory and the tasks that work on it; implements `OutboundPromise` |
| `DeliveryQueueProofs` | inductive invariant, causes of duplicates, the refinement |
| `HeartbeatWake` | wakes, timer, batches, handlers |
| `CronService` | the store of jobs, its copies in memory, and runs between locked sections |
| `SchedulingProofs` | cron service and heartbeat wake: inductive invariants, safety theorems |
| `ExecApprovals` | approvals, their promises and timers, and the gate of system.run |
| `NodeInvoke` | connected nodes and calls of node.invoke; extends `ExecApprovals` and implements it |
| `NodeInvokeProofs` | approvals and nodes: inductive invariants, safety theorems, refinement |
| `FileLock` | the lock file beside a store, its users and their processes |
| `AuthRefresh` | the credential of a profile under that lock; extends `FileLock` |
| `AuthRefreshProofs` | invariants of the lock and of the credential; the calls implement the lock |
| `MC*` | model values and small functions for TLC |

Operators whose name describes a slip (`SettleNoPump`, `RestartNoReset`,
`AckForgotten`, ...) stand next to the definition they vary. They are used by no
specification; each shows that one of the properties would notice that slip.

### Command queue

An *entry* is one call of `enqueueCommandInLane`: its queue entry, its task id
and its caller's promise, whose life is `status`. A handler runs to its end in
one turn of the event loop, and so does the pump it calls; hence `DrainLanes`
computes how many entries the `while` loop of `drainLane` shifts, and every
operation includes it. `Settle` is the completion of a task: with the
generation of its start it frees its slot and pumps, with an older one it only
answers the caller. `ResetAllLanes` gives every lane a new generation and no
active ids, and drains those with queued work.

### Run loop

`loop` is where the main loop awaits, `shutdown` where the flow of
`request()` awaits; both are program counters of the code's own awaits.
`restartResolver` is "pending" exactly while calling it would end the promise
the loop awaits. `waits` are the two halves of `Promise.all` in the drain.
`listening` and `server` are kept apart: one is the bound port, the other the
variable the code will close. Signals may come at any time, also while
`params.start()` is pending, since the handlers are installed before it; the
history variable `early` remembers that one did, because that breaks the loop
(section 4) and the properties say what holds otherwise.

### Nested lanes

A run makes two calls, `Outer` in its session's lane and `Inner` in its global
lane, and a manual cron run a third around both. `Urgent` makes the nested
`enqueueGlobal` follow at once, as it does in the code: the session task calls it
before it first awaits.

### Followup queue

The registry maps the session to an *object*; a drain holds its object across
awaits while the registry may forget or replace it, so `objects` and `registry`
are separate. A drain's phases are its awaits: the debounce, the return from
`drainCollectQueueStep` ("checked") and the turn. `Schedule` is
`scheduleFollowupDrain` up to its first await. `shown` and `discarded` record
what became of a message. `Cases` are the circumstances a behaviour may be in:
the settings a message may bring, whether activity flags may be stale, and
whether somebody clears the session; `Settings` are those of any case. `shifted`
remembers that the queue overflowed under a turn. `deliveries` counts how often
the channel has delivered a message, `recent` are the ids `enqueueFollowupRun`
remembers.

### Delivery queue

Each file operation is an action, each task a record with a phase. The channel
may fail after the message went out, which is why `PayloadThrows` may count a
send. A crash forgets the tasks and keeps the directory; the next start begins
with the recovery pass. `Fate` is the refinement mapping: a message is kept when
every payload is out, owed while its entry is in the directory, parked in
`failed/`, or withdrawn; `lost` is a value the abstract module does not have.
The mapping covers the deliveries that are not best-effort, because a replayed
best-effort message can be lost (section 4). `crashedOn` and `retryCount` bound
the copies: `DuplicateHasCause` says that each copy beyond the first has a crash
or a counted failure of its own.

### Heartbeat wake

Time is counted in ticks of the coalescing window and a timer may fire late but
the clock does not outrun a due timer. `timer` keeps the kind and the delay it
was set with, because the timer's callback captures both. A batch records the
wakes it took. `cooldown` and `asked` are history: the delay owed after a
refusal that set a retry timer, and the targets whose wake no live handler has
answered.

### Cron service

`locked()` chains every section of every service over one store, so a section is
one action on `disk` and on the memory of its service; `Persist` is the write it
ends with. What runs outside the lock is in `runs`: queued, executing, done, by
the tick, the catch-up or a manual request. A tick first marks the due jobs
(`TimerFires`), then executes them (`TickStart`, `RunEnds`), then applies their
outcomes to the store it reads again (`TickApply`); a manual run inspects, then
reserves, then finishes in three sections of its own. `captured` says whether the
job objects a tick holds are still those of the store in memory. Time is counted
in units of the order of the schedules; slots are multiples of `Period`. A
service is replaced by a reload (`Services`), a process by a crash. `excused`
holds the jobs whose marker was taken from a run in flight for a reason the code
intends (disabled, or longer than the stuck limit), as long as a run of the job
is in flight: such a job may be started beside its old run. `plannedAt` is
history.

### Exec approvals

A request is its map entry, because an id that is used again names another entry
while handlers still hold the promise of the first. `promise` and `decision` are
kept apart as in the code: consuming an allow-once decision clears the decision
of the record, and the promise stays resolved. `clock` places the present before,
at or after `expiresAtMs`. The gate (`Admit`) is in this module, its callers are
in `NodeInvoke`; `admitted` is the history of what passed.

### Node registry

A connection is new, open, gone (nobody has noticed) or closed; a node that
reconnects gets a new one. `invoke` is where the handler of a call awaits, and
the registry's own maps are `nodesById`, `nodesByConn` and `pendingInvokes`.
`push` is the call whose wake of a node is in flight, which other calls join.
`actions` is the queue for a phone in the background. `NodeInvoke` has the
variables of `ExecApprovals` and its steps, and the run of an approved command
passes the gate inside `Send`.

### File lock and auth store

In `FileLock` a task is at one of the awaits of `acquireFileLock` and
`releaseHeldLock`. The file has an author, may be empty and may be old; a process
has the count of `HELD_LOCKS`. `robbed` remembers that the file of a process in
possession was removed. In `AuthRefresh` a credential is the number of the refresh
that brought it; the provider accepts `newest` only. A caller keeps the copy it
has loaded (`call.cred`) while others refresh. `excused` remembers what the lock
cannot prevent: two refreshes of one process, which the lock lets in together, a
crash between the provider's answer and the save, and the unlocked fallback.

## 4. Runs

| Run | Bounds | Shows |
|---|---|---|
| `lanes` | 2 lanes, 4 calls (3 in one lane), limits up to 2, 1 reset | safety of the queue; every call is answered |
| `gateway` | one session with a stuck call and one behind it, 2 life cycles after the first, signals at any time | serving means accepting; no unknown server; one run per life cycle; drains wait; a restart frees the lane; an accepted stop exits |
| `nested` | a cron job and a chat message of one session, limits up to 2, 1 reset | no deadlock by hold and wait; one turn per session |
| `followup` | 3 messages of 2 chats, 2 queue objects, cap 2, 1 failure, two cases of circumstances | nothing vanishes, nothing is mixed, nothing is answered twice, every message ends |
| `delivery` | 2 deliveries of 2 payloads (one best-effort with a reporter), 2 crashes, 2 retries | the refinement, causes of duplicates, partial failures |
| `wake` | 2 targets, 2 priorities, 2 handlers, 1 refusal | batches, timers, the cooldown; every wake is answered |
| `cron` | a recurring and a one-shot job, clock up to 3, 2 events (edit, manual run, crash) or a reload | one run at a time, markers, due times, disabled jobs; a due job runs |
| `approvals` | 2 requests of one id, 1 waiter, clients that come and go | decisions are respected, agreed on and final; every request is answered |
| `invoke` | 1 node with 2 connections, 2 calls, one approval or two foreground commands, a queue of 1 | no call left waiting, actions kept, every call answered |
| `auth` | 2 tasks of one process, 1 of another, 1 granted refresh, crashes | exclusion, tokens used once and never put back, orphaned locks removed |
| `cron_catchup_skips` | 2 recurring jobs, 1 missed at once, no events | violated: a due time is skipped at startup |
| `oauth_refresh_dropped` | as `auth`, with a plugin | violated: what was granted is not stored |

Why these are enough: the command queue's behaviour depends on whether a lane is
below, at or above its limit and on whether a completion belongs to the present
generation, which three calls in a lane and a reset give in every order; the
second lane shows that lanes do not disturb each other, and the proofs cover any
number of calls and resets. One restart gives the old and the new life cycle, a
second one a restart of a restart. A followup drain needs an item in its turn,
one that arrives meanwhile and one that overflows. Two crashes give a replay
that crashes in its turn, two payloads a crash in the middle of a message; the
second delivery gives the recovery pass an order. A wake needs a batch, a wake
that comes during it and a target that was refused. A cron job needs a slot that
is executed, one that comes due meanwhile and one after it, which a clock of 3
with slots at every second tick gives; two events put an edit and a manual run,
or either and a crash, into one behaviour. An approval's id needs to be used
again once; a node must reconnect once, and a wake be shared by two calls, of
which the second finds the action of the first in a queue of one. The lock needs
a holder, a task of the same process that joins it, and one of another process.
The proofs of section 5 cover any number of these.

### What the violated runs say

Each checks one sentence of the repository against the code, and TLC's trace is
the shortest way to break it.

* `cron_catchup_skips`: at a start, two jobs have missed their time, one is
  executed at once and the other's time comes again while it is. The section that
  applies the outcomes takes care not to advance it (`timer.ts:986`), but the next
  one of `start()` reads the store again and recomputes all past-due times
  (`ops.ts:119`).
* `oauth_refresh_dropped`: `refreshOAuthTokenWithLock` returns what a plugin has
  refreshed before it comes to the save (`oauth.ts:173`). With a provider that
  replaces refresh tokens, the stored one is spent.

### Interleavings and paths that are switched off

Some paths of the code break a property by a short trace. So that the passing
runs can say what holds apart from them, a constant keeps them out or the
property excludes histories that took them; the second column says what to change
to see the trace.

| Path | To see it | What happens |
|---|---|---|
| A signal while `params.start()` is pending (`run-loop.ts:92`) | `gateway` without the disjunct `early` in `AcceptsWhileServing` | the flow finds no resolver: the lanes stay draining and the gateway serves while it refuses everything. run-loop.ts:225 says "SIGUSR1 triggers an in-process restart" |
| A message whose `isActive` was read before the run ended is queued after it (`get-reply-run.ts:485`, `enqueue.ts:101`) | `followup` with `stale` in the case `Collecting` | without a cached callback nobody drains it until the next message: `EveryFollowupEnds` fails |
| A clear while a drain is at work (`drain.ts:172`) | `followup` with `clear` in the case `Collecting` | the old drain deletes the key of the new object: `EveryFollowupEnds` fails |
| A message queued between the mixed-target check and the snapshot (`drain.ts:96`) | `followup` with `EnqueueInGap = TRUE` | chats are collected into one turn: `RoutingPreserved` fails |
| Overflow while a collected turn executes (`drain.ts:130`) | `followup` without `shifted` in `NothingVanishes` | the splice removes messages the turn did not carry |
| Overflow in followup mode (`drain.ts:144`) | `followup` with a case of mode "followup" and policy "summarize" | the turn that sends the summary takes the oldest message off unseen: `NothingVanishes` fails; with a cap of 1 the drain goes round for ever |
| A redelivery whose id has left the recent ids, while a turn begun before a clear still shows the message (`enqueue.ts:68`) | `followup` with `MaxDeliveries = 2` | the new queue object does not hold the message, so it is queued and answered a second time: `AnsweredOnce` fails |
| Messages sent beside the recovery pass (`delivery-queue.ts:327`, `server.impl.ts:1019`) | `delivery` with `RecoveryOverlaps = TRUE` | the entry of a message being sent is sent again: `DuplicateHasCause` fails without crash or failure |
| A replayed best-effort message (`delivery-queue.ts:389`) | `delivery` with the best-effort message in the mapping | recovery passes no error callback: what fails is acknowledged and lost |
| A handler replaced while its batch executes (`heartbeat-wake.ts:187`) | `wake` with `SwapDuringBatch = TRUE` | the old batch resets `running` of the new handler: `OneBatchPerHandler` fails |
| A request during the batch sets a normal timer before the refusal (`heartbeat-wake.ts:129`) | `wake` with `cooldown` set on every refusal | no retry timer is set, and the next batch starts inside the cooldown. heartbeat-wake.ts:123 says "Keep retry cooldown as a hard minimum delay" |
| A reload of the cron service while runs are in flight (`server-reload-handlers.ts:83`) | `cron` without `FirstService`; for `NoOrphanMarker` also with `Event` in place of the bound of `Reload` | the new start clears the markers of runs in flight: a job runs twice at a time; each service writes back its own memory, which may be behind the store and still have a marker the other has removed |
| A lock file removed while its process is in possession (`file-lock.ts:137`) | `auth` without `~robbed` | two tasks see a stale or missing file, the slower removes the faster one's new lock; a holder of more than 30 s is robbed as well |
| Tokens refreshed by one process twice, updates without the lock, snapshots (`file-lock.ts:110`, `usage.ts:273`, `store.ts:542`) | `auth` without `Undisturbed` | a spent refresh token is presented, or an older one is put back into the store |
| The close of an old connection after the node's new one is registered (`node-registry.ts:87`) | visible in `Close` | the node looks disconnected and calls over the new connection are rejected |
| A client that connects while the forwarder is awaited (`exec-approval.ts:186`) | `approvals` without the exception in `OneAnswer` | the request has failed for want of a route, its waiters get the client's decision |

More facts are visible in the models and stated by no property, because the code
decides them in one place: a stop during the drain of a restart is ignored
(`Stop`); after a drain that timed out a session's next call starts beside the
stuck one (`ResetAllLanes`; hence `OneRunPerLifeCycle` speaks of one generation);
an allow-once decision is spent though the send that follows fails (`SendFails`);
a full queue of actions drops its oldest silently (`Enqueued`); an action that
was acknowledged and is called again with its key is queued again; the removal
of a stale lock file costs an attempt, so with no retries it fails after removing
(`RemoveStale`); an error of the network between the provider and the save costs
the token (`Die`).

### Fairness

Weak fairness everywhere, of actions the runtime performs by itself. Tasks end,
because agent turns have a timeout (`Settle`, `Finish`, `FinishTurn`,
`Answered`, `RunEnds`); tasks named in `Stuck` are excepted, which is the point
of the restart. Timers fire and continuations run (`ShutdownStep`, `Progress`,
`Tick`, `WakeTick`, `Fire`, `Expire`, `Timeout`). `params.start()` settles. `server.close()`
need not end: the force-exit timer bounds it. In `CronService` and `NodeInvoke`
one condition on everything the process does by itself is enough, because
nothing of it goes round in a circle. File operations and requests to a provider
return (`Continue`), and a lock file grows old (`Aging`). The forwarder of
approvals ends. No fairness is assumed of users, signals, clients, clears,
connections, failures or crashes; `OrphanRemoved` therefore assumes in its own
premise that tasks keep coming for the lock. `DeliveryQueue` states safety only,
since the code retries at the next start and nothing promises one.

CHECK_DEADLOCK is FALSE in every configuration: when the calls, messages, times
or wakes of an instance are used up, or the process has exited, the system rests.

## 5. Proofs

TLAPS checks eight modules, for every value of the constants that satisfies the
assumptions the modules declare. What a theorem assumes beyond those is a
conjunct of its premise. All safety properties the passing runs check are
theorems: `AnsweredOnce` as long as ids are not forgotten early, those of the
cron service until it is reloaded.

| Module | Theorems | Assumed of the constants |
|---|---|---|
| `CommandQueueProofs` | `TypeCorrect`, `QueuedOnceHolds`, `SlotsExact`, `NoLostWakeup`, `LimitRespected`, `PromisesSettleOnce`, `LanesAreFifo` | finitely many calls, a positive largest limit |
| `GatewayRunLoopProofs` | `ImplementsQueue`, `TypeCorrect`, `ServingAccepts`, `ServerKnown`, `OneRun`, `DrainWaits` | the same |
| `NestedLanesProofs` | `ImplementsQueue`, `TurnsExclude` | finitely many runs; no session lane has a global lane's name |
| `FollowupQueueProofs` | `TypeCorrect`, `TurnsHaveOneTarget`, `AcceptedStays`, `ShownItemsStayShown`, `AnsweredOnceEach` | settings have a mode, a drop policy and a positive cap; premises, of one theorem each: `~EnqueueInGap`; `NoSummaryTurns`; `[][ForgottenInTime]_vars`; `MaxDeliveries <= 1` |
| `DeliveryQueueProofs` | `TypeCorrect`, `DuplicatesHaveCauses`, `PartialFailuresAreKept`, `ImplementsPromise` | a delivery, a payload and a retry exist; premise: `~RecoveryOverlaps` |
| `SchedulingProofs`, cron | `TypeCorrect`, `CronInvariant`, `OverlapExcluded`, `MarkersBacked`, `SlotsAreKept`, `DisabledJobsStay` | finitely many jobs; periods, delays and limits are positive; until the first reload (`FirstService`, which is part of the statement of all but the first) |
| `SchedulingProofs`, heartbeat | `HeartbeatInvariant`, `WakeTypeCorrect`, `WakesHaveTimers`, `CooldownIsKept`, `BatchesDoNotOverlap` | coalescing is shorter than the retry delay; premise of the last: `~SwapDuringBatch` |
| `NodeInvokeProofs`, approvals | `ApprovalsTyped`, `OpenApprovalsPending`, `RunsStayWithinDecision`, `AnswersAgree`, `DecisionsStand` | `None` is no request, id or binding |
| `NodeInvokeProofs`, nodes | `CallsWaitForConnectedNodes`, `PushesAreAwaited`, `ImplementsApprovals`, `InvokedRunsWithinDecision`, `ActionsStay` | the same, of nodes and calls; a phone's foreground commands are not approved runs |
| `AuthRefreshProofs` | `LockExcludes`, `ImplementsLock`, `CallsExclude`, `TypeCorrect`, `TokenUsedOnce`, `StoreNeverPutBack` | finitely many tasks; the absent file is no record |

The premises are the switches of section 4: the code can violate the property
on those paths, so the theorem excludes them. Properties with a history in their
own statement (`early`, `robbed`, `excused`) are proved as they are stated.

**Command queue.** None of the invariants but the type is inductive alone. `IInv`
is their conjunction with the fact that no task carries a generation later than
its lane's. It is needed because `ActiveIsCurrentGeneration` after a reset (no
active ids) holds only if no executing task already has the new generation;
`QueuedOnce` because a pump turns queue positions into a set of started calls,
and the size of that set is the number of positions only when no call is queued
twice; `WorkConserving` because a step that frees one slot shifts exactly one
call if any is left. The argument has three layers. Lemmas about sequences and
finite sets say what `HeadSet` and `Rest` return and how they divide a queue.
Lemmas about the pump say that from any intermediate state a caller of
`DrainLanes` builds, provided it satisfies a few conditions, the step ends in a
state with the invariant's parts. Each operation then has a lemma that
establishes those conditions, and the theorem splits `Next` into operations.
`FifoStart` has an argument of its own: the pump turns a queue into a suffix of
itself, so of two positions the earlier one is either started or both are kept in
their order (`DrainKeepsOrder`), and an entry in no queue is never started
(`DrainStartsQueued`). Two more facts serve the modules that compose the queue:
a lane whose limit stays 1 never has two active tasks (`AtMostOneKept`), nor two
of one generation (`OneTaskKept`).

**Gateway and nested lanes.** Both modules first prove that each of their steps is
a step of the queue or leaves it alone, so that they implement `CommandQueue`,
and then use its lemmas through INSTANCE. The gateway's invariant adds what a
shutdown may find as long as every signal found the loop at rest
(`SignalAtRest`: the loop is waiting, port and variable agree, the draining flag
is up only during a shutdown), what a restart waits for (`Draining`: the tasks
of the snapshot execute in the current generation or have settled, because
only the reset that ends the drain makes a new generation) and the two facts of
limit-1 lanes. That of the nested lanes adds that a run which waits for or
executes in its global lane still holds its session's lane: the session task
awaits the inner call. Two turns of one session would be two tasks of one
session lane, which `OneTaskKept` forbids within a generation.

**Followup queue.** The drain's actions are many, but what they do to a queue
object is little: they move its phase and give it the batch, the preview and the
number of items to take of its next turn, or take them back (`Moved`). Only a
turn that ends (`Finished`), an enqueue (`Shortened`, then `Queued`) and a clear
touch the items. Each invariant is carried over these relations instead of over
the actions. *One chat per turn* needs to know of a drain past its check that the
items are unmixed until it takes them (`RouteOK`), which is what an enqueue in
the gap destroys. *Nothing vanishes* needs that what a turn will take off the
queue is what it shows (`TakesWhatItShows`), that the object in the registry has
as many (`TakesNoMore`), and that summary lines are counted as dropped, since the
preview is made of the lines only if the count is positive (`Counted`). A clear
empties the object the registry has and removes it from there, so the second
holds of that object alone. *Nothing is answered twice* needs that no item is in
two places (`ItemsOnce`, and apart from every other object), and that a message
that is anywhere, or was shown, is never queued again (`Known`): its id is among
the recent ones, or the channel has delivered it for the last time. Ids do expire
in the code, hence the premise. `AnsweredOnceEach` is the simpler case of a
channel that never redelivers.

**Cron service.** `CInv` speaks of the time of the first service. A run in flight
has its marker, on disk and in memory, or its job is excused (`Guarded`); a
marker has its run (`Backed`); runs of one job are the same run, or the job is
excused (`OneEach`). The first makes the third inductive: every way to start a
run looks at the marker in a store read under the lock. `SameJobs` ties the memory
to the disk between sections, so that a snapshot written back by a section that
did not reload loses no edit: this is what `SlotsAreKept` and `DisabledJobsStay`
stand on. Before the service has loaded the store there are no runs, and markers
on disk are those of a process that died, which `StartClear` removes. After a
reload two services write the store from memories of their own, and `CInv` says
nothing. Lemmas about single jobs (`JobStates` and the functions that recompute,
finish and repair them) carry the types; each section is then one lemma.

**Delivery queue.** `DuplicateHasCause` bounds the copies that have gone out; the
invariant must bound those yet to come. `DInv` says for every payload a worker
has still to send that the copies so far are at most `crashedOn + retryCount`
(the attempt under way is the one that is free), that every payload before the
worker's position is out unless it was best effort, and that an entry is
acknowledged only when it is kept, best effort or aborted. This needs that who
works on an entry is alone with it: until the recovery pass has ended, no live
call has an entry, and afterwards each call works on its own. That is what
`~RecoveryOverlaps` buys. The refinement maps each of the file operations to a
step of `OutboundPromise` or to a stutter.

**Heartbeat wake.** A cooldown needs a reason that lasts: while it runs there is a
retry timer due no earlier, and `Schedule` never replaces a retry timer
(`ScheduleSets`, `RescheduleSets`).

**Approvals and nodes.** The answers agree because an entry's promise settles once
(`Consistent` ties decision, promise, settler and the history of the gate), and
because the ids of open requests name their own entries (`Filed`) although ids
are used again. `NodeInvoke` is proved to implement `ExecApprovals` under the
same variables, hence all theorems of the approvals hold of it. Its own
invariant says that who awaits a push awaits one in flight for its node, and who
waits for an answer waits for a registered connection. `ActionsAreKept` needs a
second one, `ActionsOK`, that stands on the first: a queue of actions is within
its limit and holds a call once, and the calls in it wait for the phone, so that
no call enters the queue again (`ForegroundStays`). Of the code's `filter` the
proof needs that it keeps each chosen entry once. `Picked` therefore states it
through positions, and not as `SelectSeq`, which is defined by recursion over
the list: `PickedPositions` says that it visits each chosen position once.

**Lock and credential.** `Possession` is what excludes: the author of a file that
is not yet written is the task at the write; the tasks inside find a file of
their own process; who is about to unlink it is alone. It holds until a process
in possession is robbed. A call changes the credential only while inside, so the
calls implement the lock; then one refresh at a time, the newest credential in
its hands, and a store that lags only behind a refresh not yet saved
(`Protected`) give the two theorems about tokens.

Model-checked only: everything under fairness (the prover supports neither
ENABLED nor liveness under fairness), and what the cron service promises after a
reload. Nothing is proved of the two runs that expect a violation. The prover
cannot instantiate induction theorems over data and loses its arithmetic backend
in modules with RECURSIVE operators, so the modules avoid both: sequences are cut
with `SubSeq` and sets are built by comprehension.

## 6. Not modelled

* Texts: prompts, summaries, log lines, wait warnings; lengths of delays other
  than the order of timers.
* Plugin hooks on outgoing messages, which may cancel a payload, and chunking: a
  payload is sent, or fails.
* Old-format delivery entries, which loading rewrites with an attempt time.
* The limit on remembered message ids (10,000), and deduplication by prompt.
* Steering of messages into a streaming run.
* The size of `setCommandLaneConcurrency`'s argument beyond the bound, and
  fractions, which the code floors.
* Cron: payloads, delivery of results and failure alerts; schedules whose
  computation throws; a store that cannot be read or written.
* The allowlist that filters pulled actions, and the foreground rules that decide
  which commands need it.
* File locks: a process id that the system gives to another process. OAuth: the
  main agent's store as a fallback, and credentials of external command lines.
* The session write lock and the gateway lock's own file: the run loop takes the
  gateway lock in one step, which succeeds or fails.
* The components that section 1 lists and section 2 plans.

The definitions map to a small share of the repository's 795,000 lines. Most of
them are user interfaces, native apps, channel adapters, plugin and provider
glue, command lines, media and configuration schemas: I/O and presentation,
where a step has one actor and its outcome is that of a library. The control
that several actors share lies in the modules of `process/`, `infra/`, `cron/`,
`gateway/`, `auto-reply/reply/queue/`, `plugin-sdk/` and `agents/auth-profiles/`
modelled here and in those the plan names.
