----------------------------- MODULE CronService -----------------------------
(***************************************************************************)
(* The cron service: jobs in a store on disk, a copy of them in memory,    *)
(* and the runs that the timer, the catch-up after a start and manual      *)
(* requests make of them (src/src/cron/service/*.ts).  Every section that  *)
(* the code runs under locked() is one action: the chain of locked() lets  *)
(* no two of them overlap, across all services of one store.  What happens *)
(* between them, a job's execution above all, is not under the lock.       *)
(* A service object is replaced when the configuration is reloaded, while  *)
(* runs of the old one go on.  Time is a bounded clock whose unit is far   *)
(* longer than the timer's floor of two seconds and not shorter than its   *)
(* ceiling of one minute, so an armed timer may fire at any time.  Job     *)
(* payloads, delivery, failure alerts and schedules that throw are left    *)
(* out, and so are failing reads and writes of the store.                  *)
(***************************************************************************)
EXTENDS Naturals, FiniteSets, SequencesExt

CONSTANTS
    Jobs,            \* job ids
    Kind,            \* schedule.kind of a job: "cron", "every" or "at"
    DeleteAfterRun,  \* the jobs with deleteAfterRun
    AtTimes,         \* times a one-shot job may be scheduled for
    Absent,          \* value: the store has no such job
    Services,        \* 1..n: service objects of one process, n - 1 reloads
    Period,          \* of "cron" and "every" schedules; slots are its multiples
    Backoff,         \* errorBackoffMs
    StuckAfter,      \* STUCK_RUN_MS
    JobTimeout,      \* resolveCronJobTimeoutMs
    Stagger,         \* missedJobStaggerMs
    MaxMissed,       \* maxMissedJobsPerRestart
    MaxRetries,      \* cron.retry.maxAttempts
    Concurrency,     \* maxConcurrentRuns, also the limit of the cron lane
    Outcomes,        \* results of runs that are enumerated
    MaxTime,         \* bound: of the clock
    MaxEvents        \* bound: edits, manual runs, reloads and crashes together

\* A stored job; "at" is the time of a one-shot schedule, 0 for others.
JobStates == [enabled : BOOLEAN, at : AtTimes \cup {0}, next : Nat, running : Nat,
              last : Nat, status : {"none", "ok", "error", "skipped"},
              errs : 0..(MaxRetries + 1)]
Stores == [Jobs -> JobStates \cup {Absent}]

ASSUME CronAssumption ==
    /\ IsFiniteSet(Jobs) /\ Kind \in [Jobs -> {"cron", "every", "at"}]
    /\ DeleteAfterRun \subseteq Jobs
    /\ Absent \notin JobStates /\ AtTimes \subseteq Nat \ {0}
    /\ 1 \in Services /\ Services \subseteq Nat \ {0}
    /\ \A n \in {Period, Backoff, StuckAfter, JobTimeout, Stagger, Concurrency, MaxTime} :
            n \in Nat \ {0}
    /\ {MaxMissed, MaxRetries, MaxEvents} \subseteq Nat

VARIABLES
    now,        \* the clock
    disk,       \* the jobs in the store file
    svc,        \* the service objects
    current,    \* the service the gateway's methods use, 0 without a process
    runs,       \* runs of jobs between two locked sections
    events,     \* how much of MaxEvents is used
    excused     \* history: jobs whose running marker was taken from a run

vars == <<now, disk, svc, current, runs, events, excused>>

-----------------------------------------------------------------------------
(* Schedules.  A time of 0 stands for undefined.                           *)

Least(S) == CHOOSE x \in S : \A y \in S : x <= y
Capped(n, cap) == IF n > cap THEN cap ELSE n
Later(a, b) == IF a > b THEN a ELSE b

\* computeNextRunAtMs and computePreviousRunAtMs of a cron expression.
SlotAfter(t) == Period * ((t \div Period) + 1)
SlotBefore(t) == Period * ((t - 1) \div Period)

\* The grid of an "every" schedule anchored at 0; on the grid it is now.
GridAfter(t) == Period * Later(1, (t + Period - 1) \div Period)

\* computeJobNextRunAtMs
NextRun(j, job, t) ==
    IF ~job.enabled THEN 0
    ELSE CASE Kind[j] = "cron" -> SlotAfter(t)
           [] Kind[j] = "every" ->
                IF job.last # 0 /\ job.last + Period > t THEN job.last + Period
                                                         ELSE GridAfter(t)
           [] Kind[j] = "at" ->
                IF job.status = "ok" /\ job.last # 0 /\ job.at <= job.last THEN 0 ELSE job.at

\* createJob
NewJob(j, at, t) ==
    LET job == [enabled |-> TRUE, at |-> IF Kind[j] = "at" THEN at ELSE 0, next |-> 0,
                running |-> 0, last |-> 0, status |-> "none", errs |-> 0]
    IN  [job EXCEPT !.next = NextRun(j, job, t)]

\* normalizeJobTickState: disabled jobs and stuck markers.
Stuck(job) == job.running # 0 /\ now - job.running > StuckAfter
Normalized(job) ==
    IF ~job.enabled THEN [job EXCEPT !.next = 0, !.running = 0]
    ELSE IF Stuck(job) THEN [job EXCEPT !.running = 0] ELSE job

\* recomputeNextRuns: missing and past-due times.
RecomputedJob(j, job) ==
    LET n == Normalized(job)
    IN  IF n.enabled /\ n.next <= now THEN [n EXCEPT !.next = NextRun(j, n, now)] ELSE n

\* recomputeNextRunsForMaintenance: missing times, and with recomputeExpired
\* the past-due ones whose slot has been executed.
ExecutedSlot(job) == job.next <= now /\ job.running = 0 /\ job.last >= job.next
MaintainedJobAdvances(j, job, recomputeExpired) ==
    LET n == Normalized(job)
    IN  IF n.enabled /\ (n.next = 0 \/ (recomputeExpired /\ n.next <= now))
        THEN [n EXCEPT !.next = NextRun(j, n, now)] ELSE n
MaintainedJob(j, job, recomputeExpired) ==
    LET n == Normalized(job)
    IN  IF n.enabled /\ (n.next = 0 \/ (recomputeExpired /\ ExecutedSlot(n)))
        THEN [n EXCEPT !.next = NextRun(j, n, now)] ELSE n

Recomputed(store) ==
    [j \in Jobs |-> IF store[j] = Absent THEN Absent ELSE RecomputedJob(j, store[j])]
Maintained(store, recomputeExpired) ==
    [j \in Jobs |-> IF store[j] = Absent THEN Absent
                    ELSE MaintainedJob(j, store[j], recomputeExpired)]

\* isRunnableJob, in a tick ...
Due(job) == job.next # 0 /\ now >= job.next
Runnable(job) == job # Absent /\ job.enabled /\ job.running = 0 /\ Due(job)

\* ... and in the catch-up after a start, which leaves interrupted jobs and
\* finished one-shots alone, waits for the backoff of an error, and replays a
\* slot that a cron job has missed though its next time has moved on.
BackoffPending(j, job) ==
    Kind[j] # "at" /\ job.status = "error" /\ job.last # 0 /\ now < job.last + Backoff
MissedSlot(j, job) ==
    Kind[j] = "cron" /\ job.last # 0 /\ SlotBefore(now) > job.last
RunnableAtStart(j, job, skip) ==
    /\ job # Absent /\ j \notin skip
    /\ job.enabled /\ job.running = 0
    /\ IF Kind[j] = "at" /\ job.status # "none"
       THEN job.status = "error" /\ job.next > job.last /\ now >= job.next
       ELSE \/ Due(job)
            \/ ~(job.next > now /\ BackoffPending(j, job)) /\ MissedSlot(j, job)

-----------------------------------------------------------------------------
(* Results.  "fatal" is an error that is not transient.                    *)

Results == {"ok", "error", "fatal", "skipped"}
ASSUME OutcomesAssumption == Outcomes \subseteq Results
Failed(run) == run.result \in {"error", "fatal"}

\* applyJobResult: the job after a run, Absent if the run was its last.
OneShotResultReenables(job, run) ==
    IF Failed(run) /\ run.result = "error" /\ job.errs <= MaxRetries
    THEN [job EXCEPT !.enabled = TRUE, !.next = run.ended + Backoff]
    ELSE [job EXCEPT !.enabled = FALSE, !.next = 0]
OneShotResult(job, run) ==
    IF Failed(run) /\ run.result = "error" /\ job.errs <= MaxRetries
    THEN [job EXCEPT !.next = run.ended + Backoff]
    ELSE [job EXCEPT !.enabled = FALSE, !.next = 0]
RecurringResult(j, job, before, run) ==
    LET kept    == IF run.forced /\ Kind[j] = "every" THEN [job EXCEPT !.last = before.last]
                                                      ELSE job
        natural == NextRun(j, kept, run.ended)
    IN  [job EXCEPT !.next = IF ~job.enabled THEN 0
                             ELSE IF Failed(run) THEN Later(natural, run.ended + Backoff)
                             ELSE natural]
WithResult(j, before, run) ==
    LET job == [before EXCEPT
                    !.running = 0, !.last = run.since,
                    !.status = IF Failed(run) THEN "error" ELSE run.result,
                    !.errs = IF Failed(run) THEN Capped(@ + 1, MaxRetries + 1) ELSE 0]
    IN  IF Kind[j] # "at" THEN RecurringResult(j, job, before, run)
        ELSE IF j \in DeleteAfterRun /\ run.result = "ok" THEN Absent
        ELSE OneShotResult(job, run)

\* applyOutcomeToStoredJob for the outcomes of a batch, one per job.
WithOutcomes(store, batch) ==
    [j \in Jobs |->
        IF store[j] # Absent /\ \E r \in batch : r.job = j
        THEN WithResult(j, store[j], CHOOSE r \in batch : r.job = j)
        ELSE store[j]]

-----------------------------------------------------------------------------
(* Services and runs.                                                      *)

\* A service before its start; mem is meaningless until it is loaded.
Phases == {"unborn", "clear", "plan", "catchup", "final", "up"}
Unborn == [phase |-> "unborn", mem |-> [j \in Jobs |-> Absent], timer |-> FALSE,
           running |-> FALSE, captured |-> FALSE, skip |-> {}, deferred |-> <<>>,
           plannedAt |-> 0]

Loaded(s) == svc[s].phase \notin {"unborn", "clear"}

\* armTimer: a timer is set exactly if some enabled job has a next time.
Armed(store) == \E j \in Jobs : store[j] # Absent /\ store[j].enabled /\ store[j].next # 0

\* A run: by whom, where it stands, since when, and its outcome.
NewRun(s, j, by) == [svc |-> s, job |-> j, by |-> by, phase |-> "queued", since |-> 0,
                     forced |-> FALSE, result |-> "none", ended |-> 0]
RunsOf(s, by) == {r \in runs : r.svc = s /\ r.by = by}
Executing == {r \in runs : r.phase = "executing"}
Settled(S) == \A r \in S : r.phase = "done"

\* The job objects a tick captured are those of the store in memory only
\* until the store is read again.
Reloaded(s) == [svc[s] EXCEPT !.captured = FALSE]

\* A run in flight, from its reservation until its outcome is applied.
InFlight(S, j) == \E r \in S : r.job = j /\ r.phase # "preflight"

\* Jobs whose marker goes although a run of theirs stays in flight.
MarkerTaken(old, new) ==
    {j \in Jobs : /\ InFlight(runs', j)
                  /\ old[j] # Absent /\ old[j].running # 0
                  /\ new[j] # Absent /\ new[j].running = 0}

Init ==
    /\ now = 1
    /\ disk \in [Jobs -> {Absent} \cup {NewJob(j, at, 0) : j \in Jobs, at \in AtTimes}]
    /\ \A j \in Jobs : disk[j] # Absent => \E at \in AtTimes : disk[j] = NewJob(j, at, 0)
    /\ svc = [s \in Services |-> Unborn] /\ current = 0
    /\ runs = {} /\ events = 0 /\ excused = {}

\* An edit, a manual run or a crash.
Event == events < MaxEvents /\ events' = events + 1

-----------------------------------------------------------------------------
(* Outside the lock: the clock, the process, and the execution of jobs.    *)

\* No execution outlives its timeout.  A manual run reserves its job right
\* after its preflight, and the sections of a start follow each other except
\* for the catch-up's executions: only sections that already wait for the
\* lock come in between, and no time passes.
Reserving == \E r \in runs : r.phase = "preflight"
Starting == \E s \in Services : svc[s].phase \in {"clear", "plan", "final"}
Tick ==
    /\ now < MaxTime /\ ~Reserving /\ ~Starting
    /\ \A r \in Executing : now < r.since + JobTimeout
    /\ now' = now + 1
    /\ UNCHANGED <<disk, svc, current, runs, events, excused>>

\* The gateway starts with its first service; start() is not awaited.
Boot ==
    /\ current = 0
    /\ current' = 1 /\ svc' = [svc EXCEPT ![1].phase = "clear"]
    /\ UNCHANGED <<now, disk, runs, events, excused>>

Crash ==
    /\ Event /\ current # 0
    /\ current' = 0 /\ svc' = [s \in Services |-> Unborn] /\ runs' = {}
    /\ excused' = {}
    /\ UNCHANGED <<now, disk>>

\* applyHotReload: stop() clears the timer of the old service, its runs go on.
\* A reload uses up the bound: edits, manual runs and crashes come without one.
Reload ==
    /\ events = 0 /\ events' = MaxEvents
    /\ current # 0 /\ current + 1 \in Services
    /\ current' = current + 1
    /\ svc' = [svc EXCEPT ![current].timer = FALSE, ![current + 1].phase = "clear"]
    /\ UNCHANGED <<now, disk, runs, excused>>

\* runDueJob, by one of the workers of the tick: it refreshes the marker of
\* the captured object, in memory only.
TickStart(run) ==
    LET s == run.svc
        marks == svc[s].captured /\ svc[s].mem[run.job] # Absent
    IN  /\ run.by = "tick" /\ run.phase = "queued"
        /\ Cardinality(RunsOf(s, "tick") \cap Executing) < Concurrency
        /\ runs' = (runs \ {run}) \cup {[run EXCEPT !.phase = "executing", !.since = now]}
        /\ svc' = IF marks THEN [svc EXCEPT ![s].mem[run.job].running = now] ELSE svc
        /\ UNCHANGED <<now, disk, current, events, excused>>

\* runStartupCatchupCandidate: one at a time.
CatchupStart(run) ==
    /\ run.by = "catchup" /\ run.phase = "queued"
    /\ RunsOf(run.svc, "catchup") \cap Executing = {}
    /\ runs' = (runs \ {run}) \cup {[run EXCEPT !.phase = "executing", !.since = now]}
    /\ UNCHANGED <<now, disk, svc, current, events, excused>>

\* executeJobCoreWithTimeout returns.
RunEnds(run, result) ==
    /\ run.phase = "executing" /\ ~Reserving
    /\ runs' = (runs \ {run}) \cup {[run EXCEPT !.phase = "done", !.result = result,
                                                !.ended = now]}
    /\ UNCHANGED <<now, disk, svc, current, events, excused>>

-----------------------------------------------------------------------------
(* Locked sections.                                                        *)

\* persist: the store in memory replaces the file.
Persist(s, service) ==
    \E written \in {service} :
        /\ svc' = [svc EXCEPT ![s] = written]
        /\ disk' = written.mem
        /\ excused' = {j \in excused \cup MarkerTaken(disk, written.mem) : InFlight(runs', j)}
ArmTimer(service) == [service EXCEPT !.timer = Armed(service.mem)]

\* start, first section: the markers a dead process has left.
StartClearKeeps(s) ==
    /\ svc[s].phase = "clear"
    /\ UNCHANGED <<now, current, runs, events>>
    /\ Persist(s, [svc[s] EXCEPT !.phase = "plan", !.mem = disk])
StartClear(s) ==
    /\ svc[s].phase = "clear"
    /\ UNCHANGED <<now, current, runs, events>>
    /\ Persist(s, [svc[s] EXCEPT
            !.phase = "plan",
            !.mem = [j \in Jobs |-> IF disk[j] = Absent THEN Absent
                                    ELSE [disk[j] EXCEPT !.running = 0]],
            !.skip = {j \in Jobs : disk[j] # Absent /\ disk[j].running # 0}])

\* planStartupCatchup: the first few missed jobs, by due time, run at once.
Missed(s) == {j \in Jobs : RunnableAtStart(j, svc[s].mem[j], svc[s].skip)}
ByDueTime(s, q) == \A i, k \in 1..Len(q) : i < k => svc[s].mem[q[i]].next <= svc[s].mem[q[k]].next
StartPlanNothing(s) ==
    /\ svc[s].phase = "plan" /\ Missed(s) = {}
    /\ svc' = [svc EXCEPT ![s].phase = "final", ![s].skip = {}]
    /\ UNCHANGED <<now, disk, current, runs, events, excused>>
StartPlan(s) ==
    /\ svc[s].phase = "plan" /\ Missed(s) # {}
    /\ \E q \in SetToSeqs(Missed(s)) :
         LET n == Capped(Len(q), MaxMissed)
             first == {q[i] : i \in 1..n}
         IN  /\ ByDueTime(s, q)
             /\ runs' = runs \cup {NewRun(s, j, "catchup") : j \in first}
             /\ Persist(s, [svc[s] EXCEPT
                    !.phase = "catchup", !.skip = {}, !.plannedAt = now,
                    !.deferred = SubSeq(q, n + 1, Len(q)),
                    !.mem = [j \in Jobs |-> IF j \in first THEN [@[j] EXCEPT !.running = now]
                                                           ELSE @[j]]])
    /\ UNCHANGED <<now, current, events>>

\* applyStartupCatchupOutcomes: outcomes, then deferred jobs one stagger apart.
Staggered(s, store) ==
    LET q        == svc[s].deferred
        waits(i) == store[q[i]] # Absent /\ store[q[i]].enabled
        rank(i)  == Cardinality({k \in 1..i : waits(k)})
    IN  [j \in Jobs |->
            IF \E i \in DOMAIN q : q[i] = j /\ waits(i)
            THEN [store[j] EXCEPT !.next =
                    now + Stagger * rank(CHOOSE i \in DOMAIN q : q[i] = j /\ waits(i))]
            ELSE store[j]]
StartApply(s) ==
    LET batch == RunsOf(s, "catchup")
    IN  /\ svc[s].phase = "catchup" /\ Settled(batch)
        /\ runs' = runs \ batch
        /\ \E store \in {Staggered(s, WithOutcomes(disk, batch))} :
             Persist(s, [Reloaded(s) EXCEPT !.phase = "final", !.deferred = <<>>,
                                            !.mem = Maintained(store, FALSE)])
        /\ UNCHANGED <<now, current, events>>

\* start, last section.
StartFinal(s) ==
    /\ svc[s].phase = "final"
    /\ UNCHANGED <<now, current, runs, events>>
    /\ Persist(s, ArmTimer([Reloaded(s) EXCEPT !.phase = "up", !.plannedAt = 0,
                                               !.mem = Recomputed(disk)]))

\* onTimer, first section; a timer that fires during a tick is only set again.
TimerFires(s) ==
    LET due == {j \in Jobs : Runnable(disk[j])}
        idle == ArmTimer([Reloaded(s) EXCEPT !.mem = Maintained(disk, TRUE)])
        tick == [Reloaded(s) EXCEPT
                    !.running = TRUE, !.captured = TRUE, !.timer = TRUE,
                    !.mem = [j \in Jobs |-> IF j \in due THEN [disk[j] EXCEPT !.running = now]
                                                         ELSE disk[j]]]
    IN  /\ svc[s].timer /\ ~svc[s].running
        /\ runs' = runs \cup {NewRun(s, j, "tick") : j \in due}
        /\ Persist(s, IF due = {} THEN idle ELSE tick)
        /\ UNCHANGED <<now, current, events>>

\* onTimer, second section and finally block: it arms the timer even if the
\* service was stopped in the meantime.
TickApplyDisarms(s) ==
    LET batch == RunsOf(s, "tick")
    IN  /\ svc[s].running /\ Settled(batch)
        /\ runs' = runs \ batch
        /\ \E store \in {WithOutcomes(disk, batch)} :
             Persist(s, [Reloaded(s) EXCEPT !.running = FALSE, !.timer = FALSE,
                                            !.mem = Maintained(store, FALSE)])
        /\ UNCHANGED <<now, current, events>>
TickApply(s) ==
    LET batch == RunsOf(s, "tick")
    IN  /\ svc[s].running /\ Settled(batch)
        /\ runs' = runs \ batch
        /\ \E store \in {WithOutcomes(disk, batch)} :
             Persist(s, ArmTimer([Reloaded(s) EXCEPT !.running = FALSE,
                                                     !.mem = Maintained(store, FALSE)]))
        /\ UNCHANGED <<now, current, events>>

-----------------------------------------------------------------------------
(* The gateway's methods.                                                  *)

Serving == current # 0 /\ Loaded(current)
Mem(j) == svc[current].mem[j]

\* A new job has a fresh id: no service and no run knows of it.
Fresh(j) ==
    /\ disk[j] = Absent /\ \A r \in runs : r.job # j
    /\ \A s \in Services : svc[s].mem[j] = Absent /\ j \notin svc[s].skip

Edited(store) == Persist(current, ArmTimer([svc[current] EXCEPT !.mem = store]))

\* add: recomputes all jobs.
AddJob(j, at) ==
    /\ Event /\ Serving /\ Fresh(j)
    /\ UNCHANGED <<now, current, runs>>
    /\ Edited(Recomputed([svc[current].mem EXCEPT ![j] = NewJob(j, at, now)]))

\* update, of enabled or of the schedule ...
Rescheduled(j, job) ==
    IF job.enabled THEN [job EXCEPT !.next = NextRun(j, job, now)]
                   ELSE [job EXCEPT !.next = 0, !.running = 0]
UpdateJob(j, enabled, at) ==
    /\ Event /\ Serving /\ Mem(j) # Absent
    /\ at \in IF Kind[j] = "at" THEN AtTimes ELSE {0}
    /\ UNCHANGED <<now, current, runs>>
    /\ Edited([svc[current].mem EXCEPT
            ![j] = Rescheduled(j, [@ EXCEPT !.enabled = enabled, !.at = at])])

\* ... and of anything else, which repairs a missing time.
Repaired(j, job) ==
    IF job.enabled /\ job.next = 0 THEN [job EXCEPT !.next = NextRun(j, job, now)] ELSE job
UpdateOther(j) ==
    /\ Event /\ Serving /\ Mem(j) # Absent
    /\ UNCHANGED <<now, current, runs>>
    /\ Edited([svc[current].mem EXCEPT ![j] = Repaired(j, @)])

RemoveJob(j) ==
    /\ Event /\ Serving /\ Mem(j) # Absent
    /\ UNCHANGED <<now, current, runs>>
    /\ Edited([svc[current].mem EXCEPT ![j] = Absent])

\* status, list: ensureLoadedForRead.
Read ==
    LET store == Maintained(svc[current].mem, FALSE)
    IN  /\ Serving /\ store # svc[current].mem
        /\ UNCHANGED <<now, current, runs, events>>
        /\ Persist(current, [svc[current] EXCEPT !.mem = store])

\* inspectManualRunPreflight, also of the request before it is queued: the
\* maintained jobs are not written.
Preflight ==
    /\ svc' = [svc EXCEPT ![current].mem = Maintained(@, FALSE)]
    /\ excused' = excused \cup MarkerTaken(svc[current].mem, svc'[current].mem)
Inspect ==
    /\ Serving /\ events < MaxEvents
    /\ UNCHANGED <<now, disk, current, runs, events>>
    /\ Preflight
ManualPreflight(j, forced) ==
    /\ Event /\ Serving /\ Mem(j) # Absent
    /\ Cardinality({r \in runs : r.by = "manual"}) < Concurrency
    /\ runs' = runs \cup {[NewRun(current, j, "manual") EXCEPT
                            !.phase = "preflight", !.since = now, !.forced = forced]}
    /\ Preflight
    /\ svc'[current].mem[j].running = 0
    /\ ~forced => Mem(j).enabled /\ Due(svc'[current].mem[j])
    /\ UNCHANGED <<now, disk, current>>

\* prepareManualRun, second section, refused if a tick was faster or the job
\* was removed.
ManualReserveUnchecked(run) ==
    LET s == run.svc
        job == svc[s].mem[run.job]
    IN  /\ run.phase = "preflight" /\ job # Absent
        /\ runs' = (runs \ {run}) \cup {[run EXCEPT !.phase = "executing"]}
        /\ Persist(s, [svc[s] EXCEPT !.mem[run.job].running = run.since])
        /\ UNCHANGED <<now, current, events>>
ManualReserve(run) ==
    LET s == run.svc
        job == svc[s].mem[run.job]
    IN  /\ run.phase = "preflight" /\ job # Absent /\ job.running = 0
        /\ runs' = (runs \ {run}) \cup {[run EXCEPT !.phase = "executing"]}
        /\ Persist(s, [svc[s] EXCEPT !.mem[run.job].running = run.since])
        /\ UNCHANGED <<now, current, events>>
ManualRefused(run) ==
    LET job == svc[run.svc].mem[run.job]
    IN  /\ run.phase = "preflight" /\ (job # Absent => job.running # 0)
        /\ runs' = runs \ {run}
        /\ UNCHANGED <<now, disk, svc, current, events, excused>>

\* finishPreparedManualRun: the job of the store in memory gets the result,
\* and what it is then replaces the state of the job in the reloaded store.
Merged(store, j, job) ==
    IF job = Absent THEN [store EXCEPT ![j] = Absent]
    ELSE IF store[j] = Absent THEN store
    ELSE [store EXCEPT ![j] = [job EXCEPT !.at = store[j].at]]
ManualFinish(run) ==
    LET s == run.svc
        j == run.job
    IN  /\ run.by = "manual" /\ run.phase = "done" /\ svc[s].mem[j] # Absent
        /\ runs' = runs \ {run}
        /\ \E job \in {WithResult(j, svc[s].mem[j], run)} :
             Persist(s, ArmTimer([Reloaded(s) EXCEPT
                !.mem = Maintained(Merged(disk, j, job), TRUE)]))
        /\ UNCHANGED <<now, current, events>>
ManualDropped(run) ==
    /\ run.by = "manual" /\ run.phase = "done" /\ svc[run.svc].mem[run.job] = Absent
    /\ runs' = runs \ {run}
    /\ UNCHANGED <<now, disk, svc, current, events, excused>>

-----------------------------------------------------------------------------

Edit ==
    \E j \in Jobs :
        \/ \E at \in AtTimes : AddJob(j, at)
        \/ \E enabled \in BOOLEAN, at \in AtTimes \cup {0} : UpdateJob(j, enabled, at)
        \/ UpdateOther(j) \/ RemoveJob(j)

\* What goes on without a caller: sections, executions and time.
Starts(s) == StartClear(s) \/ StartPlanNothing(s) \/ StartPlan(s) \/ StartApply(s) \/ StartFinal(s)
Progress(run) ==
    \/ TickStart(run) \/ CatchupStart(run)
    \/ \E result \in Outcomes : RunEnds(run, result)
    \/ ManualReserve(run) \/ ManualRefused(run) \/ ManualFinish(run) \/ ManualDropped(run)
Background ==
    \/ Tick \/ Boot
    \/ \E s \in Services : Starts(s) \/ TimerFires(s) \/ TickApply(s)
    \/ \E run \in runs : Progress(run)

Next ==
    \/ Background
    \/ Crash \/ Reload \/ Edit \/ Read \/ Inspect
    \/ \E j \in Jobs, forced \in BOOLEAN : ManualPreflight(j, forced)

Spec == Init /\ [][Next]_vars

\* The event loop goes on while there is anything to do: a section that has
\* its lock, an execution that ends, a timer.  That is enough, as nothing in
\* the background goes round in a circle without time passing.
FairSpec == Spec /\ WF_vars(Background)

-----------------------------------------------------------------------------
(* Properties.                                                             *)

Callers == {"tick", "catchup", "manual"}
Runs == [svc : Services, job : Jobs, by : Callers,
         phase : {"queued", "preflight", "executing", "done"}, since : Nat,
         forced : BOOLEAN, result : Results \cup {"none"}, ended : Nat]
ServiceObjects == [phase : Phases, mem : Stores, timer : BOOLEAN, running : BOOLEAN,
                   captured : BOOLEAN, skip : SUBSET Jobs, deferred : Seq(Jobs),
                   plannedAt : Nat]

\* Every variable is of its type, and a run has a result exactly when it is done
\* and has begun, no later than now, once it executes.
TypeOK ==
    /\ now \in 1..MaxTime /\ disk \in Stores
    /\ svc \in [Services -> ServiceObjects] /\ current \in Services \cup {0}
    /\ runs \subseteq Runs /\ events \in 0..MaxEvents /\ excused \subseteq Jobs
    /\ \A r \in runs :
          /\ r.phase = "done" <=> r.result \in Results
          /\ r.phase # "queued" => r.since \in 1..now
          /\ r.ended <= now

\* The running marker keeps a tick, the catch-up and manual runs from
\* executing one job twice at a time, however their sections interleave,
\* unless the marker was taken from the run: by an update that disables the
\* job, because the run waited or worked for longer than STUCK_RUN_MS, or by
\* the start of the service that a reload puts in the place of the run's.
FirstService == current <= 1
NoOverlap ==
    FirstService =>
        \A r1, r2 \in Executing : r1.job = r2.job => r1 = r2 \/ r1.job \in excused

\* A marker never outlives its run: once the service is up, a marker in the
\* store belongs to a run in flight, so no crash, refusal, removal or
\* reinstated snapshot can leave a job blocked until STUCK_RUN_MS, as long as
\* one service writes the store: after a reload a read may write back a memory
\* that still has a marker which the other service has removed.
NoOrphanMarker ==
    FirstService =>
        \A s \in Services : s = current /\ svc[s].phase = "up" =>
            \A j \in Jobs : disk[j] # Absent /\ disk[j].running # 0 => \E r \in runs : r.job = j

\* A due job's time never moves on without a run of it: no tick, read,
\* manual run or outcome of another job advances it.  Excepted are edits and
\* the sections of a start, which reschedule on purpose, and what follows a
\* reload, when two services write the store from memories of their own.
PastDue(j) == disk[j] # Absent /\ disk[j].enabled /\ Due(disk[j])
Advanced(j) == PastDue(j) /\ disk'[j] # Absent /\ disk'[j].next > disk[j].next
OutcomeOf(j) == \E r \in runs \ runs' : r.job = j /\ r.phase = "done"
EditStep == events' # events /\ <<runs, current>>' = <<runs, current>>
InStart == \E s \in Services : svc[s].phase \in {"catchup", "final"} /\ svc'[s].phase # svc[s].phase
SlotKept ==
    \A j \in Jobs : Advanced(j) =>
        OutcomeOf(j) \/ ExecutedSlot(Normalized(disk[j])) \/ EditStep \/ InStart
SlotsKept == [][FirstService => SlotKept]_vars

\* Startup does not advance a time that became due while its catch-up ran
\* either (the comment in applyStartupCatchupOutcomes).
CameDueDuring(s, j) == svc[s].plannedAt # 0 /\ PastDue(j) /\ disk[j].next > svc[s].plannedAt
NeverAdvancedSilently ==
    [][\A s \in Services, j \in Jobs :
        Advanced(j) /\ CameDueDuring(s, j) => OutcomeOf(j) \/ EditStep]_vars

\* Only an edit enables a job: as long as one service writes the store, no
\* outcome or snapshot brings back a job that an operator or its own last
\* run has disabled.
DisabledStays ==
    [][\A j \in Jobs : FirstService /\ disk[j] # Absent /\ ~disk[j].enabled /\ ~EditStep =>
            disk'[j] = Absent \/ ~disk'[j].enabled]_vars

\* A job whose time has come is executed, or its time is changed; and a
\* one-shot job comes to an end, through its retries: it is removed or has no
\* time left, unless that lies beyond the bounded clock.
DueJobRuns ==
    /\ \A j \in Jobs : PastDue(j) ~> (~PastDue(j) \/ \E r \in Executing : r.job = j)
    /\ \A j \in Jobs : Kind[j] = "at" =>
           (PastDue(j) ~> (disk[j] = Absent \/ disk[j].next = 0 \/ disk[j].next > MaxTime))
=============================================================================
