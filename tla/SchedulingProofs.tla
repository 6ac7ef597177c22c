-------------------------- MODULE SchedulingProofs --------------------------
(* Theorems about what the gateway runs by the clock: the cron service, for  *)
(* every set of jobs, schedules and times, and the wake layer of the         *)
(* heartbeat, for any targets, any window and retry delay, and any number of *)
(* handlers and refusals.  The two share no state.                           *)
EXTENDS CronService, HeartbeatWake, FiniteSetTheorems, TLAPS

-----------------------------------------------------------------------------
(* Cron: numbers, jobs and their times.                                      *)

LEMMA Numbers ==
    /\ Period \in Nat \ {0} /\ Backoff \in Nat \ {0} /\ StuckAfter \in Nat \ {0}
    /\ JobTimeout \in Nat \ {0} /\ Stagger \in Nat \ {0} /\ Concurrency \in Nat \ {0}
    /\ MaxTime \in Nat \ {0} /\ MaxMissed \in Nat /\ MaxRetries \in Nat /\ MaxEvents \in Nat
    BY CronAssumption

LEMMA TimesNat ==
    ASSUME NEW a \in Nat, NEW b \in Nat
    PROVE  a * b \in Nat
    OBVIOUS

LEMMA LaterNat ==
    ASSUME NEW a \in Nat, NEW b \in Nat
    PROVE  Later(a, b) \in Nat
    BY DEF Later

LEMMA JobFields ==
    ASSUME NEW job \in JobStates
    PROVE  /\ job.enabled \in BOOLEAN /\ job.at \in Nat /\ job.next \in Nat /\ job.running \in Nat
           /\ job.last \in Nat /\ job.errs \in 0..(MaxRetries + 1) /\ job.errs \in Nat
<1>1. AtTimes \cup {0} \subseteq Nat /\ 0..(MaxRetries + 1) \subseteq Nat
    BY CronAssumption, Numbers
<1> QED BY <1>1 DEF JobStates

\* The updates of a job that the sections make.
LEMMA NextSets ==
    ASSUME NEW job \in JobStates, NEW n \in Nat
    PROVE  LET new == [job EXCEPT !.next = n]
           IN  /\ new \in JobStates /\ new.next = n /\ new.enabled = job.enabled
               /\ new.running = job.running /\ new.last = job.last /\ new.errs = job.errs
    BY DEF JobStates

LEMMA RunningSets ==
    ASSUME NEW job \in JobStates, NEW n \in Nat
    PROVE  LET new == [job EXCEPT !.running = n]
           IN  /\ new \in JobStates /\ new.next = job.next /\ new.enabled = job.enabled
               /\ new.running = n /\ new.last = job.last /\ new.errs = job.errs
    BY DEF JobStates

LEMMA SlotAfterNat ==
    ASSUME NEW t \in Nat
    PROVE  SlotAfter(t) \in Nat
<1>1. t \div Period \in Nat
    BY Numbers
<1>2. (t \div Period) + 1 \in Nat
    BY <1>1
<1> QED BY <1>2, TimesNat, Numbers DEF SlotAfter

LEMMA GridAfterNat ==
    ASSUME NEW t \in Nat
    PROVE  GridAfter(t) \in Nat
<1>1. t + Period - 1 \in Nat
    BY Numbers
<1>2. (t + Period - 1) \div Period \in Nat
    BY <1>1, Numbers
<1>3. Later(1, (t + Period - 1) \div Period) \in Nat
    BY <1>2, LaterNat
<1> QED BY <1>3, TimesNat, Numbers DEF GridAfter

LEMMA NextRunNat ==
    ASSUME NEW j \in Jobs, NEW job \in JobStates, NEW t \in Nat
    PROVE  NextRun(j, job, t) \in Nat
<1>1. Kind[j] \in {"cron", "every", "at"}
    BY CronAssumption
<1>2. /\ SlotAfter(t) \in Nat /\ GridAfter(t) \in Nat /\ job.last + Period \in Nat
      /\ job.at \in Nat
    BY SlotAfterNat, GridAfterNat, JobFields, Numbers
<1> QED BY <1>1, <1>2 DEF NextRun

LEMMA NewJobType ==
    ASSUME NEW j \in Jobs, NEW at \in AtTimes, NEW t \in Nat
    PROVE  /\ NewJob(j, at, t) \in JobStates /\ NewJob(j, at, t).running = 0
           /\ NewJob(j, at, t) # Absent
<1> DEFINE job == [enabled |-> TRUE, at |-> IF Kind[j] = "at" THEN at ELSE 0, next |-> 0,
                   running |-> 0, last |-> 0, status |-> "none", errs |-> 0]
<1>1. job \in JobStates /\ job.running = 0
    BY Numbers DEF JobStates
<1>2. NewJob(j, at, t) = [job EXCEPT !.next = NextRun(j, job, t)]
    BY DEF NewJob
<1> HIDE DEF job
<1> QED BY <1>1, <1>2, NextRunNat, NextSets, CronAssumption

-----------------------------------------------------------------------------
(* What normalizing, maintaining and recomputing do to a job.                *)

LEMMA NormalizedFacts ==
    ASSUME NEW job \in JobStates
    PROVE  /\ Normalized(job) \in JobStates /\ Normalized(job).enabled = job.enabled
           /\ Normalized(job).running \in {0, job.running}
           /\ job.enabled => Normalized(job).next = job.next
<1>1. CASE ~job.enabled
  <2> DEFINE m == [job EXCEPT !.next = 0]
  <2>1. m \in JobStates /\ m.enabled = job.enabled
      BY NextSets
  <2>2. [job EXCEPT !.next = 0, !.running = 0] = [m EXCEPT !.running = 0]
      OBVIOUS
  <2> HIDE DEF m
  <2>3. Normalized(job) = [m EXCEPT !.running = 0]
      BY <1>1, <2>2 DEF Normalized
  <2> QED BY <1>1, <2>1, <2>3, RunningSets
<1>2. CASE job.enabled /\ Stuck(job)
    BY <1>2, RunningSets DEF Normalized
<1>3. CASE job.enabled /\ ~Stuck(job)
    BY <1>3 DEF Normalized
<1> QED BY <1>1, <1>2, <1>3, JobFields

LEMMA RecomputedJobFacts ==
    ASSUME NEW j \in Jobs, NEW job \in JobStates, now \in Nat
    PROVE  /\ RecomputedJob(j, job) \in JobStates
           /\ RecomputedJob(j, job).enabled = job.enabled
           /\ RecomputedJob(j, job).running \in {0, job.running}
<1> DEFINE n == Normalized(job)
<1>1. n \in JobStates /\ n.enabled = job.enabled /\ n.running \in {0, job.running}
    BY NormalizedFacts
<1>2. NextRun(j, n, now) \in Nat
    BY <1>1, NextRunNat
<1>3. RecomputedJob(j, job) = IF n.enabled /\ n.next <= now
                              THEN [n EXCEPT !.next = NextRun(j, n, now)] ELSE n
    BY DEF RecomputedJob
<1> HIDE DEF n
<1> QED BY <1>1, <1>2, <1>3, NextSets

LEMMA MaintainedJobFacts ==
    ASSUME NEW j \in Jobs, NEW job \in JobStates, NEW expired \in BOOLEAN, now \in Nat
    PROVE  /\ MaintainedJob(j, job, expired) \in JobStates
           /\ MaintainedJob(j, job, expired).enabled = job.enabled
           /\ MaintainedJob(j, job, expired).running \in {0, job.running}
           /\ job.enabled /\ job.next # 0 /\ ~(expired /\ ExecutedSlot(Normalized(job))) =>
                 MaintainedJob(j, job, expired).next = job.next
<1> DEFINE n == Normalized(job)
<1>1. /\ n \in JobStates /\ n.enabled = job.enabled /\ n.running \in {0, job.running}
      /\ job.enabled => n.next = job.next
    BY NormalizedFacts
<1>2. NextRun(j, n, now) \in Nat
    BY <1>1, NextRunNat
<1>3. MaintainedJob(j, job, expired) =
          IF n.enabled /\ (n.next = 0 \/ (expired /\ ExecutedSlot(n)))
          THEN [n EXCEPT !.next = NextRun(j, n, now)] ELSE n
    BY DEF MaintainedJob
<1>4. ExecutedSlot(n) <=> ExecutedSlot(Normalized(job))
    OBVIOUS
<1> HIDE DEF n
<1> QED BY <1>1, <1>2, <1>3, <1>4, NextSets

LEMMA StoreJob ==
    ASSUME NEW store \in Stores, NEW j \in Jobs, store[j] # Absent
    PROVE  store[j] \in JobStates
    BY DEF Stores

LEMMA RecomputedFacts ==
    ASSUME NEW store \in Stores, now \in Nat
    PROVE  /\ Recomputed(store) \in Stores
           /\ \A j \in Jobs :
                 /\ Recomputed(store)[j] = Absent <=> store[j] = Absent
                 /\ store[j] # Absent =>
                       /\ Recomputed(store)[j].enabled = store[j].enabled
                       /\ Recomputed(store)[j].running \in {0, store[j].running}
<1> DEFINE N == Recomputed(store)
<1>1. ASSUME NEW j \in Jobs
      PROVE  N[j] = IF store[j] = Absent THEN Absent ELSE RecomputedJob(j, store[j])
    BY DEF Recomputed
<1>2. ASSUME NEW j \in Jobs, store[j] # Absent
      PROVE  /\ N[j] \in JobStates /\ N[j] # Absent /\ N[j].enabled = store[j].enabled
             /\ N[j].running \in {0, store[j].running}
    BY <1>1, <1>2, StoreJob, RecomputedJobFacts, CronAssumption
<1>3. N \in Stores
  <2>1. \A j \in Jobs : N[j] \in JobStates \cup {Absent}
      BY <1>1, <1>2
  <2>2. N = [j \in Jobs |-> N[j]]
      BY DEF Recomputed
  <2> HIDE DEF N
  <2> QED BY <2>1, <2>2 DEF Stores
<1> QED BY <1>1, <1>2, <1>3

LEMMA MaintainedFacts ==
    ASSUME NEW store \in Stores, NEW expired \in BOOLEAN, now \in Nat
    PROVE  /\ Maintained(store, expired) \in Stores
           /\ \A j \in Jobs :
                 /\ Maintained(store, expired)[j] = Absent <=> store[j] = Absent
                 /\ store[j] # Absent =>
                       /\ Maintained(store, expired)[j].enabled = store[j].enabled
                       /\ Maintained(store, expired)[j].running \in {0, store[j].running}
                       /\ \/ ~store[j].enabled \/ store[j].next = 0
                          \/ expired /\ ExecutedSlot(Normalized(store[j]))
                          \/ Maintained(store, expired)[j].next = store[j].next
<1> DEFINE N == Maintained(store, expired)
<1>1. ASSUME NEW j \in Jobs
      PROVE  N[j] = IF store[j] = Absent THEN Absent ELSE MaintainedJob(j, store[j], expired)
    BY DEF Maintained
<1>2. ASSUME NEW j \in Jobs, store[j] # Absent
      PROVE  /\ N[j] \in JobStates /\ N[j] # Absent /\ N[j].enabled = store[j].enabled
             /\ N[j].running \in {0, store[j].running}
             /\ \/ ~store[j].enabled \/ store[j].next = 0
                \/ expired /\ ExecutedSlot(Normalized(store[j]))
                \/ N[j].next = store[j].next
  <2>1. store[j] \in JobStates /\ N[j] = MaintainedJob(j, store[j], expired)
      BY <1>1, <1>2, StoreJob
  <2> HIDE DEF N
  <2> QED BY <2>1, MaintainedJobFacts, CronAssumption
<1>3. N \in Stores
  <2>1. \A j \in Jobs : N[j] \in JobStates \cup {Absent}
      BY <1>1, <1>2
  <2>2. N = [j \in Jobs |-> N[j]]
      BY DEF Maintained
  <2> HIDE DEF N
  <2> QED BY <2>1, <2>2 DEF Stores
<1> QED BY <1>1, <1>2, <1>3

-----------------------------------------------------------------------------
(* What the outcome of a run does to a job.                                  *)

LEMMA OneShotResultFacts ==
    ASSUME NEW job \in JobStates, NEW run \in Runs
    PROVE  /\ OneShotResult(job, run) \in JobStates
           /\ OneShotResult(job, run).running = job.running
           /\ OneShotResult(job, run).enabled => job.enabled
<1>1. run.ended + Backoff \in Nat
    BY Numbers DEF Runs
<1> DEFINE off == [job EXCEPT !.enabled = FALSE, !.next = 0]
       again == [job EXCEPT !.next = run.ended + Backoff]
<1>2. off \in JobStates /\ off.running = job.running /\ ~off.enabled
    BY DEF JobStates
<1>3. again \in JobStates /\ again.running = job.running /\ again.enabled = job.enabled
    BY <1>1, NextSets
<1>4. OneShotResult(job, run) = again \/ OneShotResult(job, run) = off
    BY DEF OneShotResult
<1> HIDE DEF off, again
<1> QED BY <1>2, <1>3, <1>4

LEMMA RecurringResultFacts ==
    ASSUME NEW j \in Jobs, NEW job \in JobStates, NEW before \in JobStates, NEW run \in Runs
    PROVE  /\ RecurringResult(j, job, before, run) \in JobStates
           /\ RecurringResult(j, job, before, run).running = job.running
           /\ RecurringResult(j, job, before, run).enabled = job.enabled
<1> DEFINE kept == IF run.forced /\ Kind[j] = "every" THEN [job EXCEPT !.last = before.last]
                                                     ELSE job
           next == IF ~job.enabled THEN 0
                   ELSE IF Failed(run) THEN Later(NextRun(j, kept, run.ended), run.ended + Backoff)
                   ELSE NextRun(j, kept, run.ended)
<1>1. run.ended \in Nat /\ run.ended + Backoff \in Nat
    BY Numbers DEF Runs
<1>2. kept \in JobStates
    BY DEF JobStates
<1>3. NextRun(j, kept, run.ended) \in Nat
    BY <1>1, <1>2, NextRunNat
<1>4. next \in Nat
    BY <1>1, <1>3, LaterNat
<1>5. RecurringResult(j, job, before, run) = [job EXCEPT !.next = next]
    BY DEF RecurringResult
<1> HIDE DEF next
<1> QED BY <1>4, <1>5, NextSets

LEMMA WithResultFacts ==
    ASSUME NEW j \in Jobs, NEW before \in JobStates, NEW run \in Runs, run.result \in Results
    PROVE  \/ WithResult(j, before, run) = Absent
           \/ /\ WithResult(j, before, run) \in JobStates
              /\ WithResult(j, before, run).running = 0
              /\ WithResult(j, before, run).enabled => before.enabled
<1> DEFINE status == IF Failed(run) THEN "error" ELSE run.result
           errs   == IF Failed(run) THEN Capped(before.errs + 1, MaxRetries + 1) ELSE 0
           job == [before EXCEPT !.running = 0, !.last = run.since, !.status = status,
                                 !.errs = errs]
<1>1. status \in {"none", "ok", "error", "skipped"}
    BY DEF Failed, Results
<1>2. errs \in 0..(MaxRetries + 1)
    BY JobFields, Numbers DEF Capped
<1>3. run.since \in Nat
    BY DEF Runs
<1> HIDE DEF status, errs
<1>4. job \in JobStates /\ job.running = 0 /\ job.enabled = before.enabled
    BY <1>1, <1>2, <1>3 DEF JobStates
<1>5. WithResult(j, before, run) =
          IF Kind[j] # "at" THEN RecurringResult(j, job, before, run)
          ELSE IF j \in DeleteAfterRun /\ run.result = "ok" THEN Absent
          ELSE OneShotResult(job, run)
    BY DEF WithResult, status, errs
<1> HIDE DEF job
<1>6. CASE Kind[j] # "at"
  <2>1. WithResult(j, before, run) = RecurringResult(j, job, before, run)
      BY <1>5, <1>6
  <2>2. /\ RecurringResult(j, job, before, run) \in JobStates
        /\ RecurringResult(j, job, before, run).running = job.running
        /\ RecurringResult(j, job, before, run).enabled = job.enabled
      BY <1>4, RecurringResultFacts
  <2> QED BY <1>4, <2>1, <2>2
<1>7. CASE Kind[j] = "at" /\ j \in DeleteAfterRun /\ run.result = "ok"
    BY <1>5, <1>7
<1>8. CASE Kind[j] = "at" /\ ~(j \in DeleteAfterRun /\ run.result = "ok")
  <2>1. WithResult(j, before, run) = OneShotResult(job, run)
      BY <1>5, <1>8
  <2>2. /\ OneShotResult(job, run) \in JobStates /\ OneShotResult(job, run).running = job.running
        /\ OneShotResult(job, run).enabled => job.enabled
      BY <1>4, OneShotResultFacts
  <2> QED BY <1>4, <2>1, <2>2
<1> QED BY <1>6, <1>7, <1>8

LEMMA WithOutcomesFacts ==
    ASSUME NEW store \in Stores, NEW batch \in SUBSET Runs, \A r \in batch : r.result \in Results
    PROVE  /\ WithOutcomes(store, batch) \in Stores
           /\ \A j \in Jobs : WithOutcomes(store, batch)[j] # Absent =>
                 /\ store[j] # Absent
                 /\ WithOutcomes(store, batch)[j].enabled => store[j].enabled
                 /\ IF \E r \in batch : r.job = j
                    THEN WithOutcomes(store, batch)[j].running = 0
                    ELSE WithOutcomes(store, batch)[j] = store[j]
<1> DEFINE N == WithOutcomes(store, batch)
<1>1. ASSUME NEW j \in Jobs, ~(store[j] # Absent /\ \E r \in batch : r.job = j)
      PROVE  N[j] = store[j]
    BY <1>1 DEF WithOutcomes
<1>2. ASSUME NEW j \in Jobs, store[j] # Absent /\ \E r \in batch : r.job = j
      PROVE  \/ N[j] = Absent
             \/ /\ N[j] \in JobStates /\ N[j].running = 0
                /\ N[j].enabled => store[j].enabled
  <2>1. PICK r \in batch : r.job = j /\ N[j] = WithResult(j, store[j], r)
      BY <1>2 DEF WithOutcomes
  <2>2. store[j] \in JobStates
      BY <1>2, StoreJob
  <2> HIDE DEF N
  <2> QED BY <2>1, <2>2, WithResultFacts
<1>3. N \in Stores
  <2>1. \A j \in Jobs : N[j] \in JobStates \cup {Absent}
      BY <1>1, <1>2 DEF Stores
  <2>2. N = [j \in Jobs |-> N[j]]
      BY DEF WithOutcomes
  <2> HIDE DEF N
  <2> QED BY <2>1, <2>2 DEF Stores
<1> HIDE DEF N
<1>4. ASSUME NEW j \in Jobs, N[j] # Absent
      PROVE  /\ store[j] # Absent
             /\ N[j].enabled => store[j].enabled
             /\ IF \E r \in batch : r.job = j THEN N[j].running = 0 ELSE N[j] = store[j]
    BY <1>1, <1>2, <1>4
<1> QED BY <1>3, <1>4 DEF N

-----------------------------------------------------------------------------
(* What a locked section leaves: the store in memory and on disk are one.    *)

Wrote(s, phase, busy) ==
    /\ svc' \in [Services -> ServiceObjects] /\ disk' \in Stores
    /\ svc'[s].mem = disk' /\ svc'[s].phase = phase /\ svc'[s].running = busy
    /\ \A o \in Services : o # s => svc'[o] = svc[o]
    /\ excused' = {j \in excused \cup MarkerTaken(disk, disk') : InFlight(runs', j)}

LEMMA ServiceFields ==
    ASSUME NEW o \in ServiceObjects
    PROVE  /\ o.phase \in Phases /\ o.mem \in Stores /\ o.timer \in BOOLEAN /\ o.running \in BOOLEAN
           /\ o.captured \in BOOLEAN /\ o.skip \subseteq Jobs /\ o.deferred \in Seq(Jobs)
           /\ o.plannedAt \in Nat
    BY DEF ServiceObjects

LEMMA PersistWrites ==
    ASSUME svc \in [Services -> ServiceObjects], NEW s \in Services,
           NEW service \in ServiceObjects, Persist(s, service)
    PROVE  Wrote(s, service.phase, service.running) /\ disk' = service.mem /\ svc'[s] = service
<1>1. /\ svc' = [svc EXCEPT ![s] = service] /\ disk' = service.mem
      /\ excused' = {j \in excused \cup MarkerTaken(disk, service.mem) : InFlight(runs', j)}
    BY DEF Persist
<1>2. svc' \in [Services -> ServiceObjects] /\ svc'[s] = service
      /\ \A o \in Services : o # s => svc'[o] = svc[o]
    BY <1>1
<1>3. service.mem \in Stores
    BY ServiceFields
<1> QED BY <1>1, <1>2, <1>3 DEF Wrote

LEMMA MemSets ==
    ASSUME NEW o \in ServiceObjects, NEW store \in Stores
    PROVE  LET new == [o EXCEPT !.mem = store]
           IN  /\ new \in ServiceObjects /\ new.mem = store /\ new.phase = o.phase
               /\ new.timer = o.timer /\ new.running = o.running /\ new.captured = o.captured
    BY DEF ServiceObjects

LEMMA ArmTimerSets ==
    ASSUME NEW o \in ServiceObjects
    PROVE  /\ ArmTimer(o) \in ServiceObjects /\ ArmTimer(o).mem = o.mem
           /\ ArmTimer(o).phase = o.phase /\ ArmTimer(o).running = o.running
<1>1. Armed(o.mem) \in BOOLEAN
    BY DEF Armed
<1>2. ArmTimer(o) = [o EXCEPT !.timer = Armed(o.mem)]
    BY DEF ArmTimer
<1> QED BY <1>1, <1>2 DEF ServiceObjects

-----------------------------------------------------------------------------
(* The sections of a start.                                                  *)

\* One store is what is left of another: no job is new, enabled or reserved.
LeftOf(new, old) ==
    \A j \in Jobs : new[j] # Absent =>
        /\ old[j] # Absent
        /\ new[j].enabled => old[j].enabled
        /\ new[j].running \in {0, old[j].running}

LEMMA StartClearDoes ==
    ASSUME TypeOK, NEW s \in Services, StartClear(s)
    PROVE  /\ Wrote(s, "plan", svc[s].running) /\ LeftOf(disk', disk) /\ runs' = runs
           /\ \A j \in Jobs : disk'[j] # Absent =>
                 disk'[j].running = 0 /\ disk'[j].next = disk[j].next
<1> DEFINE store == [j \in Jobs |-> IF disk[j] = Absent THEN Absent
                                    ELSE [disk[j] EXCEPT !.running = 0]]
           skip == {j \in Jobs : disk[j] # Absent /\ disk[j].running # 0}
           service == [svc[s] EXCEPT !.phase = "plan", !.mem = store, !.skip = skip]
<1>1. disk \in Stores /\ svc \in [Services -> ServiceObjects] /\ svc[s] \in ServiceObjects
    BY DEF TypeOK
<1>2. ASSUME NEW j \in Jobs, disk[j] # Absent
      PROVE  /\ store[j] \in JobStates /\ store[j] # Absent /\ store[j].running = 0
             /\ store[j].next = disk[j].next /\ store[j].enabled = disk[j].enabled
  <2>1. store[j] = [disk[j] EXCEPT !.running = 0] /\ disk[j] \in JobStates
      BY <1>1, <1>2, StoreJob
  <2> QED BY <2>1, RunningSets, CronAssumption
<1>3. \A j \in Jobs : disk[j] = Absent => store[j] = Absent
    OBVIOUS
<1>4. store \in Stores
    BY <1>2 DEF Stores
<1>5. skip \subseteq Jobs
    OBVIOUS
<1>6. Persist(s, service) /\ runs' = runs
    BY DEF StartClear
<1> HIDE DEF store, skip
<1>7. /\ service \in ServiceObjects /\ service.mem = store /\ service.phase = "plan"
      /\ service.running = svc[s].running
    BY <1>1, <1>4, <1>5 DEF ServiceObjects, Phases
<1> HIDE DEF service
<1>8. Wrote(s, "plan", svc[s].running) /\ disk' = store
    BY <1>1, <1>6, <1>7, PersistWrites
<1> QED BY <1>2, <1>3, <1>6, <1>8 DEF LeftOf

\* The jobs that the catch-up takes are new to it, and one run is made of each.
LEMMA StartPlanDoes ==
    ASSUME TypeOK, NEW s \in Services, StartPlan(s)
    PROVE  \E first \in SUBSET Jobs :
              /\ Wrote(s, "catchup", svc[s].running)
              /\ runs' = runs \cup {NewRun(s, j, "catchup") : j \in first}
              /\ \A j \in first : svc[s].mem[j] # Absent /\ svc[s].mem[j].running = 0
              /\ \A j \in Jobs :
                    /\ disk'[j] # Absent =>
                          /\ svc[s].mem[j] # Absent
                          /\ disk'[j].enabled = svc[s].mem[j].enabled
                          /\ disk'[j].next = svc[s].mem[j].next
                          /\ disk'[j].running = IF j \in first THEN now ELSE svc[s].mem[j].running
<1> DEFINE M == Missed(s)
<1>1. /\ svc \in [Services -> ServiceObjects] /\ svc[s] \in ServiceObjects
      /\ svc[s].mem \in Stores /\ now \in Nat
    BY ServiceFields DEF TypeOK
<1>2. M \subseteq Jobs /\ Cardinality(M) \in Nat
    BY CronAssumption, FS_Subset, FS_CardinalityType DEF Missed
<1>3. PICK q \in SetToSeqs(M) :
          LET n == Capped(Len(q), MaxMissed)
              first == {q[i] : i \in 1..n}
          IN  /\ runs' = runs \cup {NewRun(s, j, "catchup") : j \in first}
              /\ Persist(s, [svc[s] EXCEPT
                    !.phase = "catchup", !.skip = {}, !.plannedAt = now,
                    !.deferred = SubSeq(q, n + 1, Len(q)),
                    !.mem = [j \in Jobs |-> IF j \in first THEN [@[j] EXCEPT !.running = now]
                                                           ELSE @[j]]])
    BY DEF StartPlan
<1> DEFINE n == Capped(Len(q), MaxMissed)
           first == {q[i] : i \in 1..n}
           store == [j \in Jobs |-> IF j \in first THEN [svc[s].mem[j] EXCEPT !.running = now]
                                                   ELSE svc[s].mem[j]]
           rest == SubSeq(q, n + 1, Len(q))
           service == [svc[s] EXCEPT !.phase = "catchup", !.skip = {}, !.plannedAt = now,
                                     !.deferred = rest, !.mem = store]
<1>4. q \in [1..Cardinality(M) -> M]
    BY DEF SetToSeqs
<1>5. q \in Seq(M) /\ Len(q) = Cardinality(M) /\ q \in Seq(Jobs)
    BY <1>2, <1>4
<1>6. n \in 0..Len(q)
    BY <1>2, <1>5, Numbers DEF Capped
<1>7. first \subseteq M
    BY <1>4, <1>5, <1>6
<1>8. rest \in Seq(Jobs)
  <2>1. \A i \in (n + 1)..Len(q) : q[i] \in Jobs
      BY <1>2, <1>4, <1>5, <1>6
  <2> HIDE DEF n
  <2> QED BY <1>5, <1>6, <2>1
<1>9. Persist(s, service) /\ runs' = runs \cup {NewRun(s, j, "catchup") : j \in first}
    BY <1>3
<1> HIDE DEF n, rest, first
<1>10. ASSUME NEW j \in M
       PROVE  svc[s].mem[j] # Absent /\ svc[s].mem[j].running = 0
    BY DEF Missed, RunnableAtStart
<1>11. ASSUME NEW j \in Jobs, svc[s].mem[j] # Absent
       PROVE  /\ store[j] \in JobStates
              /\ store[j].enabled = svc[s].mem[j].enabled /\ store[j].next = svc[s].mem[j].next
              /\ store[j].running = IF j \in first THEN now ELSE svc[s].mem[j].running
  <2>1. svc[s].mem[j] \in JobStates
      BY <1>1, <1>11, StoreJob
  <2>2. CASE j \in first
    <3> DEFINE m   == svc[s].mem[j]
               new == [m EXCEPT !.running = now]
    <3>1. store[j] = new
        BY <2>2
    <3>2. m \in JobStates /\ now \in Nat
        BY <1>1, <2>1
    <3> HIDE DEF m, store
    <3>3. /\ new \in JobStates /\ new.enabled = m.enabled /\ new.next = m.next
          /\ new.running = now
        BY <3>2, RunningSets
    <3> QED BY <2>2, <3>1, <3>3 DEF m
  <2>3. CASE j \notin first
      BY <2>1, <2>3
  <2> QED BY <2>2, <2>3
<1>12. \A j \in Jobs : svc[s].mem[j] = Absent => store[j] = Absent
    BY <1>7, <1>10
<1>13. store \in Stores
    BY <1>11, <1>12 DEF Stores
<1> HIDE DEF store
<1>14. /\ service \in ServiceObjects /\ service.mem = store /\ service.phase = "catchup"
       /\ service.running = svc[s].running
    BY <1>1, <1>8, <1>13 DEF ServiceObjects, Phases
<1> HIDE DEF service
<1>15. Wrote(s, "catchup", svc[s].running) /\ disk' = store
    BY <1>1, <1>9, <1>14, PersistWrites
<1>16. first \in SUBSET Jobs
    BY <1>2, <1>7
<1> QED BY <1>7, <1>9, <1>10, <1>11, <1>12, <1>15, <1>16

LEMMA StaggeredFacts ==
    ASSUME NEW s \in Services, NEW store \in Stores, now \in Nat, svc[s] \in ServiceObjects
    PROVE  Staggered(s, store) \in Stores /\ LeftOf(Staggered(s, store), store)
<1> DEFINE q == svc[s].deferred
           waits(i) == store[q[i]] # Absent /\ store[q[i]].enabled
           rank(i) == Cardinality({k \in 1..i : waits(k)})
           mine(j) == CHOOSE i \in DOMAIN q : q[i] = j /\ waits(i)
           N == Staggered(s, store)
<1>1. q \in Seq(Jobs)
    BY ServiceFields
<1>2. ASSUME NEW j \in Jobs, ~\E i \in DOMAIN q : q[i] = j /\ waits(i)
      PROVE  N[j] = store[j]
    BY <1>2 DEF Staggered
<1>3. ASSUME NEW j \in Jobs, \E i \in DOMAIN q : q[i] = j /\ waits(i)
      PROVE  /\ N[j] \in JobStates /\ store[j] # Absent
             /\ N[j].running = store[j].running /\ N[j].enabled = store[j].enabled
  <2>1. N[j] = [store[j] EXCEPT !.next = now + Stagger * rank(mine(j))]
      BY <1>3 DEF Staggered
  <2>2. mine(j) \in DOMAIN q /\ q[mine(j)] = j /\ waits(mine(j))
      BY <1>3
  <2>3. mine(j) \in Nat /\ store[j] # Absent
      BY SMTT(30), <1>1, <2>2
  <2>4. rank(mine(j)) \in Nat
    <3> DEFINE i == mine(j)
    <3>1. i \in Nat
        BY <2>3
    <3> HIDE DEF i
    <3>2. IsFiniteSet(1..i) /\ {k \in 1..i : waits(k)} \subseteq 1..i
        BY <3>1, FS_Interval
    <3>3. rank(i) \in Nat
        BY <3>2, FS_Subset, FS_CardinalityType
    <3> QED BY <3>3 DEF i
  <2> HIDE DEF rank, mine
  <2>5. now + Stagger * rank(mine(j)) \in Nat
    <3>1. Stagger * rank(mine(j)) \in Nat
        BY <2>4, TimesNat, Numbers
    <3> QED BY <3>1
  <2>6. store[j] \in JobStates
      BY <2>3, StoreJob
  <2> QED BY <2>1, <2>3, <2>5, <2>6, NextSets
<1>4. N = [j \in Jobs |-> N[j]]
    BY DEF Staggered
<1> HIDE DEF N, waits
<1>5. N \in Stores
  <2>1. \A j \in Jobs : N[j] \in JobStates \cup {Absent}
      BY <1>2, <1>3 DEF Stores
  <2> QED BY <1>4, <2>1 DEF Stores
<1>6. ASSUME NEW j \in Jobs, N[j] # Absent
      PROVE  /\ store[j] # Absent
             /\ N[j].enabled => store[j].enabled
             /\ N[j].running \in {0, store[j].running}
    BY <1>2, <1>3, <1>6
<1> QED BY <1>5, <1>6 DEF N, LeftOf

-----------------------------------------------------------------------------
(* The sections that apply outcomes.                                         *)

LEMMA BatchType ==
    ASSUME TypeOK, NEW s \in Services, NEW by, Settled(RunsOf(s, by))
    PROVE  RunsOf(s, by) \in SUBSET Runs /\ \A r \in RunsOf(s, by) : r.result \in Results
    BY DEF TypeOK, RunsOf, Settled

LEMMA LeftOfTransitive ==
    ASSUME NEW a \in Stores, NEW b \in Stores, NEW c \in Stores, LeftOf(a, b), LeftOf(b, c)
    PROVE  LeftOf(a, c)
    BY DEF LeftOf

\* No job of the batch keeps a marker, and the time of the others stays.
LEMMA OutcomesLeave ==
    ASSUME NEW batch \in SUBSET Runs, \A r \in batch : r.result \in Results,
           disk \in Stores, NEW new \in Stores, LeftOf(new, WithOutcomes(disk, batch))
    PROVE  /\ WithOutcomes(disk, batch) \in Stores /\ LeftOf(new, disk)
           /\ \A j \in Jobs : new[j] # Absent /\ (\E r \in batch : r.job = j) => new[j].running = 0
<1> DEFINE mid == WithOutcomes(disk, batch)
<1>1. /\ mid \in Stores
      /\ \A j \in Jobs : mid[j] # Absent =>
            /\ disk[j] # Absent
            /\ mid[j].enabled => disk[j].enabled
            /\ IF \E r \in batch : r.job = j THEN mid[j].running = 0 ELSE mid[j] = disk[j]
    BY WithOutcomesFacts
<1> HIDE DEF mid
<1>2. \A j \in Jobs : new[j] # Absent =>
          /\ mid[j] # Absent
          /\ new[j].enabled => mid[j].enabled
          /\ new[j].running \in {0, mid[j].running}
    BY DEF LeftOf, mid
<1>3. LeftOf(new, disk)
    BY <1>1, <1>2 DEF LeftOf
<1>4. \A j \in Jobs : new[j] # Absent /\ (\E r \in batch : r.job = j) => new[j].running = 0
    BY <1>1, <1>2
<1> QED BY <1>1, <1>3, <1>4 DEF mid

LEMMA StartApplyDoes ==
    ASSUME TypeOK, NEW s \in Services, StartApply(s)
    PROVE  /\ Wrote(s, "final", svc[s].running) /\ LeftOf(disk', disk)
           /\ runs' = runs \ RunsOf(s, "catchup") /\ Settled(RunsOf(s, "catchup"))
           /\ \A r \in RunsOf(s, "catchup") : disk'[r.job] # Absent => disk'[r.job].running = 0
<1> DEFINE batch == RunsOf(s, "catchup")
           mid == WithOutcomes(disk, batch)
           store == Staggered(s, mid)
           new == Maintained(store, FALSE)
           service == [Reloaded(s) EXCEPT !.phase = "final", !.deferred = <<>>, !.mem = new]
<1>1. /\ disk \in Stores /\ now \in Nat /\ svc \in [Services -> ServiceObjects]
      /\ svc[s] \in ServiceObjects
    BY DEF TypeOK
<1>2. Settled(batch) /\ runs' = runs \ batch /\ Persist(s, service)
    BY DEF StartApply
<1>3. batch \in SUBSET Runs /\ (\A r \in batch : r.result \in Results)
    BY <1>2, BatchType
<1>4. mid \in Stores
    BY <1>1, <1>3, WithOutcomesFacts
<1>5. store \in Stores /\ LeftOf(store, mid)
    BY <1>1, <1>4, StaggeredFacts
<1>6. new \in Stores /\ LeftOf(new, store)
    BY ZenonT(30), <1>1, <1>5, MaintainedFacts DEF LeftOf
<1>7. LeftOf(new, mid)
    BY <1>4, <1>5, <1>6, LeftOfTransitive
<1>8. LeftOf(new, disk) /\ \A j \in Jobs : new[j] # Absent /\ (\E r \in batch : r.job = j) => new[j].running = 0
    BY <1>1, <1>3, <1>6, <1>7, OutcomesLeave
<1> HIDE DEF new
<1>9. /\ service \in ServiceObjects /\ service.mem = new /\ service.phase = "final"
      /\ service.running = svc[s].running
  <2>1. <<>> \in Seq(Jobs)
      OBVIOUS
  <2> QED BY <1>1, <1>6, <2>1 DEF ServiceObjects, Phases, Reloaded
<1> HIDE DEF service
<1>10. Wrote(s, "final", svc[s].running) /\ disk' = new
    BY <1>1, <1>2, <1>9, PersistWrites
<1>11. \A r \in batch : r.job \in Jobs
    BY <1>3 DEF Runs
<1> QED BY <1>2, <1>8, <1>10, <1>11

LEMMA TickApplyDoes ==
    ASSUME TypeOK, NEW s \in Services, TickApply(s)
    PROVE  /\ Wrote(s, svc[s].phase, FALSE) /\ LeftOf(disk', disk)
           /\ runs' = runs \ RunsOf(s, "tick") /\ Settled(RunsOf(s, "tick"))
           /\ \A r \in RunsOf(s, "tick") : disk'[r.job] # Absent => disk'[r.job].running = 0
           /\ \A j \in Jobs :
                 \/ disk'[j] = Absent \/ ~disk[j].enabled \/ disk[j].next = 0
                 \/ disk'[j].next = disk[j].next
                 \/ \E r \in RunsOf(s, "tick") : r.job = j
<1> DEFINE batch == RunsOf(s, "tick")
           mid == WithOutcomes(disk, batch)
           new == Maintained(mid, FALSE)
           service == [Reloaded(s) EXCEPT !.running = FALSE, !.mem = new]
<1>1. /\ disk \in Stores /\ now \in Nat /\ svc \in [Services -> ServiceObjects]
      /\ svc[s] \in ServiceObjects
    BY DEF TypeOK
<1>2. Settled(batch) /\ runs' = runs \ batch /\ Persist(s, ArmTimer(service))
    BY DEF TickApply
<1>3. batch \in SUBSET Runs /\ (\A r \in batch : r.result \in Results)
    BY <1>2, BatchType
<1>4. /\ mid \in Stores
      /\ \A j \in Jobs : mid[j] # Absent =>
            IF \E r \in batch : r.job = j THEN mid[j].running = 0 ELSE mid[j] = disk[j]
    BY <1>1, <1>3, WithOutcomesFacts
<1>5. new \in Stores /\ LeftOf(new, mid)
    BY <1>1, <1>4, MaintainedFacts DEF LeftOf
<1>6. LeftOf(new, disk) /\ \A j \in Jobs : new[j] # Absent /\ (\E r \in batch : r.job = j) => new[j].running = 0
    BY <1>1, <1>3, <1>5, OutcomesLeave
<1>7. \A j \in Jobs :
          \/ new[j] = Absent \/ ~disk[j].enabled \/ disk[j].next = 0
          \/ new[j].next = disk[j].next
          \/ \E r \in batch : r.job = j
  <2>1. ASSUME NEW j \in Jobs, new[j] # Absent, ~\E r \in batch : r.job = j
        PROVE  ~disk[j].enabled \/ disk[j].next = 0 \/ new[j].next = disk[j].next
    <3>1. mid[j] # Absent /\ mid[j] = disk[j]
        BY <1>4, <1>5, <2>1 DEF LeftOf
    <3>2. ~mid[j].enabled \/ mid[j].next = 0 \/ new[j].next = mid[j].next
        BY <1>1, <1>4, <3>1, MaintainedFacts
    <3> QED BY <3>1, <3>2
  <2> QED BY <2>1
<1> HIDE DEF new
<1>8. /\ service \in ServiceObjects /\ service.mem = new /\ service.phase = svc[s].phase
      /\ service.running = FALSE
    BY <1>1, <1>5 DEF ServiceObjects, Reloaded
<1> HIDE DEF service
<1>9. Wrote(s, svc[s].phase, FALSE) /\ disk' = new
  <2> DEFINE armed == ArmTimer(service)
  <2>1. /\ armed \in ServiceObjects /\ armed.mem = service.mem /\ armed.phase = service.phase
        /\ armed.running = service.running
      BY <1>8, ArmTimerSets
  <2>2. Persist(s, armed)
      BY <1>2
  <2> HIDE DEF armed
  <2>3. Wrote(s, armed.phase, armed.running) /\ disk' = armed.mem
      BY <1>1, <2>1, <2>2, PersistWrites
  <2>4. armed.phase = svc[s].phase /\ armed.running = FALSE /\ armed.mem = new
      BY <1>8, <2>1
  <2> QED BY <2>3, <2>4
<1>10. \A r \in batch : r.job \in Jobs
    BY <1>3 DEF Runs
<1> QED BY <1>2, <1>6, <1>7, <1>9, <1>10

LEMMA StartFinalDoes ==
    ASSUME TypeOK, NEW s \in Services, StartFinal(s)
    PROVE  /\ Wrote(s, "up", svc[s].running) /\ LeftOf(disk', disk) /\ runs' = runs
<1> DEFINE new == Recomputed(disk)
           service == [Reloaded(s) EXCEPT !.phase = "up", !.plannedAt = 0, !.mem = new]
           armed == ArmTimer(service)
<1>1. /\ disk \in Stores /\ now \in Nat /\ svc \in [Services -> ServiceObjects]
      /\ svc[s] \in ServiceObjects
    BY DEF TypeOK
<1>2. Persist(s, armed) /\ runs' = runs
    BY DEF StartFinal
<1>3. new \in Stores /\ LeftOf(new, disk)
    BY <1>1, RecomputedFacts DEF LeftOf
<1> HIDE DEF new
<1>4. /\ service \in ServiceObjects /\ service.mem = new /\ service.phase = "up"
      /\ service.running = svc[s].running
    BY <1>1, <1>3 DEF ServiceObjects, Phases, Reloaded
<1> HIDE DEF service
<1>5. /\ armed \in ServiceObjects /\ armed.mem = new /\ armed.phase = "up"
      /\ armed.running = svc[s].running
    BY <1>4, ArmTimerSets
<1> HIDE DEF armed
<1>6. Wrote(s, armed.phase, armed.running) /\ disk' = armed.mem
    BY <1>1, <1>2, <1>5, PersistWrites
<1> QED BY <1>2, <1>3, <1>5, <1>6

\* A tick reserves the jobs that are due; without any the timer maintains.
LEMMA TimerFiresDoes ==
    ASSUME TypeOK, NEW s \in Services, TimerFires(s)
    PROVE  \E due \in SUBSET Jobs, busy \in BOOLEAN :
              /\ Wrote(s, svc[s].phase, busy) /\ svc[s].timer
              /\ runs' = runs \cup {NewRun(s, j, "tick") : j \in due}
              /\ \A j \in due : disk[j] # Absent /\ disk[j].running = 0
              /\ \A j \in Jobs : disk'[j] # Absent =>
                    /\ disk[j] # Absent
                    /\ disk'[j].enabled => disk[j].enabled
                    /\ IF j \in due THEN disk'[j].running = now
                                    ELSE disk'[j].running \in {0, disk[j].running}
                    /\ \/ ~disk[j].enabled \/ disk[j].next = 0
                       \/ ExecutedSlot(Normalized(disk[j]))
                       \/ disk'[j].next = disk[j].next
<1> DEFINE due == {j \in Jobs : Runnable(disk[j])}
<1>1. /\ disk \in Stores /\ now \in Nat /\ svc \in [Services -> ServiceObjects]
      /\ svc[s] \in ServiceObjects
    BY DEF TypeOK
<1>2. svc[s].timer /\ runs' = runs \cup {NewRun(s, j, "tick") : j \in due}
    BY DEF TimerFires
<1>3. CASE due = {}
  <2> DEFINE new == Maintained(disk, TRUE)
             service == [Reloaded(s) EXCEPT !.mem = new]
             armed == ArmTimer(service)
  <2>1. Persist(s, armed)
      BY <1>3 DEF TimerFires
  <2>2. /\ new \in Stores /\ LeftOf(new, disk)
        /\ \A j \in Jobs : new[j] # Absent =>
              \/ ~disk[j].enabled \/ disk[j].next = 0
              \/ ExecutedSlot(Normalized(disk[j]))
              \/ new[j].next = disk[j].next
      BY <1>1, MaintainedFacts DEF LeftOf
  <2> HIDE DEF new
  <2>3. /\ service \in ServiceObjects /\ service.mem = new /\ service.phase = svc[s].phase
        /\ service.running = svc[s].running
      BY <1>1, <2>2 DEF ServiceObjects, Reloaded
  <2> HIDE DEF service
  <2>4. /\ armed \in ServiceObjects /\ armed.mem = new /\ armed.phase = svc[s].phase
        /\ armed.running = svc[s].running
      BY <2>3, ArmTimerSets
  <2> HIDE DEF armed
  <2>5. Wrote(s, armed.phase, armed.running) /\ disk' = armed.mem
      BY <1>1, <2>1, <2>4, PersistWrites
  <2>6. Wrote(s, svc[s].phase, svc[s].running) /\ disk' = new
      BY <2>4, <2>5
  <2>7. svc[s].running \in BOOLEAN
      BY <1>1, ServiceFields
  <2>8. \A j \in Jobs : disk'[j] # Absent =>
            /\ disk[j] # Absent
            /\ disk'[j].enabled => disk[j].enabled
            /\ disk'[j].running \in {0, disk[j].running}
            /\ \/ ~disk[j].enabled \/ disk[j].next = 0
               \/ ExecutedSlot(Normalized(disk[j]))
               \/ disk'[j].next = disk[j].next
      BY <2>2, <2>6 DEF LeftOf
  <2>9. {} \in SUBSET Jobs /\ \A j \in Jobs : j \notin {}
      OBVIOUS
  <2> HIDE DEF due
  <2> QED BY <1>2, <1>3, <2>6, <2>7, <2>8, <2>9
<1>4. CASE due # {}
  <2> DEFINE new == [j \in Jobs |-> IF j \in due THEN [disk[j] EXCEPT !.running = now]
                                                 ELSE disk[j]]
             service == [Reloaded(s) EXCEPT !.running = TRUE, !.captured = TRUE,
                                            !.timer = TRUE, !.mem = new]
  <2>1. Persist(s, service)
      BY <1>4 DEF TimerFires
  <2>2. ASSUME NEW j \in due
        PROVE  /\ disk[j] # Absent /\ disk[j].running = 0
               /\ new[j] \in JobStates /\ new[j].running = now
               /\ new[j].enabled = disk[j].enabled /\ new[j].next = disk[j].next
    <3>1. disk[j] # Absent /\ disk[j].running = 0 /\ disk[j] \in JobStates /\ j \in Jobs
        BY <1>1, StoreJob DEF Runnable
    <3> DEFINE m == [disk[j] EXCEPT !.running = now]
    <3>2. new[j] = m
        BY <3>1
    <3>3. m \in JobStates /\ m.running = now /\ m.enabled = disk[j].enabled /\ m.next = disk[j].next
        BY <1>1, <3>1, RunningSets
    <3> HIDE DEF m, new, due
    <3> QED BY <3>1, <3>2, <3>3
  <2>3. \A j \in Jobs \ due : new[j] = disk[j]
      OBVIOUS
  <2> HIDE DEF due
  <2>4. new \in Stores
      BY <1>1, <2>2 DEF Stores
  <2> HIDE DEF new
  <2>5. /\ service \in ServiceObjects /\ service.mem = new /\ service.phase = svc[s].phase
        /\ service.running = TRUE
      BY <1>1, <2>4 DEF ServiceObjects, Reloaded
  <2> HIDE DEF service
  <2>6. Wrote(s, service.phase, service.running) /\ disk' = service.mem
      BY <1>1, <2>1, <2>5, PersistWrites
  <2>7. Wrote(s, svc[s].phase, TRUE) /\ disk' = new
      BY <2>5, <2>6
  <2>8. \A j \in Jobs : disk'[j] # Absent =>
            /\ disk[j] # Absent
            /\ disk'[j].enabled => disk[j].enabled
            /\ IF j \in due THEN disk'[j].running = now
                            ELSE disk'[j].running \in {0, disk[j].running}
            /\ \/ ~disk[j].enabled \/ disk[j].next = 0
               \/ ExecutedSlot(Normalized(disk[j]))
               \/ disk'[j].next = disk[j].next
      BY <2>2, <2>3, <2>7
  <2>9. due \in SUBSET Jobs
      BY DEF due
  <2> QED BY <1>2, <2>2, <2>7, <2>8, <2>9
<1> QED BY <1>3, <1>4

-----------------------------------------------------------------------------
(* The gateway's methods and manual runs.                                    *)

\* An edit writes what is in memory, but for the job it is about.
LEMMA EditedWrites ==
    ASSUME TypeOK, Serving, NEW store \in Stores, Edited(store)
    PROVE  Wrote(current, svc[current].phase, svc[current].running) /\ disk' = store
<1> DEFINE service == [svc[current] EXCEPT !.mem = store]
           armed == ArmTimer(service)
<1>1. /\ svc \in [Services -> ServiceObjects] /\ current \in Services
      /\ svc[current] \in ServiceObjects
    BY DEF TypeOK, Serving
<1>2. Persist(current, armed)
    BY DEF Edited
<1>3. /\ service \in ServiceObjects /\ service.mem = store /\ service.phase = svc[current].phase
      /\ service.running = svc[current].running
    BY <1>1, MemSets
<1> HIDE DEF service
<1>4. /\ armed \in ServiceObjects /\ armed.mem = store /\ armed.phase = svc[current].phase
      /\ armed.running = svc[current].running
    BY <1>3, ArmTimerSets
<1> HIDE DEF armed
<1>5. Wrote(current, armed.phase, armed.running) /\ disk' = armed.mem
    BY <1>1, <1>2, <1>4, PersistWrites
<1> QED BY <1>4, <1>5

EditStarted == Event /\ Serving /\ UNCHANGED <<now, current, runs>>

LEMMA AddJobDoes ==
    ASSUME TypeOK, NEW j \in Jobs, NEW at \in AtTimes, AddJob(j, at)
    PROVE  /\ EditStarted /\ Fresh(j)
           /\ Wrote(current, svc[current].phase, svc[current].running)
           /\ \A k \in Jobs : disk'[k] # Absent =>
                 IF k = j THEN disk'[k].running = 0
                 ELSE svc[current].mem[k] # Absent /\ disk'[k].running \in {0, svc[current].mem[k].running}
<1> DEFINE fresh == NewJob(j, at, now)
           mem == [svc[current].mem EXCEPT ![j] = fresh]
           store == Recomputed(mem)
<1>1. /\ svc[current] \in ServiceObjects /\ svc[current].mem \in Stores /\ now \in Nat
    BY ServiceFields DEF TypeOK, AddJob, Serving
<1>2. EditStarted /\ Fresh(j) /\ Edited(store) /\ Serving
    BY DEF AddJob, EditStarted
<1>3. fresh \in JobStates /\ fresh.running = 0
    BY <1>1, NewJobType
<1> HIDE DEF fresh
<1>4. mem \in Stores /\ mem[j] = fresh /\ \A k \in Jobs : k # j => mem[k] = svc[current].mem[k]
    BY <1>1, <1>3 DEF Stores
<1> HIDE DEF mem
<1>5. store \in Stores /\ \A k \in Jobs : store[k] # Absent =>
          mem[k] # Absent /\ store[k].running \in {0, mem[k].running}
    BY <1>1, <1>4, RecomputedFacts
<1> HIDE DEF store
<1>6. Wrote(current, svc[current].phase, svc[current].running) /\ disk' = store
    BY <1>2, <1>5, EditedWrites
<1> QED BY <1>2, <1>3, <1>4, <1>5, <1>6

LEMMA RescheduledType ==
    ASSUME NEW j \in Jobs, NEW job \in JobStates, now \in Nat
    PROVE  /\ Rescheduled(j, job) \in JobStates
           /\ Rescheduled(j, job).running \in {0, job.running}
<1>1. CASE job.enabled
    BY <1>1, NextRunNat, NextSets DEF Rescheduled
<1>2. CASE ~job.enabled
  <2> DEFINE m == [job EXCEPT !.next = 0]
  <2>1. m \in JobStates
      BY NextSets
  <2>2. Rescheduled(j, job) = [m EXCEPT !.running = 0]
      BY <1>2 DEF Rescheduled
  <2> HIDE DEF m
  <2> QED BY <2>1, <2>2, RunningSets
<1> QED BY <1>1, <1>2

LEMMA RepairedType ==
    ASSUME NEW j \in Jobs, NEW job \in JobStates, now \in Nat
    PROVE  Repaired(j, job) \in JobStates /\ Repaired(j, job).running = job.running
    BY NextRunNat, NextSets DEF Repaired

LEMMA UpdateJobDoes ==
    ASSUME TypeOK, NEW j \in Jobs, NEW enabled \in BOOLEAN, NEW at \in AtTimes \cup {0},
           UpdateJob(j, enabled, at)
    PROVE  /\ EditStarted /\ svc[current].mem[j] # Absent
           /\ Wrote(current, svc[current].phase, svc[current].running)
           /\ \A k \in Jobs : disk'[k] # Absent =>
                 svc[current].mem[k] # Absent /\ disk'[k].running \in {0, svc[current].mem[k].running}
<1> DEFINE mem == svc[current].mem
           job == [mem[j] EXCEPT !.enabled = enabled, !.at = at]
           new == Rescheduled(j, job)
           store == [mem EXCEPT ![j] = new]
<1>1. /\ svc[current] \in ServiceObjects /\ mem \in Stores /\ now \in Nat
    BY ServiceFields DEF TypeOK, UpdateJob, Serving
<1>2. EditStarted /\ mem[j] # Absent /\ Edited(store) /\ Serving
    BY DEF UpdateJob, EditStarted, Mem
<1>3. mem[j] \in JobStates
    BY <1>1, <1>2, StoreJob
<1> HIDE DEF mem
<1>4. job \in JobStates /\ job.running = mem[j].running
    BY <1>3 DEF JobStates
<1> HIDE DEF job
<1>5. new \in JobStates /\ new.running \in {0, job.running}
    BY <1>1, <1>4, RescheduledType
<1> HIDE DEF new
<1>6. store \in Stores /\ store[j] = new /\ \A k \in Jobs : k # j => store[k] = mem[k]
    BY <1>1, <1>5 DEF Stores
<1> HIDE DEF store
<1>7. Wrote(current, svc[current].phase, svc[current].running) /\ disk' = store
    BY <1>2, <1>6, EditedWrites
<1> QED BY <1>2, <1>4, <1>5, <1>6, <1>7 DEF mem

LEMMA UpdateOtherDoes ==
    ASSUME TypeOK, NEW j \in Jobs, UpdateOther(j)
    PROVE  /\ EditStarted /\ svc[current].mem[j] # Absent
           /\ Wrote(current, svc[current].phase, svc[current].running)
           /\ \A k \in Jobs : disk'[k] # Absent =>
                 svc[current].mem[k] # Absent /\ disk'[k].running \in {0, svc[current].mem[k].running}
<1> DEFINE mem == svc[current].mem
           new == Repaired(j, mem[j])
           store == [mem EXCEPT ![j] = new]
<1>1. /\ svc[current] \in ServiceObjects /\ mem \in Stores /\ now \in Nat
    BY ServiceFields DEF TypeOK, UpdateOther, Serving
<1>2. EditStarted /\ mem[j] # Absent /\ Edited(store) /\ Serving
    BY DEF UpdateOther, EditStarted, Mem
<1>3. mem[j] \in JobStates
    BY <1>1, <1>2, StoreJob
<1> HIDE DEF mem
<1>4. new \in JobStates /\ new.running = mem[j].running
    BY <1>1, <1>3, RepairedType
<1> HIDE DEF new
<1>5. store \in Stores /\ store[j] = new /\ \A k \in Jobs : k # j => store[k] = mem[k]
    BY <1>1, <1>4 DEF Stores
<1> HIDE DEF store
<1>6. Wrote(current, svc[current].phase, svc[current].running) /\ disk' = store
    BY <1>2, <1>5, EditedWrites
<1> QED BY <1>2, <1>4, <1>5, <1>6 DEF mem

LEMMA RemoveJobDoes ==
    ASSUME TypeOK, NEW j \in Jobs, RemoveJob(j)
    PROVE  /\ EditStarted
           /\ Wrote(current, svc[current].phase, svc[current].running)
           /\ \A k \in Jobs : disk'[k] # Absent =>
                 svc[current].mem[k] # Absent /\ disk'[k].running \in {0, svc[current].mem[k].running}
<1> DEFINE mem == svc[current].mem
           store == [mem EXCEPT ![j] = Absent]
<1>1. /\ svc[current] \in ServiceObjects /\ mem \in Stores
    BY ServiceFields DEF TypeOK, RemoveJob, Serving
<1>2. EditStarted /\ Edited(store) /\ Serving
    BY DEF RemoveJob, EditStarted
<1> HIDE DEF mem
<1>3. store \in Stores /\ store[j] = Absent /\ \A k \in Jobs : k # j => store[k] = mem[k]
    BY <1>1 DEF Stores
<1> HIDE DEF store
<1>4. Wrote(current, svc[current].phase, svc[current].running) /\ disk' = store
    BY <1>2, <1>3, EditedWrites
<1> QED BY <1>2, <1>3, <1>4 DEF mem

LEMMA ReadDoes ==
    ASSUME TypeOK, Read
    PROVE  /\ Serving /\ Wrote(current, svc[current].phase, svc[current].running) /\ runs' = runs
           /\ LeftOf(disk', svc[current].mem)
           /\ \A j \in Jobs :
                 \/ disk'[j] = Absent
                 \/ ~svc[current].mem[j].enabled \/ svc[current].mem[j].next = 0
                 \/ disk'[j].next = svc[current].mem[j].next
<1> DEFINE mem == svc[current].mem
           store == Maintained(mem, FALSE)
           service == [svc[current] EXCEPT !.mem = store]
<1>1. /\ svc \in [Services -> ServiceObjects] /\ current \in Services
      /\ svc[current] \in ServiceObjects /\ mem \in Stores /\ now \in Nat
    BY ServiceFields DEF TypeOK, Read, Serving
<1>2. Persist(current, service) /\ runs' = runs /\ Serving
    BY DEF Read
<1> HIDE DEF mem
<1>3. /\ store \in Stores /\ LeftOf(store, mem)
      /\ \A j \in Jobs : store[j] # Absent =>
            ~mem[j].enabled \/ mem[j].next = 0 \/ store[j].next = mem[j].next
    BY <1>1, MaintainedFacts DEF LeftOf
<1> HIDE DEF store
<1>4. /\ service \in ServiceObjects /\ service.mem = store /\ service.phase = svc[current].phase
      /\ service.running = svc[current].running
    BY <1>1, <1>3, MemSets
<1> HIDE DEF service
<1>5. Wrote(current, service.phase, service.running) /\ disk' = service.mem
    BY <1>1, <1>2, <1>4, PersistWrites
<1> QED BY <1>2, <1>3, <1>4, <1>5 DEF mem

LEMMA PreflightDoes ==
    ASSUME TypeOK, Serving, Preflight
    PROVE  /\ svc' \in [Services -> ServiceObjects]
           /\ svc'[current].phase = svc[current].phase
           /\ svc'[current].running = svc[current].running
           /\ svc'[current].timer = svc[current].timer
           /\ \A o \in Services : o # current => svc'[o] = svc[o]
           /\ excused' = excused \cup MarkerTaken(svc[current].mem, svc'[current].mem)
           /\ \A j \in Jobs :
                 /\ svc'[current].mem[j] = Absent <=> svc[current].mem[j] = Absent
                 /\ svc[current].mem[j] # Absent =>
                       /\ svc'[current].mem[j].enabled = svc[current].mem[j].enabled
                       /\ svc'[current].mem[j].running \in {0, svc[current].mem[j].running}
                       /\ \/ ~svc[current].mem[j].enabled \/ svc[current].mem[j].next = 0
                          \/ svc'[current].mem[j].next = svc[current].mem[j].next
<1> DEFINE mem == svc[current].mem
           store == Maintained(mem, FALSE)
           service == [svc[current] EXCEPT !.mem = store]
<1>1. /\ svc \in [Services -> ServiceObjects] /\ current \in Services
      /\ svc[current] \in ServiceObjects /\ mem \in Stores /\ now \in Nat
    BY ServiceFields DEF TypeOK, Serving
<1>2. /\ svc' = [svc EXCEPT ![current] = service]
      /\ excused' = excused \cup MarkerTaken(mem, svc'[current].mem)
    BY DEF Preflight
<1> HIDE DEF mem
<1>3. /\ store \in Stores
      /\ \A j \in Jobs :
            /\ store[j] = Absent <=> mem[j] = Absent
            /\ mem[j] # Absent =>
                  /\ store[j].enabled = mem[j].enabled
                  /\ store[j].running \in {0, mem[j].running}
                  /\ ~mem[j].enabled \/ mem[j].next = 0 \/ store[j].next = mem[j].next
    BY <1>1, MaintainedFacts
<1> HIDE DEF store
<1>4. /\ service \in ServiceObjects /\ service.mem = store /\ service.phase = svc[current].phase
      /\ service.running = svc[current].running /\ service.timer = svc[current].timer
    BY <1>1, <1>3, MemSets
<1> HIDE DEF service
<1>5. /\ svc' \in [Services -> ServiceObjects] /\ svc'[current] = service
      /\ \A o \in Services : o # current => svc'[o] = svc[o]
    BY <1>1, <1>2, <1>4
<1> QED BY <1>2, <1>3, <1>4, <1>5 DEF mem

LEMMA MarkSets ==
    ASSUME NEW store \in Stores, NEW j \in Jobs, store[j] # Absent, NEW t \in Nat
    PROVE  LET new == [store EXCEPT ![j].running = t]
           IN  /\ new \in Stores /\ new[j] # Absent /\ new[j].running = t
               /\ new[j].enabled = store[j].enabled /\ new[j].next = store[j].next
               /\ \A k \in Jobs : k # j => new[k] = store[k]
<1> DEFINE m == store[j]
           job == [m EXCEPT !.running = t]
           new == [store EXCEPT ![j] = job]
<1>1. m \in JobStates
    BY StoreJob
<1>2. [store EXCEPT ![j].running = t] = new
    OBVIOUS
<1>3. job \in JobStates /\ job.running = t /\ job.enabled = m.enabled /\ job.next = m.next
    BY <1>1, RunningSets
<1> HIDE DEF job
<1>4. new \in Stores /\ new[j] = job /\ \A k \in Jobs : k # j => new[k] = store[k]
    BY <1>3 DEF Stores
<1> HIDE DEF new
<1>5. job # Absent
    BY <1>3, CronAssumption
<1> QED BY <1>2, <1>3, <1>4, <1>5

\* The worker of a tick marks the job it holds, in memory.
LEMMA TickStartDoes ==
    ASSUME TypeOK, NEW run \in runs, TickStart(run)
    PROVE  LET s == run.svc
           IN  /\ s \in Services /\ svc' \in [Services -> ServiceObjects]
               /\ svc'[s].phase = svc[s].phase /\ svc'[s].running = svc[s].running
               /\ svc'[s].timer = svc[s].timer
               /\ \A o \in Services : o # s => svc'[o] = svc[o]
               /\ \A j \in Jobs :
                     \/ svc'[s].mem[j] = svc[s].mem[j]
                     \/ /\ j = run.job /\ svc[s].mem[j] # Absent /\ svc'[s].mem[j] # Absent
                        /\ svc'[s].mem[j].running = now
                        /\ svc'[s].mem[j].enabled = svc[s].mem[j].enabled
                        /\ svc'[s].mem[j].next = svc[s].mem[j].next
<1> DEFINE s == run.svc
           mem == svc[s].mem
           store == [mem EXCEPT ![run.job].running = now]
           service == [svc[s] EXCEPT !.mem = store]
<1>1. s \in Services /\ run.job \in Jobs
    BY DEF TypeOK, Runs
<1>2. /\ svc \in [Services -> ServiceObjects] /\ svc[s] \in ServiceObjects /\ mem \in Stores
      /\ now \in Nat
    BY <1>1, ServiceFields DEF TypeOK
<1>3. CASE svc' = svc
    BY <1>1, <1>2, <1>3
<1>4. CASE mem[run.job] # Absent /\ svc' = [svc EXCEPT ![s] = service]
  <2> HIDE DEF mem
  <2>1. /\ store \in Stores /\ store[run.job] # Absent /\ store[run.job].running = now
        /\ store[run.job].enabled = mem[run.job].enabled /\ store[run.job].next = mem[run.job].next
        /\ \A k \in Jobs : k # run.job => store[k] = mem[k]
      BY <1>1, <1>2, <1>4, MarkSets
  <2> HIDE DEF store
  <2>2. /\ service \in ServiceObjects /\ service.mem = store /\ service.phase = svc[s].phase
        /\ service.running = svc[s].running /\ service.timer = svc[s].timer
      BY <1>2, <2>1, MemSets
  <2> HIDE DEF service
  <2>3. /\ svc' \in [Services -> ServiceObjects] /\ svc'[s] = service
        /\ \A o \in Services : o # s => svc'[o] = svc[o]
      BY <1>1, <1>2, <1>4, <2>2
  <2> HIDE DEF s
  <2>4. svc'[s].mem = store /\ svc[s].mem = mem
      BY <2>2, <2>3 DEF mem
  <2>5. \A j \in Jobs :
            \/ store[j] = mem[j]
            \/ /\ j = run.job /\ mem[j] # Absent /\ store[j] # Absent /\ store[j].running = now
               /\ store[j].enabled = mem[j].enabled /\ store[j].next = mem[j].next
      BY <1>4, <2>1
  <2>6. /\ s \in Services /\ svc' \in [Services -> ServiceObjects]
        /\ svc'[s].phase = svc[s].phase /\ svc'[s].running = svc[s].running
        /\ svc'[s].timer = svc[s].timer
        /\ \A o \in Services : o # s => svc'[o] = svc[o]
      BY <1>1, <2>2, <2>3
  <2> QED BY <2>4, <2>5, <2>6 DEF s
<1>5. svc' = svc \/ (mem[run.job] # Absent /\ svc' = [svc EXCEPT ![s] = service])
  <2>1. [svc EXCEPT ![s].mem[run.job].running = now] = [svc EXCEPT ![s] = service]
      OBVIOUS
  <2> HIDE DEF service
  <2> QED BY <2>1 DEF TickStart
<1> QED BY <1>3, <1>4, <1>5

LEMMA ManualReserveDoes ==
    ASSUME TypeOK, NEW run \in runs, ManualReserve(run)
    PROVE  LET s == run.svc
           IN  /\ s \in Services /\ Wrote(s, svc[s].phase, svc[s].running)
               /\ run.phase = "preflight"
               /\ svc[s].mem[run.job] # Absent /\ svc[s].mem[run.job].running = 0
               /\ runs' = (runs \ {run}) \cup {[run EXCEPT !.phase = "executing"]}
               /\ disk'[run.job] # Absent /\ disk'[run.job].running = run.since
               /\ disk'[run.job].enabled = svc[s].mem[run.job].enabled
               /\ disk'[run.job].next = svc[s].mem[run.job].next
               /\ \A k \in Jobs : k # run.job => disk'[k] = svc[s].mem[k]
<1> DEFINE s == run.svc
           mem == svc[s].mem
           store == [mem EXCEPT ![run.job].running = run.since]
           service == [svc[s] EXCEPT !.mem = store]
<1>1. s \in Services /\ run.job \in Jobs /\ run.since \in Nat
    BY DEF TypeOK, Runs
<1>2. svc \in [Services -> ServiceObjects] /\ svc[s] \in ServiceObjects /\ mem \in Stores
    BY <1>1, ServiceFields DEF TypeOK
<1>3. /\ run.phase = "preflight" /\ mem[run.job] # Absent /\ mem[run.job].running = 0
      /\ runs' = (runs \ {run}) \cup {[run EXCEPT !.phase = "executing"]}
      /\ Persist(s, service)
    BY DEF ManualReserve
<1> HIDE DEF mem
<1>4. /\ store \in Stores /\ store[run.job] # Absent /\ store[run.job].running = run.since
      /\ store[run.job].enabled = mem[run.job].enabled /\ store[run.job].next = mem[run.job].next
      /\ \A k \in Jobs : k # run.job => store[k] = mem[k]
    BY <1>1, <1>2, <1>3, MarkSets
<1> HIDE DEF store
<1>5. /\ service \in ServiceObjects /\ service.mem = store /\ service.phase = svc[s].phase
      /\ service.running = svc[s].running
    BY <1>2, <1>4, MemSets
<1> HIDE DEF service
<1>6. Wrote(s, service.phase, service.running) /\ disk' = service.mem
    BY <1>1, <1>2, <1>3, <1>5, PersistWrites
<1> HIDE DEF s
<1>7. mem = svc[s].mem
    BY DEF mem
<1> QED BY <1>1, <1>3, <1>4, <1>5, <1>6, <1>7 DEF s

LEMMA ManualFinishDoes ==
    ASSUME TypeOK, NEW run \in runs, ManualFinish(run)
    PROVE  LET s == run.svc
           IN  /\ s \in Services /\ Wrote(s, svc[s].phase, svc[s].running)
               /\ run.phase = "done" /\ svc[s].mem[run.job] # Absent /\ runs' = runs \ {run}
               /\ \A j \in Jobs : disk'[j] # Absent =>
                     /\ disk[j] # Absent
                     /\ IF j = run.job
                        THEN /\ disk'[j].running = 0
                             /\ disk'[j].enabled => svc[s].mem[j].enabled
                        ELSE /\ disk'[j].running \in {0, disk[j].running}
                             /\ disk'[j].enabled => disk[j].enabled
                             /\ \/ ~disk[j].enabled \/ disk[j].next = 0
                                \/ ExecutedSlot(Normalized(disk[j]))
                                \/ disk'[j].next = disk[j].next
<1> DEFINE s == run.svc
           mem == svc[s].mem
           i == run.job
           job == WithResult(i, mem[i], run)
           mid == Merged(disk, i, job)
           store == Maintained(mid, TRUE)
           service == [Reloaded(s) EXCEPT !.mem = store]
           armed == ArmTimer(service)
<1>1. s \in Services /\ i \in Jobs /\ run \in Runs /\ run.result \in Results
    BY DEF TypeOK, Runs, ManualFinish
<1>2. /\ svc \in [Services -> ServiceObjects] /\ svc[s] \in ServiceObjects /\ mem \in Stores
      /\ disk \in Stores /\ now \in Nat
    BY <1>1, ServiceFields DEF TypeOK
<1>3. run.phase = "done" /\ mem[i] # Absent /\ runs' = runs \ {run} /\ Persist(s, armed)
    BY DEF ManualFinish
<1> HIDE DEF mem
<1>4. mem[i] \in JobStates
    BY <1>1, <1>2, <1>3, StoreJob
<1>5. job = Absent \/ (job \in JobStates /\ job.running = 0 /\ (job.enabled => mem[i].enabled))
    BY <1>1, <1>4, WithResultFacts
<1> HIDE DEF job
<1>6. /\ mid \in Stores
      /\ \A j \in Jobs : j # i => mid[j] = disk[j]
      /\ mid[i] # Absent =>
            disk[i] # Absent /\ mid[i].running = 0 /\ (mid[i].enabled => mem[i].enabled)
  <2>1. CASE job = Absent
      BY <1>1, <1>2, <2>1 DEF Merged, Stores
  <2>2. CASE job # Absent /\ disk[i] = Absent
      BY <1>2, <2>2 DEF Merged
  <2>3. CASE job # Absent /\ disk[i] # Absent
    <3> DEFINE new == [job EXCEPT !.at = disk[i].at]
    <3>1. mid = [disk EXCEPT ![i] = new]
        BY <2>3 DEF Merged
    <3>2. disk[i].at \in AtTimes \cup {0}
      <4>1. disk[i] \in JobStates
          BY <1>1, <1>2, <2>3, StoreJob
      <4> QED BY <4>1 DEF JobStates
    <3>3. new \in JobStates /\ new.running = job.running /\ new.enabled = job.enabled
        BY <1>5, <2>3, <3>2 DEF JobStates
    <3> HIDE DEF new, mid
    <3>4. mid \in Stores /\ mid[i] = new /\ \A j \in Jobs : j # i => mid[j] = disk[j]
        BY <1>1, <1>2, <3>1, <3>3 DEF Stores
    <3> QED BY <1>5, <2>3, <3>3, <3>4
  <2> QED BY <2>1, <2>2, <2>3
<1> HIDE DEF mid
<1>7. /\ store \in Stores
      /\ \A j \in Jobs : store[j] # Absent =>
            /\ mid[j] # Absent
            /\ store[j].enabled = mid[j].enabled /\ store[j].running \in {0, mid[j].running}
            /\ \/ ~mid[j].enabled \/ mid[j].next = 0 \/ ExecutedSlot(Normalized(mid[j]))
               \/ store[j].next = mid[j].next
    BY <1>2, <1>6, MaintainedFacts
<1> HIDE DEF store
<1>8. /\ service \in ServiceObjects /\ service.mem = store /\ service.phase = svc[s].phase
      /\ service.running = svc[s].running
    BY <1>2, <1>7 DEF ServiceObjects, Reloaded
<1> HIDE DEF service
<1>9. /\ armed \in ServiceObjects /\ armed.mem = store /\ armed.phase = svc[s].phase
      /\ armed.running = svc[s].running
    BY <1>8, ArmTimerSets
<1> HIDE DEF armed
<1>10. Wrote(s, armed.phase, armed.running) /\ disk' = armed.mem
    BY <1>1, <1>2, <1>3, <1>9, PersistWrites
<1>11. ASSUME NEW j \in Jobs, store[j] # Absent
       PROVE  /\ disk[j] # Absent
              /\ IF j = i
                 THEN store[j].running = 0 /\ (store[j].enabled => mem[j].enabled)
                 ELSE /\ store[j].running \in {0, disk[j].running}
                      /\ store[j].enabled => disk[j].enabled
                      /\ \/ ~disk[j].enabled \/ disk[j].next = 0
                         \/ ExecutedSlot(Normalized(disk[j]))
                         \/ store[j].next = disk[j].next
  <2>1. CASE j = i
      BY <1>6, <1>7, <1>11, <2>1
  <2>2. CASE j # i
      BY <1>6, <1>7, <1>11, <2>2
  <2> QED BY <2>1, <2>2
<1> HIDE DEF s, i
<1>12. mem = svc[s].mem
    BY DEF mem
<1> QED BY <1>1, <1>3, <1>9, <1>10, <1>11, <1>12 DEF s, i

-----------------------------------------------------------------------------
(* Types.                                                                    *)

RunsTyped(R, t) ==
    /\ R \subseteq Runs
    /\ \A r \in R : /\ r.phase = "done" <=> r.result \in Results
                    /\ r.phase # "queued" => r.since \in 1..t
                    /\ r.ended <= t

LEMMA WroteTyped ==
    ASSUME excused \subseteq Jobs, NEW s, NEW phase, NEW busy, Wrote(s, phase, busy)
    PROVE  disk' \in Stores /\ svc' \in [Services -> ServiceObjects] /\ excused' \subseteq Jobs
    BY DEF Wrote, MarkerTaken

LEMMA NewRunsTyped ==
    ASSUME RunsTyped(runs, now), now \in Nat, NEW s \in Services, NEW by \in Callers,
           NEW first \in SUBSET Jobs, runs' = runs \cup {NewRun(s, j, by) : j \in first}
    PROVE  RunsTyped(runs', now)
<1>1. ASSUME NEW j \in first
      PROVE  /\ NewRun(s, j, by) \in Runs /\ NewRun(s, j, by).phase = "queued"
             /\ NewRun(s, j, by).result = "none" /\ NewRun(s, j, by).ended = 0
    BY DEF NewRun, Runs
<1>2. "none" \notin Results
    BY DEF Results
<1>3. ASSUME NEW r \in runs', r \notin runs
      PROVE  r \in Runs /\ r.phase = "queued" /\ r.result = "none" /\ r.ended = 0
    BY <1>1, <1>3
<1> QED BY <1>2, <1>3 DEF RunsTyped

LEMMA FewerRunsTyped ==
    ASSUME RunsTyped(runs, now), runs' \subseteq runs
    PROVE  RunsTyped(runs', now)
    BY DEF RunsTyped

\* The steps of a run.
Begins(run, r) == r = [run EXCEPT !.phase = "executing", !.since = now]
EndsWith(run, r, result) == r = [run EXCEPT !.phase = "done", !.result = result, !.ended = now]

LEMMA StepOfRunTyped ==
    ASSUME RunsTyped(runs, now), now \in Nat \ {0}, NEW run \in runs, NEW r,
           runs' = (runs \ {run}) \cup {r},
           \/ run.phase = "queued" /\ Begins(run, r)
           \/ run.phase = "executing" /\ \E result \in Results : EndsWith(run, r, result)
           \/ run.phase = "preflight" /\ r = [run EXCEPT !.phase = "executing"]
    PROVE  RunsTyped(runs', now)
<1>1. /\ run \in Runs /\ (run.phase = "done" <=> run.result \in Results)
      /\ (run.phase # "queued" => run.since \in 1..now) /\ run.ended <= now
    BY DEF RunsTyped
<1>2. CASE run.phase = "queued" /\ Begins(run, r)
  <2>1. r \in Runs /\ r.phase = "executing" /\ r.since = now /\ r.result = run.result /\ r.ended = run.ended
      BY <1>1, <1>2 DEF Begins, Runs
  <2>2. now \in 1..now
      OBVIOUS
  <2> QED BY <1>1, <1>2, <2>1, <2>2 DEF RunsTyped
<1>3. ASSUME NEW result \in Results, run.phase = "executing", EndsWith(run, r, result)
      PROVE  RunsTyped(runs', now)
  <2>1. r \in Runs /\ r.phase = "done" /\ r.since = run.since /\ r.result = result /\ r.ended = now
      BY <1>1, <1>3 DEF EndsWith, Runs
  <2> QED BY <1>1, <1>3, <2>1 DEF RunsTyped
<1>4. CASE run.phase = "preflight" /\ r = [run EXCEPT !.phase = "executing"]
  <2>1. r \in Runs /\ r.phase = "executing" /\ r.since = run.since /\ r.result = run.result /\ r.ended = run.ended
      BY <1>1, <1>4 DEF Runs
  <2> QED BY <1>1, <1>4, <2>1 DEF RunsTyped
<1> QED BY <1>2, <1>3, <1>4

LEMMA TypedParts ==
    TypeOK <=> /\ now \in 1..MaxTime /\ disk \in Stores
               /\ svc \in [Services -> ServiceObjects] /\ current \in Services \cup {0}
               /\ RunsTyped(runs, now) /\ events \in 0..MaxEvents /\ excused \subseteq Jobs
    BY DEF TypeOK, RunsTyped

LEMMA EventTyped == events \in 0..MaxEvents /\ Event => events' \in 0..MaxEvents
    BY Numbers DEF Event

LEMMA TypeInit == Init => TypeOK
<1> SUFFICES ASSUME Init PROVE TypeOK
    OBVIOUS
<1>1. now \in 1..MaxTime /\ events \in 0..MaxEvents /\ excused \subseteq Jobs
    BY Numbers DEF Init
<1>2. disk \in Stores
  <2>1. \A j \in Jobs, at \in AtTimes : NewJob(j, at, 0) \in JobStates
      BY NewJobType
  <2> QED BY <2>1 DEF Init, Stores
<1>3. Unborn \in ServiceObjects
  <2>1. [j \in Jobs |-> Absent] \in Stores
      BY DEF Stores
  <2>2. <<>> \in Seq(Jobs)
      OBVIOUS
  <2> QED BY <2>1, <2>2 DEF Unborn, ServiceObjects, Phases
<1>4. svc \in [Services -> ServiceObjects] /\ current \in Services \cup {0} /\ runs = {}
    BY <1>3 DEF Init
<1> QED BY <1>1, <1>2, <1>4 DEF TypeOK

LEMMA TypeStep == TypeOK /\ [Next]_vars => TypeOK'
<1> SUFFICES ASSUME TypeOK, [Next]_vars PROVE TypeOK'
    OBVIOUS
<1>1. /\ now \in 1..MaxTime /\ disk \in Stores /\ now \in Nat \ {0}
      /\ svc \in [Services -> ServiceObjects] /\ current \in Services \cup {0}
      /\ RunsTyped(runs, now) /\ events \in 0..MaxEvents /\ excused \subseteq Jobs
    BY TypedParts, Numbers
<1>2. SUFFICES /\ now' \in 1..MaxTime /\ disk' \in Stores
               /\ svc' \in [Services -> ServiceObjects] /\ current' \in Services \cup {0}
               /\ RunsTyped(runs', now') /\ events' \in 0..MaxEvents /\ excused' \subseteq Jobs
    BY DEF TypeOK, RunsTyped
<1>3. CASE Tick
  <2>1. now' = now + 1 /\ now' \in 1..MaxTime /\ runs' = runs
      BY <1>1, <1>3, Numbers DEF Tick
  <2>2. RunsTyped(runs, now + 1)
      BY <1>1 DEF RunsTyped, Runs
  <2> QED BY <1>1, <1>3, <2>1, <2>2 DEF Tick
<1>4. CASE Boot
  <2>1. svc' = [svc EXCEPT ![1].phase = "clear"] /\ 1 \in Services
      BY <1>4, CronAssumption DEF Boot
  <2>2. svc' \in [Services -> ServiceObjects]
    <3> DEFINE service == [svc[1] EXCEPT !.phase = "clear"]
    <3>1. service \in ServiceObjects
        BY ZenonT(30), <1>1, <2>1 DEF ServiceObjects, Phases
    <3>2. svc' = [svc EXCEPT ![1] = service]
        BY <2>1
    <3> HIDE DEF service
    <3> QED BY <1>1, <3>1, <3>2
  <2> QED BY <1>1, <1>4, <2>1, <2>2 DEF Boot
<1>5. CASE Crash
  <2>1. svc' \in [Services -> ServiceObjects]
    <3>1. [j \in Jobs |-> Absent] \in Stores /\ <<>> \in Seq(Jobs)
        BY DEF Stores
    <3>2. Unborn \in ServiceObjects
        BY <3>1 DEF Unborn, ServiceObjects, Phases
    <3> QED BY <1>5, <3>2 DEF Crash
  <2> QED BY <1>1, <1>5, <2>1, EventTyped DEF Crash, RunsTyped
<1>6. CASE Reload
  <2> DEFINE old == [svc[current] EXCEPT !.timer = FALSE]
             new == [svc[current + 1] EXCEPT !.phase = "clear"]
  <2>1. current \in Services /\ current + 1 \in Services /\ current # current + 1
      BY <1>1, <1>6, CronAssumption DEF Reload
  <2>2. svc[current] \in ServiceObjects /\ svc[current + 1] \in ServiceObjects
      BY <1>1, <2>1
  <2>3. old \in ServiceObjects /\ new \in ServiceObjects
      BY <2>2 DEF ServiceObjects, Phases
  <2>4. svc' = [svc EXCEPT ![current] = old, ![current + 1] = new]
      BY <1>1, <1>6, <2>1 DEF Reload
  <2> HIDE DEF old, new
  <2>5. svc' \in [Services -> ServiceObjects]
      BY <1>1, <2>3, <2>4
  <2>6. /\ UNCHANGED <<now, disk, runs, excused>> /\ current' = current + 1
        /\ events' = MaxEvents
      BY <1>6 DEF Reload
  <2> QED BY <1>1, <2>1, <2>5, <2>6, Numbers
<1>7. ASSUME NEW run \in runs, TickStart(run) \/ CatchupStart(run)
      PROVE  TypeOK'
  <2> DEFINE r == [run EXCEPT !.phase = "executing", !.since = now]
  <2>1. /\ run.phase = "queued" /\ runs' = (runs \ {run}) \cup {r}
        /\ UNCHANGED <<now, disk, current, events, excused>>
      BY <1>7 DEF TickStart, CatchupStart
  <2>2. Begins(run, r)
      BY DEF Begins
  <2> HIDE DEF r
  <2>3. RunsTyped(runs', now)
      BY <1>1, <2>1, <2>2, StepOfRunTyped
  <2>4. svc' \in [Services -> ServiceObjects]
      BY <1>1, <1>7, TickStartDoes DEF CatchupStart
  <2> QED BY <1>1, <2>1, <2>3, <2>4 DEF TypeOK, RunsTyped
<1>8. ASSUME NEW run \in runs, NEW result \in Outcomes, RunEnds(run, result)
      PROVE  TypeOK'
  <2> DEFINE r == [run EXCEPT !.phase = "done", !.result = result, !.ended = now]
  <2>1. /\ run.phase = "executing" /\ runs' = (runs \ {run}) \cup {r}
        /\ UNCHANGED <<now, disk, svc, current, events, excused>>
      BY <1>8 DEF RunEnds
  <2>2. EndsWith(run, r, result) /\ result \in Results
      BY OutcomesAssumption DEF EndsWith
  <2> HIDE DEF r
  <2>3. RunsTyped(runs', now)
      BY <1>1, <2>1, <2>2, StepOfRunTyped
  <2> QED BY <1>1, <2>1, <2>3 DEF TypeOK, RunsTyped
<1>9. ASSUME NEW s \in Services, Starts(s) \/ TimerFires(s) \/ TickApply(s)
      PROVE  TypeOK'
  <2>1. UNCHANGED <<now, current, events>>
      BY <1>9 DEF Starts, StartClear, StartPlanNothing, StartPlan, StartApply, StartFinal,
                  TimerFires, TickApply
  <2>2. CASE StartPlanNothing(s)
    <3> DEFINE service == [svc[s] EXCEPT !.phase = "final", !.skip = {}]
    <3>1. service \in ServiceObjects
        BY <1>1 DEF ServiceObjects, Phases
    <3>2. svc' = [svc EXCEPT ![s] = service] /\ UNCHANGED <<disk, runs, excused>>
        BY <2>2 DEF StartPlanNothing
    <3> HIDE DEF service
    <3> QED BY <1>1, <2>1, <3>1, <3>2 DEF TypeOK, RunsTyped
  <2>3. ASSUME ~StartPlanNothing(s)
        PROVE  RunsTyped(runs', now) /\ \E phase, busy : Wrote(s, phase, busy)
    <3>1. CASE StartClear(s) \/ StartFinal(s)
        BY <1>1, <3>1, StartClearDoes, StartFinalDoes
    <3>2. CASE StartPlan(s)
        BY <1>1, <3>2, StartPlanDoes, NewRunsTyped DEF Callers
    <3>3. CASE StartApply(s)
        BY <1>1, <3>3, StartApplyDoes, FewerRunsTyped
    <3>4. CASE TimerFires(s)
        BY <1>1, <3>4, TimerFiresDoes, NewRunsTyped DEF Callers
    <3>5. CASE TickApply(s)
        BY <1>1, <3>5, TickApplyDoes, FewerRunsTyped
    <3> QED BY <1>9, <2>3, <3>1, <3>2, <3>3, <3>4, <3>5 DEF Starts
  <2> QED BY <1>1, <2>1, <2>2, <2>3, WroteTyped DEF TypeOK, RunsTyped
<1>10. CASE Edit
  <2>1. EditStarted /\ \E s, phase, busy : Wrote(s, phase, busy)
      BY <1>10, AddJobDoes, UpdateJobDoes, UpdateOtherDoes, RemoveJobDoes DEF Edit
  <2> QED BY <1>1, <2>1, WroteTyped, EventTyped DEF EditStarted
<1>11. CASE Read
  <2>1. UNCHANGED <<now, current, runs, events>>
      BY <1>11 DEF Read
  <2> QED BY <1>1, <1>11, <2>1, ReadDoes, WroteTyped
<1>12. ASSUME Serving, Preflight
       PROVE  svc' \in [Services -> ServiceObjects] /\ excused' \subseteq Jobs
    BY <1>1, <1>12, PreflightDoes DEF MarkerTaken
<1>13. CASE Inspect
    BY <1>1, <1>12, <1>13 DEF Inspect
<1>14. ASSUME NEW j \in Jobs, NEW forced \in BOOLEAN, ManualPreflight(j, forced)
       PROVE  TypeOK'
  <2> DEFINE r == [NewRun(current, j, "manual") EXCEPT
                       !.phase = "preflight", !.since = now, !.forced = forced]
  <2>1. current \in Services /\ runs' = runs \cup {r}
      BY <1>1, <1>14 DEF ManualPreflight, Serving
  <2>2. /\ r \in Runs /\ r.phase = "preflight" /\ r.since = now /\ r.result = "none" /\ r.ended = 0
      BY <1>1, <2>1 DEF NewRun, Runs, Callers
  <2>3. "none" \notin Results /\ now \in 1..now
      BY <1>1 DEF Results
  <2> HIDE DEF r
  <2>4. RunsTyped(runs', now)
      BY <1>1, <2>1, <2>2, <2>3 DEF RunsTyped
  <2> QED BY <1>1, <1>12, <1>14, <2>4, EventTyped DEF ManualPreflight, TypeOK, RunsTyped
<1>15. ASSUME NEW run \in runs, ManualReserve(run)
       PROVE  TypeOK'
  <2> DEFINE r == [run EXCEPT !.phase = "executing"]
  <2>1. UNCHANGED <<now, current, events>>
      BY <1>15 DEF ManualReserve
  <2>2. /\ run.phase = "preflight" /\ runs' = (runs \ {run}) \cup {r}
        /\ \E s, phase, busy : Wrote(s, phase, busy)
      BY <1>15, ManualReserveDoes
  <2>3. r = [run EXCEPT !.phase = "executing"]
      OBVIOUS
  <2> HIDE DEF r
  <2>4. RunsTyped(runs', now)
      BY <1>1, <2>2, <2>3, StepOfRunTyped
  <2> QED BY <1>1, <2>1, <2>2, <2>4, WroteTyped DEF TypeOK, RunsTyped
<1>16. ASSUME NEW run \in runs, ManualRefused(run) \/ ManualDropped(run)
       PROVE  TypeOK'
  <2>1. runs' \subseteq runs /\ UNCHANGED <<now, disk, svc, current, events, excused>>
      BY <1>16 DEF ManualRefused, ManualDropped
  <2> QED BY <1>1, <2>1, FewerRunsTyped DEF TypeOK, RunsTyped
<1>17. ASSUME NEW run \in runs, ManualFinish(run)
       PROVE  TypeOK'
  <2>1. UNCHANGED <<now, current, events>>
      BY <1>17 DEF ManualFinish
  <2>2. runs' \subseteq runs /\ \E s, phase, busy : Wrote(s, phase, busy)
      BY <1>17, ManualFinishDoes
  <2> QED BY <1>1, <2>1, <2>2, FewerRunsTyped, WroteTyped DEF TypeOK, RunsTyped
<1>18. CASE UNCHANGED vars
    BY <1>1, <1>18 DEF vars
<1> QED BY <1>3, <1>4, <1>5, <1>6, <1>7, <1>8, <1>9, <1>10, <1>11, <1>13, <1>14, <1>15,
           <1>16, <1>17, <1>18, TypedParts DEF Next, Background, Progress, TypeOK, RunsTyped

\* The types of the stores, the services and the runs; a run has a result
\* exactly when it is done, and has begun no later than now once it executes.
THEOREM TypeCorrect == Spec => []TypeOK
<1> QED BY TypeInit, TypeStep, PTL DEF Spec

-----------------------------------------------------------------------------
(* The invariant: as long as the gateway has had one service, a marker and   *)
(* a run in flight belong to each other, on disk and in memory, and the two  *)
(* stores agree on what no run changes.                                      *)

\* A marker belongs to a run in flight ...
Backed(store) ==
    \A j \in Jobs : store[j] # Absent /\ store[j].running # 0 => InFlight(runs, j)

\* ... and a run in flight to a marker that nobody has taken.
Guarded(store) ==
    \A j \in Jobs : InFlight(runs, j) /\ store[j] # Absent =>
        store[j].running # 0 \/ j \in excused
OneEach ==
    \A r1, r2 \in runs :
        r1.job = r2.job /\ r1.phase # "preflight" /\ r2.phase # "preflight" =>
            r1 = r2 \/ r1.job \in excused

\* The store in memory is ahead of the disk only in what a preflight repairs.
SameJobs(mem, store) ==
    \A j \in Jobs :
        /\ mem[j] = Absent <=> store[j] = Absent
        /\ store[j] # Absent =>
              /\ mem[j].enabled = store[j].enabled
              /\ store[j].enabled /\ store[j].next # 0 => mem[j].next = store[j].next

\* Only the first service has been started, by the gateway that runs.
Single ==
    /\ \A s \in Services : s # 1 => svc[s].phase = "unborn"
    /\ current = 0 => svc[1].phase = "unborn"
    /\ \A s \in Services : svc[s].running \/ svc[s].timer => Loaded(s)
    /\ \A r \in runs : r.svc = 1

CInv ==
    FirstService =>
        /\ Single /\ Guarded(disk) /\ OneEach
        /\ IF Loaded(1) THEN /\ Backed(disk) /\ Backed(svc[1].mem) /\ Guarded(svc[1].mem)
                             /\ SameJobs(svc[1].mem, disk)
           ELSE runs = {}

\* The runs and the markers that a step leaves fit each other.
RunsFit ==
    \A r1, r2 \in runs' :
        r1.job = r2.job /\ r1.phase # "preflight" /\ r2.phase # "preflight" =>
            r1 = r2 \/ r1.job \in excused
MarkersFit ==
    \A j \in Jobs : disk'[j] # Absent =>
        IF disk'[j].running # 0 THEN InFlight(runs', j)
        ELSE InFlight(runs', j) => InFlight(runs, j) /\ disk[j] # Absent

\* A step that writes the store keeps it, if it makes no second run of a job
\* with a marker, and leaves and takes no other marker than it may.
LEMMA WriteKeeps ==
    ASSUME TypeOK, CInv, FirstService, NEW phase, NEW busy,
           phase \notin {"unborn", "clear"}, current # 0, current' = current,
           Wrote(1, phase, busy), \A r \in runs' : r.svc = 1,
           MarkersFit, RunsFit
    PROVE  CInv'
<1>1. FirstService' /\ 1 \in Services
    BY CronAssumption DEF FirstService
<1>2. /\ svc'[1].mem = disk' /\ svc'[1].phase = phase
      /\ \A o \in Services : o # 1 => svc'[o] = svc[o]
      /\ excused' = {j \in excused \cup MarkerTaken(disk, disk') : InFlight(runs', j)}
    BY DEF Wrote
<1>3. Single'
    BY <1>1, <1>2 DEF CInv, Single, Loaded
<1>4. Guarded(disk)'
  <2> SUFFICES ASSUME NEW j \in Jobs, InFlight(runs', j), disk'[j] # Absent, disk'[j].running = 0
               PROVE  j \in excused'
      BY DEF Guarded
  <2>1. InFlight(runs, j) /\ disk[j] # Absent
      BY DEF MarkersFit
  <2>2. disk[j].running # 0 \/ j \in excused
      BY <2>1 DEF CInv, Guarded
  <2> QED BY <1>2, <2>1, <2>2 DEF MarkerTaken
<1>5. OneEach'
  <2> SUFFICES ASSUME NEW r1 \in runs', NEW r2 \in runs', r1.job = r2.job, r1 # r2,
                      r1.phase # "preflight", r2.phase # "preflight"
               PROVE  r1.job \in excused'
      BY DEF OneEach
  <2>1. r1.job \in excused /\ InFlight(runs', r1.job)
      BY DEF InFlight, RunsFit
  <2> QED BY <1>2, <2>1
<1>6. Backed(disk)'
    BY DEF Backed, MarkersFit
<1>7. Loaded(1)'
    BY <1>2 DEF Loaded
<1>8. SameJobs(svc[1].mem, disk)'
    BY <1>2 DEF SameJobs
<1>9. Backed(svc[1].mem)' /\ Guarded(svc[1].mem)'
    BY <1>2, <1>4, <1>6 DEF Backed, Guarded
<1> QED BY <1>3, <1>4, <1>5, <1>6, <1>7, <1>8, <1>9 DEF CInv

LEMMA Where ==
    ASSUME TypeOK, CInv, FirstService
    PROVE  /\ 1 \in Services /\ current \in {0, 1}
           /\ \A s \in Services : Loaded(s) \/ svc[s].phase # "unborn" => s = 1 /\ current = 1
           /\ \A r \in runs : r.svc = 1 /\ Loaded(1)
<1>1. 1 \in Services /\ current \in {0, 1}
    BY CronAssumption DEF TypeOK, FirstService
<1> QED BY <1>1 DEF CInv, Single, Loaded

\* A run that goes on stays in flight.
LEMMA SameFlights ==
    ASSUME OneEach, NEW run \in runs, NEW r, run.phase # "preflight", r.phase # "preflight",
           r.job = run.job, r.svc = run.svc, runs' = (runs \ {run}) \cup {r}
    PROVE  /\ \A j \in Jobs : InFlight(runs', j) <=> InFlight(runs, j)
           /\ RunsFit
           /\ \A q \in runs' : \E p \in runs : q.svc = p.svc
<1>1. \A j \in Jobs : InFlight(runs', j) <=> InFlight(runs, j)
    BY DEF InFlight
<1>2. ASSUME NEW r1 \in runs', NEW r2 \in runs', r1.job = r2.job, r1 # r2,
             r1.phase # "preflight", r2.phase # "preflight"
      PROVE  r1.job \in excused
    BY <1>2 DEF OneEach
<1> QED BY <1>1, <1>2 DEF RunsFit

\* Runs that end, and requests of runs that come and go, take no run's marker.
LEMMA FewerFlights ==
    ASSUME OneEach, runs' \subseteq runs
    PROVE  /\ \A j \in Jobs : InFlight(runs', j) => InFlight(runs, j)
           /\ RunsFit
    BY DEF InFlight, OneEach, RunsFit

\* Jobs without a marker are reserved once each.
NewRuns(by, first) == {NewRun(1, j, by) : j \in first}

LEMMA NewFlights ==
    ASSUME OneEach, NEW by, NEW first \in SUBSET Jobs, NEW store,
           runs' = runs \cup NewRuns(by, first),
           Guarded(store), \A j \in first : store[j] # Absent /\ store[j].running = 0
    PROVE  /\ \A j \in Jobs : InFlight(runs', j) <=> j \in first \/ InFlight(runs, j)
           /\ RunsFit
<1>1. \A j : NewRun(1, j, by).job = j /\ NewRun(1, j, by).phase = "queued"
    BY DEF NewRun
<1>2. \A r \in runs' : r \in runs \/ (r.job \in first /\ r = NewRun(1, r.job, by))
    BY <1>1 DEF NewRuns
<1>3. \A j \in Jobs : InFlight(runs', j) <=> j \in first \/ InFlight(runs, j)
  <2>1. ASSUME NEW j \in Jobs, InFlight(runs', j)
        PROVE  j \in first \/ InFlight(runs, j)
      BY <1>2, <2>1 DEF InFlight
  <2>2. ASSUME NEW j \in first
        PROVE  InFlight(runs', j)
    <3>1. NewRun(1, j, by) \in runs' /\ NewRun(1, j, by).phase # "preflight"
          /\ NewRun(1, j, by).job = j
        BY <1>1 DEF NewRuns
    <3> QED BY <3>1 DEF InFlight
  <2>3. ASSUME NEW j \in Jobs, InFlight(runs, j)
        PROVE  InFlight(runs', j)
      BY <2>3 DEF InFlight
  <2> QED BY <2>1, <2>2, <2>3
<1>4. ASSUME NEW j \in first, InFlight(runs, j)
      PROVE  j \in excused
    BY <1>4 DEF Guarded
<1>5. ASSUME NEW r1 \in runs', NEW r2 \in runs', r1.job = r2.job, r1 # r2,
             r1.phase # "preflight", r2.phase # "preflight"
      PROVE  r1.job \in excused
  <2>1. CASE r1 \in runs /\ r2 \in runs
      BY <1>5, <2>1 DEF OneEach
  <2>2. CASE r1 \in runs /\ r2 \notin runs
    <3>1. r2.job \in first /\ InFlight(runs, r2.job)
        BY <1>2, <1>5, <2>2 DEF InFlight
    <3> QED BY <1>4, <1>5, <3>1
  <2>3. CASE r1 \notin runs /\ r2 \in runs
    <3>1. r1.job \in first /\ InFlight(runs, r1.job)
        BY <1>2, <1>5, <2>3 DEF InFlight
    <3> QED BY <1>4, <3>1
  <2>4. CASE r1 \notin runs /\ r2 \notin runs
      BY <1>2, <1>5, <2>4
  <2> QED BY <2>1, <2>2, <2>3, <2>4
<1> QED BY <1>3, <1>5 DEF RunsFit

\* No marker of one store is new with respect to another.
MarkersOf(new, old) ==
    \A j \in Jobs : new[j] # Absent => old[j] # Absent /\ new[j].running \in {0, old[j].running}

LEMMA MarkersKeep ==
    ASSUME TypeOK, CInv, FirstService, NEW phase, NEW busy,
           phase \notin {"unborn", "clear"}, current # 0, current' = current,
           Wrote(1, phase, busy), runs' \subseteq runs,
           NEW store, MarkersOf(disk', store), Backed(store),
           \A j \in Jobs : disk'[j] # Absent => disk[j] # Absent,
           \A r \in runs \ runs' : disk'[r.job] # Absent => disk'[r.job].running = 0
    PROVE  CInv'
<1>1. Single /\ OneEach
    BY DEF CInv
<1>2. \A r \in runs' : r.svc = 1
    BY <1>1 DEF Single
<1>3. \A j \in Jobs : InFlight(runs', j) => InFlight(runs, j)
    BY <1>1, FewerFlights
<1>4. ASSUME NEW j \in Jobs, disk'[j] # Absent, disk'[j].running # 0
      PROVE  InFlight(runs', j)
  <2>1. store[j] # Absent /\ store[j].running # 0
      BY <1>4 DEF MarkersOf
  <2>2. PICK r \in runs : r.job = j /\ r.phase # "preflight"
      BY <2>1 DEF Backed, InFlight
  <2>3. r \in runs'
      BY <1>4, <2>2
  <2> QED BY <2>2, <2>3 DEF InFlight
<1>5. RunsFit
    BY <1>1, FewerFlights
<1>6. MarkersFit
    BY <1>3, <1>4 DEF MarkersFit
<1> QED BY <1>2, <1>5, <1>6, WriteKeeps

LEMMA StartsKeep ==
    ASSUME TypeOK, CInv, FirstService, NEW s \in Services, Starts(s)
    PROVE  CInv'
<1>1. s = 1 /\ current = 1 /\ current' = current
  <2>1. svc[s].phase # "unborn" /\ current' = current
      BY DEF Starts, StartClear, StartPlanNothing, StartPlan, StartApply, StartFinal
  <2> QED BY <2>1, Where
<1>2. Single /\ OneEach
    BY DEF CInv
<1>3. CASE StartClear(s)
  <2>1. runs = {}
      BY <1>1, <1>3 DEF StartClear, CInv, Loaded
  <2>2. Wrote(1, "plan", svc[1].running) /\ runs' = {}
        /\ \A j \in Jobs : disk'[j] # Absent => disk'[j].running = 0
      BY <1>1, <1>3, <2>1, StartClearDoes
  <2>3. \A j \in Jobs : ~InFlight(runs', j)
      BY <2>2 DEF InFlight
  <2>4. /\ "plan" \notin {"unborn", "clear"} /\ \A r \in runs' : r.svc = 1
        /\ RunsFit /\ MarkersFit
      BY <2>2, <2>3 DEF RunsFit, MarkersFit
  <2> QED BY <1>1, <2>2, <2>4, WriteKeeps
<1>4. CASE StartPlanNothing(s)
  <2>1. /\ svc' = [svc EXCEPT ![1].phase = "final", ![1].skip = {}]
        /\ svc[1].phase = "plan" /\ UNCHANGED <<disk, runs, excused>>
      BY <1>1, <1>4 DEF StartPlanNothing
  <2>2. svc \in [Services -> ServiceObjects] /\ 1 \in Services
      BY Where DEF TypeOK
  <2>3. /\ svc'[1].phase = "final" /\ svc'[1].mem = svc[1].mem
        /\ svc'[1].running = svc[1].running /\ svc'[1].timer = svc[1].timer
        /\ \A o \in Services : o # 1 => svc'[o] = svc[o]
      BY <2>1, <2>2 DEF ServiceObjects
  <2>4. Loaded(1) /\ Loaded(1)'
      BY <2>1, <2>3 DEF Loaded
  <2>5. Single'
      BY <1>1, <1>2, <2>1, <2>3, <2>4 DEF Single, Loaded
  <2>6. Guarded(disk)' /\ OneEach' /\ Backed(disk)'
      BY <2>1, <2>4 DEF CInv, Guarded, OneEach, Backed
  <2>7. Guarded(svc[1].mem)' /\ Backed(svc[1].mem)' /\ SameJobs(svc[1].mem, disk)'
      BY ZenonT(30), <2>1, <2>3, <2>4 DEF CInv, Guarded, Backed, SameJobs
  <2> QED BY <2>4, <2>5, <2>6, <2>7 DEF CInv
<1>5. CASE StartPlan(s)
  <2>1. PICK first \in SUBSET Jobs :
              /\ Wrote(1, "catchup", svc[1].running)
              /\ runs' = runs \cup NewRuns("catchup", first)
              /\ \A j \in first : svc[1].mem[j] # Absent /\ svc[1].mem[j].running = 0
              /\ \A j \in Jobs :
                    /\ disk'[j] # Absent =>
                          /\ svc[1].mem[j] # Absent
                          /\ disk'[j].running = IF j \in first THEN now ELSE svc[1].mem[j].running
      BY <1>1, <1>5, StartPlanDoes DEF NewRuns
  <2>2. Loaded(1)
      BY <1>1, <1>5 DEF StartPlan, Loaded
  <2>3. Guarded(svc[1].mem) /\ Backed(svc[1].mem) /\ SameJobs(svc[1].mem, disk)
      BY <2>2 DEF CInv
  <2>4. /\ \A j \in Jobs : InFlight(runs', j) <=> j \in first \/ InFlight(runs, j)
        /\ RunsFit
      BY <1>2, <2>1, <2>3, NewFlights
  <2>5. \A r \in runs' : r.svc = 1
      BY <1>2, <2>1 DEF Single, NewRuns, NewRun
  <2>6. ASSUME NEW j \in Jobs, disk'[j] # Absent
        PROVE  IF disk'[j].running # 0 THEN InFlight(runs', j)
               ELSE InFlight(runs', j) => InFlight(runs, j) /\ disk[j] # Absent
    <3>1. svc[1].mem[j] # Absent /\ disk[j] # Absent /\ now # 0
        BY <2>1, <2>3, <2>6, Numbers DEF SameJobs, TypeOK
    <3>2. CASE j \in first
        BY <2>1, <2>4, <2>6, <3>1, <3>2
    <3>3. CASE j \notin first
        BY <2>1, <2>3, <2>4, <2>6, <3>1, <3>3 DEF Backed
    <3> QED BY <3>2, <3>3
  <2>7. Wrote(1, "catchup", svc[1].running) /\ RunsFit /\ MarkersFit
      BY <2>1, <2>4, <2>6 DEF MarkersFit
  <2> QED BY <1>1, <2>5, <2>7, WriteKeeps
<1>6. CASE StartApply(s)
  <2>1. /\ Wrote(1, "final", svc[1].running) /\ LeftOf(disk', disk)
        /\ runs' = runs \ RunsOf(1, "catchup")
        /\ \A r \in RunsOf(1, "catchup") : disk'[r.job] # Absent => disk'[r.job].running = 0
      BY <1>1, <1>6, StartApplyDoes
  <2>2. Backed(disk)
      BY <1>1, <1>6 DEF StartApply, Loaded, CInv
  <2>3. MarkersOf(disk', disk)
      BY <2>1 DEF MarkersOf, LeftOf
  <2>4. /\ \A j \in Jobs : disk'[j] # Absent => disk[j] # Absent
        /\ \A r \in runs \ runs' : disk'[r.job] # Absent => disk'[r.job].running = 0
        /\ runs' \subseteq runs
      BY <2>1 DEF LeftOf
  <2> QED BY <1>1, <2>1, <2>2, <2>3, <2>4, MarkersKeep
<1>7. CASE StartFinal(s)
  <2>1. Wrote(1, "up", svc[1].running) /\ LeftOf(disk', disk) /\ runs' = runs
      BY <1>1, <1>7, StartFinalDoes
  <2>2. Backed(disk)
      BY <1>1, <1>7 DEF StartFinal, Loaded, CInv
  <2>3. MarkersOf(disk', disk)
      BY <2>1 DEF MarkersOf, LeftOf
  <2>4. /\ \A j \in Jobs : disk'[j] # Absent => disk[j] # Absent
        /\ \A r \in runs \ runs' : disk'[r.job] # Absent => disk'[r.job].running = 0
        /\ runs' \subseteq runs
      BY <2>1 DEF LeftOf
  <2> QED BY <1>1, <2>1, <2>2, <2>3, <2>4, MarkersKeep
<1> QED BY <1>3, <1>4, <1>5, <1>6, <1>7 DEF Starts

LEMMA TicksKeep ==
    ASSUME TypeOK, CInv, FirstService, NEW s \in Services, TimerFires(s) \/ TickApply(s)
    PROVE  CInv'
<1>1. Single /\ OneEach /\ Guarded(disk)
    BY DEF CInv
<1>2. Loaded(s)
    BY <1>1 DEF Single, TimerFires, TickApply
<1>3. s = 1 /\ current = 1 /\ current' = current
    BY <1>2, Where DEF TimerFires, TickApply
<1>4. Backed(disk) /\ svc[1].phase \notin {"unborn", "clear"}
    BY <1>2, <1>3 DEF CInv, Loaded
<1>5. CASE TimerFires(s)
  <2>1. PICK due \in SUBSET Jobs, busy \in BOOLEAN :
              /\ Wrote(1, svc[1].phase, busy)
              /\ runs' = runs \cup NewRuns("tick", due)
              /\ \A j \in due : disk[j] # Absent /\ disk[j].running = 0
              /\ \A j \in Jobs : disk'[j] # Absent =>
                    /\ disk[j] # Absent
                    /\ IF j \in due THEN disk'[j].running = now
                                    ELSE disk'[j].running \in {0, disk[j].running}
      BY <1>3, <1>5, TimerFiresDoes DEF NewRuns
  <2>2. /\ \A j \in Jobs : InFlight(runs', j) <=> j \in due \/ InFlight(runs, j)
        /\ RunsFit
      BY <1>1, <2>1, NewFlights
  <2>3. \A r \in runs' : r.svc = 1
      BY <1>1, <2>1 DEF Single, NewRuns, NewRun
  <2>4. ASSUME NEW j \in Jobs, disk'[j] # Absent
        PROVE  IF disk'[j].running # 0 THEN InFlight(runs', j)
               ELSE InFlight(runs', j) => InFlight(runs, j) /\ disk[j] # Absent
    <3>1. disk[j] # Absent /\ now # 0
        BY <2>1, <2>4, Numbers DEF TypeOK
    <3>2. CASE j \in due
        BY <2>1, <2>2, <2>4, <3>1, <3>2
    <3>3. CASE j \notin due
        BY <1>4, <2>1, <2>2, <2>4, <3>1, <3>3 DEF Backed
    <3> QED BY <3>2, <3>3
  <2>5. Wrote(1, svc[1].phase, busy) /\ RunsFit /\ MarkersFit
      BY <2>1, <2>2, <2>4 DEF MarkersFit
  <2> QED BY <1>3, <1>4, <2>3, <2>5, WriteKeeps
<1>6. CASE TickApply(s)
  <2>1. /\ Wrote(1, svc[1].phase, FALSE) /\ LeftOf(disk', disk)
        /\ runs' = runs \ RunsOf(1, "tick")
        /\ \A r \in RunsOf(1, "tick") : disk'[r.job] # Absent => disk'[r.job].running = 0
      BY <1>3, <1>6, TickApplyDoes
  <2>2. MarkersOf(disk', disk)
      BY <2>1 DEF MarkersOf, LeftOf
  <2>3. /\ \A j \in Jobs : disk'[j] # Absent => disk[j] # Absent
        /\ \A r \in runs \ runs' : disk'[r.job] # Absent => disk'[r.job].running = 0
        /\ runs' \subseteq runs
      BY <2>1 DEF LeftOf
  <2>4. PICK busy \in BOOLEAN : Wrote(1, svc[1].phase, busy)
      BY <2>1
  <2> QED BY <1>3, <1>4, <2>2, <2>3, <2>4, MarkersKeep
<1> QED BY <1>5, <1>6

LEMMA ServingFirst ==
    ASSUME TypeOK, CInv, FirstService, Serving
    PROVE  /\ current = 1 /\ svc[1].phase \notin {"unborn", "clear"} /\ Loaded(1)
           /\ Single /\ OneEach /\ Guarded(disk) /\ Backed(disk)
           /\ Guarded(svc[1].mem) /\ Backed(svc[1].mem) /\ SameJobs(svc[1].mem, disk)
<1>1. current = 1 /\ Loaded(1)
    BY Where DEF Serving
<1> QED BY <1>1 DEF CInv, Loaded

\* What was written from memory is no more than what was on disk.
LEMMA FromMemory ==
    ASSUME SameJobs(svc[1].mem, disk), MarkersOf(disk', svc[1].mem)
    PROVE  \A j \in Jobs : disk'[j] # Absent => disk[j] # Absent
    BY DEF SameJobs, MarkersOf

LEMMA EditsKeep ==
    ASSUME TypeOK, CInv, FirstService, Edit \/ Read
    PROVE  CInv'
<1>1. /\ Serving /\ current' = current /\ runs' = runs
    BY AddJobDoes, UpdateJobDoes, UpdateOtherDoes, RemoveJobDoes, ReadDoes
       DEF Edit, EditStarted, Read
<1>2. /\ current = 1 /\ svc[1].phase \notin {"unborn", "clear"} /\ OneEach /\ Single
      /\ Backed(svc[1].mem) /\ SameJobs(svc[1].mem, disk)
    BY <1>1, ServingFirst
<1>3. CASE \E phase, busy : Wrote(1, phase, busy) /\ phase = svc[1].phase /\ MarkersOf(disk', svc[1].mem)
  <2>1. PICK busy : Wrote(1, svc[1].phase, busy)
      BY <1>3
  <2>2. \A j \in Jobs : disk'[j] # Absent => disk[j] # Absent
      BY <1>2, <1>3, FromMemory
  <2>3. /\ runs' \subseteq runs /\ MarkersOf(disk', svc[1].mem)
        /\ \A r \in runs \ runs' : disk'[r.job] # Absent => disk'[r.job].running = 0
      BY <1>1, <1>3
  <2> QED BY <1>1, <1>2, <2>1, <2>2, <2>3, MarkersKeep
<1>4. ASSUME NEW j \in Jobs, NEW at \in AtTimes, AddJob(j, at)
      PROVE  CInv'
  <2>1. /\ Fresh(j) /\ Wrote(1, svc[1].phase, svc[1].running)
        /\ \A k \in Jobs : disk'[k] # Absent =>
              IF k = j THEN disk'[k].running = 0
              ELSE svc[1].mem[k] # Absent /\ disk'[k].running \in {0, svc[1].mem[k].running}
      BY <1>2, <1>4, AddJobDoes
  <2>2. ~InFlight(runs, j) /\ \A k \in Jobs : InFlight(runs', k) <=> InFlight(runs, k)
      BY <1>1, <2>1 DEF Fresh, InFlight
  <2>3. MarkersFit
    <3>1. ASSUME NEW k \in Jobs, disk'[k] # Absent
          PROVE  IF disk'[k].running # 0 THEN InFlight(runs, k)
                 ELSE InFlight(runs, k) => disk[k] # Absent
      <4>1. CASE k = j
          BY <2>1, <2>2, <3>1, <4>1
      <4>2. CASE k # j
          BY <1>2, <2>1, <3>1, <4>2 DEF Backed, SameJobs
      <4> QED BY <4>1, <4>2
    <3> QED BY <2>2, <3>1 DEF MarkersFit
  <2>4. RunsFit /\ \A r \in runs' : r.svc = 1
      BY <1>1, <1>2, FewerFlights DEF Single
  <2> QED BY <1>1, <1>2, <2>1, <2>3, <2>4, WriteKeeps
<1>5. ASSUME NEW j \in Jobs,
             \/ \E enabled \in BOOLEAN, at \in AtTimes \cup {0} : UpdateJob(j, enabled, at)
             \/ UpdateOther(j) \/ RemoveJob(j)
      PROVE  /\ Wrote(1, svc[1].phase, svc[1].running) /\ MarkersOf(disk', svc[1].mem)
    BY <1>2, <1>5, UpdateJobDoes, UpdateOtherDoes, RemoveJobDoes DEF MarkersOf
<1>6. CASE Read
  <2>1. Wrote(1, svc[1].phase, svc[1].running) /\ LeftOf(disk', svc[1].mem)
      BY <1>2, <1>6, ReadDoes
  <2> QED BY <1>3, <2>1 DEF LeftOf, MarkersOf
<1> QED BY <1>3, <1>4, <1>5, <1>6 DEF Edit

\* A preflight takes markers in memory only, and no run's without excusing it.
LEMMA PreflightKeeps ==
    ASSUME TypeOK, CInv, FirstService, Serving, Preflight, current' = current, disk' = disk,
           \A j \in Jobs : InFlight(runs', j) <=> InFlight(runs, j),
           RunsFit, \A r \in runs' : r.svc = 1
    PROVE  CInv'
<1>1. /\ current = 1 /\ Loaded(1) /\ Single
      /\ Guarded(disk) /\ Backed(disk)
      /\ Guarded(svc[1].mem) /\ Backed(svc[1].mem) /\ SameJobs(svc[1].mem, disk)
    BY ServingFirst
<1>2. /\ svc'[1].phase = svc[1].phase /\ svc'[1].running = svc[1].running
      /\ svc'[1].timer = svc[1].timer
      /\ \A o \in Services : o # 1 => svc'[o] = svc[o]
      /\ excused' = excused \cup MarkerTaken(svc[1].mem, svc'[1].mem)
      /\ \A j \in Jobs :
            /\ svc'[1].mem[j] = Absent <=> svc[1].mem[j] = Absent
            /\ svc[1].mem[j] # Absent =>
                  /\ svc'[1].mem[j].enabled = svc[1].mem[j].enabled
                  /\ svc'[1].mem[j].running \in {0, svc[1].mem[j].running}
                  /\ \/ ~svc[1].mem[j].enabled \/ svc[1].mem[j].next = 0
                     \/ svc'[1].mem[j].next = svc[1].mem[j].next
    BY <1>1, PreflightDoes
<1>3. Loaded(1)' /\ Single'
    BY <1>1, <1>2 DEF Loaded, Single
<1>4. excused \subseteq excused'
    BY <1>2
<1>5. Guarded(disk)' /\ Backed(disk)' /\ OneEach'
    BY <1>1, <1>4 DEF Guarded, Backed, OneEach, RunsFit
<1>6. Backed(svc[1].mem)'
    BY <1>1, <1>2 DEF Backed
<1>7. Guarded(svc[1].mem)'
  <2> SUFFICES ASSUME NEW j \in Jobs, InFlight(runs', j), svc'[1].mem[j] # Absent,
                      svc'[1].mem[j].running = 0
               PROVE  j \in excused'
      BY DEF Guarded
  <2>1. svc[1].mem[j] # Absent
      BY <1>2
  <2>2. svc[1].mem[j].running # 0 \/ j \in excused
      BY <1>1, <2>1 DEF Guarded
  <2> QED BY <1>2, <2>1, <2>2 DEF MarkerTaken
<1>8. SameJobs(svc[1].mem, disk)'
    BY <1>1, <1>2 DEF SameJobs
<1> QED BY <1>3, <1>5, <1>6, <1>7, <1>8 DEF CInv

LEMMA PreflightsKeep ==
    ASSUME TypeOK, CInv, FirstService,
           Inspect \/ \E j \in Jobs, forced \in BOOLEAN : ManualPreflight(j, forced)
    PROVE  CInv'
<1>1. Serving /\ Preflight /\ current' = current /\ disk' = disk
    BY DEF Inspect, ManualPreflight
<1>2. OneEach /\ Single /\ current = 1
    BY <1>1, ServingFirst
<1>3. CASE runs' = runs
  <2>1. RunsFit /\ \A r \in runs' : r.svc = 1
      BY <1>2, <1>3, FewerFlights DEF Single
  <2> QED BY <1>1, <1>3, <2>1, PreflightKeeps
<1>4. ASSUME NEW j \in Jobs, NEW forced \in BOOLEAN, ManualPreflight(j, forced)
      PROVE  CInv'
  <2> DEFINE r == [NewRun(current, j, "manual") EXCEPT
                       !.phase = "preflight", !.since = now, !.forced = forced]
  <2>1. runs' = runs \cup {r}
      BY <1>4 DEF ManualPreflight
  <2>2. r.phase = "preflight" /\ r.svc = 1
      BY <1>2 DEF NewRun
  <2> HIDE DEF r
  <2>3. \A k \in Jobs : InFlight(runs', k) <=> InFlight(runs, k)
      BY <2>1, <2>2 DEF InFlight
  <2>4. RunsFit /\ \A q \in runs' : q.svc = 1
      BY <1>2, <2>1, <2>2 DEF RunsFit, OneEach, Single
  <2> QED BY <1>1, <2>3, <2>4, PreflightKeeps
<1> QED BY <1>3, <1>4 DEF Inspect

LEMMA RunGoesOn ==
    ASSUME TypeOK, CInv, FirstService, NEW run \in runs, NEW r,
           run.phase # "preflight", r.phase # "preflight", r.job = run.job, r.svc = run.svc,
           runs' = (runs \ {run}) \cup {r}, UNCHANGED <<disk, current, excused>>,
           svc'[1].phase = svc[1].phase, svc'[1].running = svc[1].running,
           svc'[1].timer = svc[1].timer, \A o \in Services : o # 1 => svc'[o] = svc[o],
           \A j \in Jobs :
              \/ svc'[1].mem[j] = svc[1].mem[j]
              \/ /\ j = run.job /\ svc[1].mem[j] # Absent /\ svc'[1].mem[j] # Absent
                 /\ svc'[1].mem[j].running # 0
                 /\ svc'[1].mem[j].enabled = svc[1].mem[j].enabled
                 /\ svc'[1].mem[j].next = svc[1].mem[j].next
    PROVE  CInv'
<1>1. Loaded(1) /\ 1 \in Services
    BY Where
<1>2. /\ Single /\ OneEach /\ Guarded(disk) /\ Backed(disk)
      /\ Guarded(svc[1].mem) /\ Backed(svc[1].mem) /\ SameJobs(svc[1].mem, disk)
    BY <1>1 DEF CInv
<1>3. (\A j \in Jobs : InFlight(runs', j) <=> InFlight(runs, j)) /\ RunsFit
    BY <1>2, SameFlights
<1>4. Loaded(1)' /\ Single'
    BY <1>1, <1>2 DEF Loaded, Single
<1>5. Guarded(disk)' /\ Backed(disk)' /\ OneEach'
    BY <1>2, <1>3 DEF Guarded, Backed, OneEach, RunsFit
<1>6. InFlight(runs, run.job)
    BY DEF InFlight
<1>7. Backed(svc[1].mem)'
    BY <1>2, <1>3, <1>6 DEF Backed
<1>8. Guarded(svc[1].mem)'
    BY <1>2, <1>3 DEF Guarded
<1>9. SameJobs(svc[1].mem, disk)'
    BY <1>2 DEF SameJobs
<1> QED BY <1>4, <1>5, <1>7, <1>8, <1>9 DEF CInv

LEMMA RunsKeep ==
    ASSUME TypeOK, CInv, FirstService, NEW run \in runs, Progress(run)
    PROVE  CInv'
<1>1. /\ current = 1 /\ Loaded(1) /\ Single /\ OneEach /\ Guarded(disk) /\ Backed(disk)
      /\ svc[1].phase \notin {"unborn", "clear"}
      /\ Guarded(svc[1].mem) /\ Backed(svc[1].mem) /\ SameJobs(svc[1].mem, disk)
    BY Where DEF CInv, Loaded
<1>2. run.svc = 1 /\ run.job \in Jobs /\ run \in Runs /\ now \in Nat /\ now # 0
    BY Where, Numbers DEF TypeOK, Runs
<1>3. CASE TickStart(run)
  <2> DEFINE r == [run EXCEPT !.phase = "executing", !.since = now]
  <2>1. /\ run.phase = "queued" /\ runs' = (runs \ {run}) \cup {r}
        /\ UNCHANGED <<disk, current, excused>>
      BY <1>3 DEF TickStart
  <2>2. r.phase = "executing" /\ r.job = run.job /\ r.svc = run.svc
      BY <1>2 DEF Runs
  <2> HIDE DEF r
  <2> QED BY <1>2, <1>3, <2>1, <2>2, TickStartDoes, RunGoesOn
<1>4. CASE CatchupStart(run)
  <2> DEFINE r == [run EXCEPT !.phase = "executing", !.since = now]
  <2>1. /\ run.phase = "queued" /\ runs' = (runs \ {run}) \cup {r}
        /\ UNCHANGED <<disk, current, excused, svc>>
      BY <1>4 DEF CatchupStart
  <2>2. r.phase = "executing" /\ r.job = run.job /\ r.svc = run.svc
      BY <1>2 DEF Runs
  <2> HIDE DEF r
  <2> QED BY <2>1, <2>2, RunGoesOn
<1>5. ASSUME NEW result \in Outcomes, RunEnds(run, result)
      PROVE  CInv'
  <2> DEFINE r == [run EXCEPT !.phase = "done", !.result = result, !.ended = now]
  <2>1. /\ run.phase = "executing" /\ runs' = (runs \ {run}) \cup {r}
        /\ UNCHANGED <<disk, current, excused, svc>>
      BY <1>5 DEF RunEnds
  <2>2. r.phase = "done" /\ r.job = run.job /\ r.svc = run.svc
      BY <1>2 DEF Runs
  <2> HIDE DEF r
  <2> QED BY <2>1, <2>2, RunGoesOn
<1>6. CASE ManualReserve(run)
  <2> DEFINE r == [run EXCEPT !.phase = "executing"]
             i == run.job
  <2>1. /\ Wrote(1, svc[1].phase, svc[1].running) /\ run.phase = "preflight"
        /\ svc[1].mem[i] # Absent /\ svc[1].mem[i].running = 0
        /\ runs' = (runs \ {run}) \cup {r}
        /\ disk'[i] # Absent /\ disk'[i].running = run.since
        /\ \A k \in Jobs : k # i => disk'[k] = svc[1].mem[k]
      BY <1>2, <1>6, ManualReserveDoes
  <2>2. current' = current /\ run.since # 0
      BY <1>6, <2>1 DEF ManualReserve, TypeOK
  <2>3. r.phase = "executing" /\ r.job = i /\ r.svc = 1
      BY <1>2 DEF Runs
  <2> HIDE DEF r
  <2>4. \A k \in Jobs : InFlight(runs', k) <=> k = i \/ InFlight(runs, k)
      BY <2>1, <2>3 DEF InFlight
  <2>5. MarkersFit
    <3>1. ASSUME NEW k \in Jobs, disk'[k] # Absent
          PROVE  IF disk'[k].running # 0 THEN InFlight(runs', k)
                 ELSE InFlight(runs', k) => InFlight(runs, k) /\ disk[k] # Absent
      <4>1. CASE k = i
          BY <2>1, <2>2, <2>4, <4>1
      <4>2. CASE k # i
          BY <1>1, <2>1, <2>4, <3>1, <4>2 DEF Backed, SameJobs
      <4> QED BY <4>1, <4>2
    <3> QED BY <3>1 DEF MarkersFit
  <2>6. RunsFit
    <3>1. ASSUME NEW q \in runs, q.job = i, q.phase # "preflight"
          PROVE  i \in excused
        BY <1>1, <1>2, <2>1, <3>1 DEF Guarded, InFlight
    <3>2. ASSUME NEW r1 \in runs', NEW r2 \in runs', r1.job = r2.job, r1 # r2,
                 r1.phase # "preflight", r2.phase # "preflight"
          PROVE  r1.job \in excused
      <4>1. CASE r1 = r
          BY <2>1, <2>3, <3>1, <3>2, <4>1
      <4>2. CASE r2 = r
          BY <2>1, <2>3, <3>1, <3>2, <4>2
      <4>3. CASE r1 # r /\ r2 # r
          BY <1>1, <2>1, <3>2, <4>3 DEF OneEach
      <4> QED BY <4>1, <4>2, <4>3
    <3> QED BY <3>2 DEF RunsFit
  <2>7. \A q \in runs' : q.svc = 1
      BY <1>1, <2>1, <2>3 DEF Single
  <2> QED BY <1>1, <2>1, <2>2, <2>5, <2>6, <2>7, WriteKeeps
<1>7. CASE ManualFinish(run)
  <2>1. /\ Wrote(1, svc[1].phase, svc[1].running) /\ runs' = runs \ {run}
        /\ \A j \in Jobs : disk'[j] # Absent =>
              /\ disk[j] # Absent
              /\ IF j = run.job THEN disk'[j].running = 0
                                ELSE disk'[j].running \in {0, disk[j].running}
      BY <1>2, <1>7, ManualFinishDoes
  <2>2. current' = current
      BY <1>7 DEF ManualFinish
  <2>3. MarkersOf(disk', disk)
      BY <2>1 DEF MarkersOf
  <2>4. /\ \A j \in Jobs : disk'[j] # Absent => disk[j] # Absent
        /\ \A q \in runs \ runs' : disk'[q.job] # Absent => disk'[q.job].running = 0
        /\ runs' \subseteq runs
      BY <1>2, <2>1
  <2> QED BY <1>1, <2>1, <2>2, <2>3, <2>4, MarkersKeep
<1>8. CASE ManualRefused(run) \/ ManualDropped(run)
  <2>1. /\ runs' = runs \ {run} /\ UNCHANGED <<disk, svc, current, excused>>
        /\ run.phase = "preflight" \/ disk[run.job] = Absent
      BY <1>1, <1>2, <1>8 DEF ManualRefused, ManualDropped, SameJobs
  <2>2. /\ \A j \in Jobs : InFlight(runs', j) => InFlight(runs, j)
        /\ \A j \in Jobs : disk[j] # Absent /\ InFlight(runs, j) => InFlight(runs', j)
      BY <2>1 DEF InFlight
  <2>3. Backed(disk)' /\ Guarded(disk)'
      BY <1>1, <2>1, <2>2 DEF Backed, Guarded
  <2>4. Backed(svc[1].mem)' /\ Guarded(svc[1].mem)'
      BY <1>1, <2>1, <2>2 DEF Backed, Guarded, SameJobs
  <2>5. OneEach' /\ Single' /\ Loaded(1)' /\ SameJobs(svc[1].mem, disk)'
      BY <1>1, <2>1 DEF OneEach, Single, Loaded, SameJobs
  <2> QED BY <2>3, <2>4, <2>5 DEF CInv
<1> QED BY <1>3, <1>4, <1>5, <1>6, <1>7, <1>8 DEF Progress

LEMMA CInvInit == Init => CInv
<1> SUFFICES ASSUME Init PROVE CInv
    OBVIOUS
<1>1. \A s \in Services : svc[s].phase = "unborn" /\ ~svc[s].running /\ ~svc[s].timer
    BY DEF Init, Unborn
<1>2. runs = {} /\ 1 \in Services
    BY CronAssumption DEF Init
<1> QED BY <1>1, <1>2 DEF CInv, Single, Guarded, OneEach, InFlight, Loaded

LEMMA CInvStep == TypeOK /\ CInv /\ [Next]_vars => CInv'
<1> SUFFICES ASSUME TypeOK, CInv, [Next]_vars, FirstService' PROVE CInv'
    BY DEF CInv
<1>1. 1 \in Services /\ current \in Services \cup {0} /\ Services \subseteq Nat \ {0}
      /\ svc \in [Services -> ServiceObjects]
    BY CronAssumption DEF TypeOK
<1>2. CASE Crash
  <2>1. /\ \A s \in Services : svc'[s].phase = "unborn" /\ ~svc'[s].running /\ ~svc'[s].timer
        /\ runs' = {}
      BY <1>2 DEF Crash, Unborn
  <2> QED BY <1>1, <2>1 DEF CInv, Single, Guarded, OneEach, InFlight, Loaded
<1>3. CASE Boot
  <2>1. /\ FirstService /\ UNCHANGED <<disk, runs, excused>>
        /\ current = 0 /\ current' = 1 /\ svc' = [svc EXCEPT ![1].phase = "clear"]
      BY <1>3 DEF Boot, FirstService
  <2>2. runs = {} /\ Single /\ svc[1].phase = "unborn"
      BY <2>1 DEF CInv, Single, Loaded
  <2>3. /\ svc'[1].phase = "clear" /\ svc'[1].running = svc[1].running
        /\ svc'[1].timer = svc[1].timer /\ \A s \in Services : s # 1 => svc'[s] = svc[s]
      BY <1>1, <2>1 DEF ServiceObjects
  <2>4. Single'
      BY <1>1, <2>1, <2>2, <2>3 DEF Single, Loaded
  <2>5. ~Loaded(1)' /\ runs' = {}
      BY <2>1, <2>2, <2>3 DEF Loaded
  <2> QED BY <2>4, <2>5 DEF CInv, Guarded, OneEach, InFlight
<1>4. ~Reload
    BY <1>1 DEF Reload, FirstService
<1>5. ASSUME ~Crash, ~Boot, ~Reload
      PROVE  current' = current /\ FirstService
    BY <1>5 DEF Next, Background, Starts, StartClear, StartPlanNothing, StartPlan, StartApply,
        StartFinal, TimerFires, TickApply, Progress, TickStart, CatchupStart, RunEnds,
        ManualReserve, ManualRefused, ManualFinish, ManualDropped, Tick, Edit, AddJob,
        UpdateJob, UpdateOther, RemoveJob, Read, Inspect, ManualPreflight, vars, FirstService
<1>6. CASE ~Crash /\ ~Boot /\ (Tick \/ UNCHANGED vars)
  <2>1. FirstService /\ UNCHANGED <<disk, svc, current, runs, excused>>
      BY <1>4, <1>5, <1>6 DEF Tick, vars
  <2> QED BY <2>1 DEF CInv, Single, Guarded, OneEach, Backed, SameJobs, Loaded, FirstService
<1> QED BY <1>2, <1>3, <1>4, <1>5, <1>6, StartsKeep, TicksKeep, RunsKeep, EditsKeep,
           PreflightsKeep DEF Next, Background

\* What holds of the stores, the services and the runs in every reachable state.
THEOREM CronInvariant == Spec => [](TypeOK /\ CInv)
<1> QED BY TypeInit, TypeStep, CInvInit, CInvStep, PTL DEF Spec

\* No two runs of one job execute at a time, however the sections of ticks, the
\* catch-up, manual runs and edits interleave, unless a marker was taken.
THEOREM OverlapExcluded == Spec => []NoOverlap
<1>1. CInv => NoOverlap
    BY DEF CInv, OneEach, NoOverlap, Executing
<1> QED BY <1>1, CronInvariant, PTL

\* Until the first reload, a marker in the store belongs to a run in flight:
\* no crash, refusal, removal or reinstated snapshot leaves a job blocked.
THEOREM MarkersBacked == Spec => []NoOrphanMarker
<1>1. TypeOK /\ CInv => NoOrphanMarker
  <2> SUFFICES ASSUME TypeOK, CInv, FirstService, NEW s \in Services, s = current,
                      svc[s].phase = "up", NEW j \in Jobs, disk[j] # Absent, disk[j].running # 0
               PROVE  \E r \in runs : r.job = j
      BY DEF NoOrphanMarker
  <2>1. Loaded(1)
      BY Where DEF Loaded
  <2> QED BY <2>1 DEF CInv, Backed, InFlight
<1> QED BY <1>1, CronInvariant, PTL

-----------------------------------------------------------------------------
(* Steps.                                                                    *)

LEMMA EditIsStep == TypeOK /\ Edit => EditStep
<1> SUFFICES ASSUME TypeOK, Edit PROVE EditStep
    OBVIOUS
<1>1. Event /\ UNCHANGED <<runs, current>>
    BY DEF Edit, AddJob, UpdateJob, UpdateOther, RemoveJob
<1>2. events \in Nat
    BY Numbers DEF TypeOK
<1> QED BY <1>1, <1>2 DEF Event, EditStep

\* A section that writes what is in memory writes what is on disk, as far as
\* no run changes it.
LEMMA SameAdvance ==
    ASSUME NEW j \in Jobs, SameJobs(svc[1].mem, disk), PastDue(j)
    PROVE  /\ svc[1].mem[j] # Absent /\ svc[1].mem[j].enabled /\ svc[1].mem[j].next # 0
           /\ svc[1].mem[j].next = disk[j].next
    BY DEF SameJobs, PastDue, Due

LEMMA SlotStep == TypeOK /\ CInv /\ [Next]_vars => (FirstService => SlotKept)
<1> SUFFICES ASSUME TypeOK, CInv, [Next]_vars, FirstService, NEW j \in Jobs, Advanced(j)
             PROVE  OutcomeOf(j) \/ ExecutedSlot(Normalized(disk[j])) \/ EditStep \/ InStart
    BY DEF SlotKept
<1>1. /\ disk[j] # Absent /\ disk[j].enabled /\ disk[j].next # 0 /\ PastDue(j)
      /\ disk'[j] # Absent
    BY DEF Advanced, PastDue, Due
<1>2. disk[j].next \in Nat /\ ~(disk'[j].next = disk[j].next)
  <2>1. disk[j] \in JobStates
      BY <1>1, StoreJob DEF TypeOK
  <2>2. disk[j].next \in Nat
      BY <2>1, JobFields
  <2> QED BY <2>2 DEF Advanced
<1>3. disk' # disk
    BY <1>2
<1>4. CASE Edit
    BY <1>4, EditIsStep
<1>5. ASSUME NEW s \in Services, Starts(s)
      PROVE  InStart
  <2>1. s = 1 /\ 1 \in Services
    <3>1. svc[s].phase # "unborn"
        BY <1>5 DEF Starts, StartClear, StartPlanNothing, StartPlan, StartApply, StartFinal
    <3> QED BY <3>1, Where
  <2>2. ~StartClear(s)
      BY <1>1, <1>2, StartClearDoes
  <2>3. ~StartPlanNothing(s)
      BY <1>3 DEF StartPlanNothing
  <2>4. ~StartPlan(s)
    <3> SUFFICES ASSUME StartPlan(s) PROVE FALSE
        OBVIOUS
    <3>1. SameJobs(svc[1].mem, disk)
        BY <2>1 DEF StartPlan, CInv, Loaded
    <3>2. disk'[j].next = svc[1].mem[j].next
        BY <1>1, <2>1, StartPlanDoes
    <3> QED BY <1>1, <1>2, <3>1, <3>2, SameAdvance
  <2>5. CASE StartApply(s)
    <3>1. svc[s].phase = "catchup" /\ svc'[s].phase = "final"
        BY <2>5, StartApplyDoes DEF StartApply, Wrote
    <3> QED BY <3>1 DEF InStart
  <2>6. CASE StartFinal(s)
    <3>1. svc[s].phase = "final" /\ svc'[s].phase = "up"
        BY <2>6, StartFinalDoes DEF StartFinal, Wrote
    <3> QED BY <3>1 DEF InStart
  <2> QED BY <1>5, <2>2, <2>3, <2>4, <2>5, <2>6 DEF Starts
<1>6. ASSUME NEW s \in Services, TimerFires(s)
      PROVE  ExecutedSlot(Normalized(disk[j]))
    BY <1>1, <1>2, <1>6, TimerFiresDoes
<1>7. ASSUME NEW s \in Services, TickApply(s)
      PROVE  OutcomeOf(j)
  <2>1. PICK r \in RunsOf(s, "tick") : r.job = j
      BY <1>1, <1>2, <1>7, TickApplyDoes
  <2>2. runs' = runs \ RunsOf(s, "tick") /\ Settled(RunsOf(s, "tick"))
      BY <1>7, TickApplyDoes
  <2>3. r \in runs \ runs' /\ r.phase = "done"
      BY <2>1, <2>2 DEF RunsOf, Settled
  <2> QED BY <2>1, <2>3 DEF OutcomeOf
<1>8. ~Read
  <2> SUFFICES ASSUME Read PROVE FALSE
      OBVIOUS
  <2>1. current = 1 /\ SameJobs(svc[1].mem, disk)
      BY ServingFirst DEF Read
  <2>2. ~svc[1].mem[j].enabled \/ svc[1].mem[j].next = 0 \/ disk'[j].next = svc[1].mem[j].next
      BY <1>1, <2>1, ReadDoes
  <2> QED BY <1>1, <1>2, <2>1, <2>2, SameAdvance
<1>9. ASSUME NEW run \in runs, ManualReserve(run)
      PROVE  FALSE
  <2>1. run.svc = 1 /\ SameJobs(svc[1].mem, disk)
      BY Where DEF CInv
  <2>2. disk'[j].next = svc[1].mem[j].next
      BY <1>9, <2>1, ManualReserveDoes
  <2> QED BY <1>1, <1>2, <2>1, <2>2, SameAdvance
<1>10. ASSUME NEW run \in runs, ManualFinish(run)
       PROVE  OutcomeOf(j) \/ ExecutedSlot(Normalized(disk[j]))
  <2>1. CASE j = run.job
    <3>1. run \in runs \ runs' /\ run.phase = "done"
        BY <1>10, ManualFinishDoes
    <3> QED BY <2>1, <3>1 DEF OutcomeOf
  <2>2. CASE j # run.job
      BY <1>1, <1>2, <1>10, <2>2, ManualFinishDoes
  <2> QED BY <2>1, <2>2
<1>11. ASSUME disk' = disk
       PROVE  FALSE
    BY <1>3, <1>11
<1> QED BY <1>4, <1>5, <1>6, <1>7, <1>8, <1>9, <1>10, <1>11
        DEF Next, Background, Progress, Tick, Boot, Crash, Reload, Inspect, ManualPreflight,
            TickStart, CatchupStart, RunEnds, ManualRefused, ManualDropped, vars

\* The time of a due job moves on only with a run of it, an edit or a start.
THEOREM SlotsAreKept == Spec => SlotsKept
<1>1. TypeOK /\ CInv /\ [Next]_vars => [FirstService => SlotKept]_vars
    BY SlotStep
<1> QED BY <1>1, CronInvariant, PTL DEF Spec, SlotsKept

LEMMA DisabledStep ==
    ASSUME TypeOK, CInv, [Next]_vars, FirstService, NEW j \in Jobs, disk[j] # Absent,
           ~disk[j].enabled, ~EditStep, disk'[j] # Absent
    PROVE  ~disk'[j].enabled
<1>1. ~Edit
    BY EditIsStep
<1>2. CASE disk' = disk
    BY <1>2
<1>3. ASSUME NEW s \in Services, Starts(s)
      PROVE  ~disk'[j].enabled
  <2>1. CASE StartClear(s) \/ StartApply(s) \/ StartFinal(s)
      BY <2>1, StartClearDoes, StartApplyDoes, StartFinalDoes DEF LeftOf
  <2>2. CASE StartPlanNothing(s)
      BY <1>2, <2>2 DEF StartPlanNothing
  <2>3. CASE StartPlan(s)
    <3>1. s = 1 /\ SameJobs(svc[1].mem, disk)
        BY <2>3, Where DEF StartPlan, CInv, Loaded
    <3>2. disk'[j].enabled = svc[1].mem[j].enabled
        BY <2>3, <3>1, StartPlanDoes
    <3> QED BY <3>1, <3>2 DEF SameJobs
  <2> QED BY <1>3, <2>1, <2>2, <2>3 DEF Starts
<1>4. ASSUME NEW s \in Services, TimerFires(s) \/ TickApply(s)
      PROVE  ~disk'[j].enabled
    BY <1>4, TimerFiresDoes, TickApplyDoes DEF LeftOf
<1>5. CASE Read
  <2>1. current = 1 /\ SameJobs(svc[1].mem, disk)
      BY <1>5, ServingFirst DEF Read
  <2>2. disk'[j].enabled => svc[1].mem[j].enabled
      BY <1>5, <2>1, ReadDoes DEF LeftOf
  <2> QED BY <2>1, <2>2 DEF SameJobs
<1>6. ASSUME NEW run \in runs, ManualReserve(run)
      PROVE  ~disk'[j].enabled
  <2>1. run.svc = 1 /\ SameJobs(svc[1].mem, disk)
      BY Where DEF CInv
  <2>2. disk'[j].enabled = svc[1].mem[j].enabled
      BY <1>6, <2>1, ManualReserveDoes
  <2> QED BY <2>1, <2>2 DEF SameJobs
<1>7. ASSUME NEW run \in runs, ManualFinish(run)
      PROVE  ~disk'[j].enabled
  <2>1. run.svc = 1 /\ SameJobs(svc[1].mem, disk)
      BY Where DEF CInv
  <2>2. disk'[j].enabled => disk[j].enabled \/ svc[1].mem[j].enabled
      BY <1>7, <2>1, ManualFinishDoes
  <2> QED BY <2>1, <2>2 DEF SameJobs
<1> QED BY <1>1, <1>2, <1>3, <1>4, <1>5, <1>6, <1>7
        DEF Next, Background, Progress, Tick, Boot, Crash, Reload, Inspect, ManualPreflight,
            TickStart, CatchupStart, RunEnds, ManualRefused, ManualDropped, vars

\* No outcome and no snapshot enables a job again that has been disabled.
THEOREM DisabledJobsStay == Spec => DisabledStays
<1>1. TypeOK /\ CInv /\ [Next]_vars =>
          [\A j \in Jobs : FirstService /\ disk[j] # Absent /\ ~disk[j].enabled /\ ~EditStep =>
               disk'[j] = Absent \/ ~disk'[j].enabled]_vars
    BY DisabledStep
<1> QED BY <1>1, CronInvariant, PTL DEF Spec, DisabledStays

-----------------------------------------------------------------------------
(* Heartbeat: the operators on wakes and timers.                             *)

Pendings == [Targets -> 0..None]

\* A merge loses no target, and has the one it is about.
LEMMA MergeKeeps ==
    ASSUME NEW pending \in Pendings, NEW t \in Targets, NEW priority \in 0..3
    PROVE  /\ Merge(pending, t, priority) \in Pendings
           /\ \A u \in Targets : pending[u] # None => Merge(pending, t, priority)[u] # None
           /\ Merge(pending, t, priority)[t] # None
<1>1. CASE pending[t] = None \/ priority >= pending[t]
  <2>1. Merge(pending, t, priority) = [pending EXCEPT ![t] = priority]
      BY <1>1 DEF Merge
  <2> QED BY <2>1 DEF Pendings, None
<1>2. CASE ~(pending[t] = None \/ priority >= pending[t])
    BY <1>2 DEF Merge, Pendings
<1> QED BY <1>1, <1>2

LEMMA MergeAllKeeps ==
    ASSUME NEW pending \in Pendings, NEW wakes \in Pendings
    PROVE  /\ MergeAll(pending, wakes) \in Pendings
           /\ \A u \in Targets : wakes[u] # None => MergeAll(pending, wakes)[u] # None
           /\ \A u \in Targets : pending[u] # None => MergeAll(pending, wakes)[u] # None
<1>1. \A u \in Targets :
          /\ MergeAll(pending, wakes)[u]
                 = IF wakes[u] = None THEN pending[u] ELSE Merge(pending, u, wakes[u])[u]
          /\ wakes[u] \in 0..None /\ pending[u] \in 0..None
    BY DEF MergeAll, Pendings
<1>2. \A u \in Targets : wakes[u] # None =>
          /\ Merge(pending, u, wakes[u])[u] \in 0..None
          /\ Merge(pending, u, wakes[u])[u] # None
  <2>1. ASSUME NEW u \in Targets, wakes[u] # None PROVE wakes[u] \in 0..3
      BY <1>1, <2>1 DEF None
  <2> QED BY <2>1, MergeKeeps DEF Pendings
<1>3. MergeAll(pending, wakes) \in Pendings
    BY <1>1, <1>2 DEF MergeAll, Pendings
<1> QED BY <1>1, <1>2, <1>3

\* To schedule leaves a timer, and leaves a retry as it is.
LEMMA ScheduleSets ==
    ASSUME NEW old \in Timers, NEW delay \in 0..RetryTicks, NEW kind \in {"normal", "retry"}
    PROVE  /\ Schedule(old, delay, kind) \in Timers /\ Schedule(old, delay, kind).kind # "none"
           /\ old.kind = "retry" => Schedule(old, delay, kind) = old
           /\ old.kind = "none" => Schedule(old, delay, kind)
                                     = [due |-> delay, kind |-> kind, delay |-> delay]
    BY DEF Schedule, Timers

LEMMA RescheduleSets ==
    ASSUME NEW pending, NEW sched \in BOOLEAN, NEW old \in Timers, NEW delay \in 0..RetryTicks
    PROVE  /\ Reschedule(pending, sched, old, delay) \in Timers
           /\ AnyPending(pending) => Reschedule(pending, sched, old, delay).kind # "none"
           /\ old.kind # "none" => Reschedule(pending, sched, old, delay).kind # "none"
           /\ ~AnyPending(pending) /\ ~sched => Reschedule(pending, sched, old, delay) = old
           /\ old.kind = "retry" => Reschedule(pending, sched, old, delay) = old
    BY ScheduleSets DEF Reschedule

-----------------------------------------------------------------------------
(* The inductive invariant.                                                  *)

\* A cooldown that runs is that of a retry timer that is due no sooner.
CooldownBacked == cooldown > 0 => timer.kind = "retry" /\ cooldown <= timer.due

HInv == WakeTypeOK /\ WakeHasTimer /\ CooldownBacked

LEMMA HeartbeatInit == WakeInit => HInv
<1> SUFFICES ASSUME WakeInit PROVE HInv
    OBVIOUS
<1> USE HeartbeatAssumption
<1>1. 0 \in 0..RetryTicks
    OBVIOUS
<1>2. NoTimer \in Timers /\ NoTimer.kind = "none"
    BY <1>1 DEF NoTimer, Timers
<1>3. NoBatch \in Batches /\ NoBatch.at = "none"
    BY <1>1 DEF NoBatch, Batches, None
<1>4. WakeTypeOK
  <2>1. /\ batches \in [Slots -> Batches] /\ \A b \in Slots : ~Busy(b)
      BY <1>3 DEF WakeInit, Busy
  <2>2. pendingWakes \in [Targets -> 0..None]
      BY DEF WakeInit, None
  <2>3. /\ handler \in 0..registered /\ registered \in 0..MaxHandlers
        /\ refusals \in 0..MaxRefusals /\ cooldown \in 0..RetryTicks /\ asked \subseteq Targets
      BY <1>1 DEF WakeInit
  <2>4. scheduled \in BOOLEAN /\ running \in BOOLEAN /\ ~scheduled /\ timer \in Timers
      BY <1>2 DEF WakeInit
  <2> QED BY <2>1, <2>2, <2>3, <2>4 DEF WakeTypeOK
<1>5. WakeHasTimer
    BY <1>2 DEF WakeHasTimer, WakeInit, AnyPending
<1> QED BY <1>4, <1>5 DEF HInv, CooldownBacked, WakeInit

\* Steps that touch neither batches nor the timer's kind.
LEMMA RequestInv ==
    ASSUME HInv, NEW t \in Targets, NEW p \in Priorities, NEW n \in Delays,
           RequestHeartbeatNow(t, p, n)
    PROVE  HInv'
<1> USE HeartbeatAssumption DEF HInv
<1>1. p \in 0..3 /\ n \in 0..RetryTicks /\ timer \in Timers /\ pendingWakes \in Pendings
    BY DEF WakeTypeOK, Delays, Pendings
<1>2. /\ pendingWakes' = Merge(pendingWakes, t, p) /\ timer' = Schedule(timer, n, "normal")
      /\ asked' = asked \cup {t}
      /\ UNCHANGED <<handler, registered, scheduled, running, batches, refusals, cooldown>>
    BY DEF RequestHeartbeatNow
<1>3. pendingWakes' \in Pendings /\ pendingWakes'[t] # None
    BY <1>1, <1>2, MergeKeeps
<1>4. /\ timer' \in Timers /\ timer'.kind # "none"
      /\ timer.kind = "retry" => timer' = timer
    BY <1>1, <1>2, ScheduleSets
<1>5. WakeTypeOK'
    BY <1>2, <1>3, <1>4 DEF WakeTypeOK, Busy, Pendings
<1>6. WakeHasTimer'
    BY <1>3, <1>4 DEF WakeHasTimer, AnyPending
<1>7. CooldownBacked'
    BY <1>2, <1>4 DEF CooldownBacked
<1> QED BY <1>5, <1>6, <1>7

LEMMA TickInv == ASSUME HInv, WakeTick PROVE HInv'
<1> USE HeartbeatAssumption DEF HInv
<1>1. /\ UNCHANGED <<handler, registered, pendingWakes, scheduled, running, batches, refusals, asked>>
      /\ cooldown' = IF cooldown > 0 THEN cooldown - 1 ELSE 0
      /\ cooldown \in 0..RetryTicks /\ timer \in Timers
    BY DEF WakeTick, WakeTypeOK
<1>2. CASE timer.kind = "none"
  <2>1. timer' = timer /\ cooldown = 0
      BY <1>1, <1>2 DEF WakeTick, CooldownBacked
  <2>2. cooldown' = 0
      BY <1>1, <2>1
  <2>3. WakeTypeOK'
      BY <1>1, <2>1, <2>2 DEF WakeTypeOK, Busy
  <2>4. WakeHasTimer'
      BY <1>1, <2>1 DEF WakeHasTimer, AnyPending, NoBatchRuns, Busy
  <2> QED BY <2>2, <2>3, <2>4 DEF CooldownBacked
<1>3. CASE timer.kind # "none"
  <2>1. timer.due > 0 /\ timer' = [timer EXCEPT !.due = timer.due - 1]
      BY <1>3 DEF WakeTick
  <2>2. timer' \in Timers /\ timer'.kind = timer.kind /\ timer'.due = timer.due - 1
      BY <1>1, <2>1 DEF Timers
  <2>3. cooldown' \in 0..RetryTicks
      BY <1>1
  <2>4. WakeTypeOK'
      BY <1>1, <2>2, <2>3 DEF WakeTypeOK, Busy
  <2>5. WakeHasTimer'
      BY <1>1, <2>2 DEF WakeHasTimer, AnyPending, NoBatchRuns, Busy
  <2>6. CooldownBacked'
      BY <1>1, <2>2 DEF CooldownBacked, Timers
  <2> QED BY <2>4, <2>5, <2>6
<1> QED BY <1>2, <1>3

LEMMA FireIdleInv == ASSUME HInv, FireUnheard \/ FireWhileRunning PROVE HInv'
<1> USE HeartbeatAssumption DEF HInv
<1>1. /\ UNCHANGED <<handler, registered, pendingWakes, running, batches, refusals, cooldown, asked>>
      /\ timer \in Timers /\ timer.kind # "none" /\ timer.due = 0 /\ cooldown \in 0..RetryTicks
    BY DEF FireUnheard, FireWhileRunning, WakeTypeOK, TimerDue
<1>2. cooldown = 0
    BY <1>1 DEF CooldownBacked
<1>3. NoTimer \in Timers /\ NoTimer.kind = "none"
    BY DEF NoTimer, Timers
<1>4. CASE FireUnheard
  <2>1. timer' = NoTimer /\ scheduled' = FALSE /\ handler' = 0
      BY <1>1, <1>4 DEF FireUnheard
  <2>2. WakeTypeOK'
      BY <1>1, <1>3, <2>1 DEF WakeTypeOK, Busy
  <2> QED BY <1>1, <1>2, <1>3, <2>1, <2>2 DEF WakeHasTimer, CooldownBacked
<1>5. CASE FireWhileRunning
  <2>1. timer' = Schedule(NoTimer, timer.delay, timer.kind) /\ scheduled' = TRUE
      BY <1>5 DEF FireWhileRunning
  <2>2. timer' \in Timers /\ timer'.kind # "none"
    <3>1. timer.delay \in 0..RetryTicks /\ timer.kind \in {"normal", "retry"}
        BY <1>1 DEF Timers
    <3> QED BY <1>3, <2>1, <3>1, ScheduleSets
  <2>3. AnyPending(pendingWakes)
      BY <1>1 DEF WakeHasTimer
  <2> QED BY <1>1, <1>2, <2>1, <2>2, <2>3 DEF WakeTypeOK, Busy, WakeHasTimer, CooldownBacked, AnyPending
<1> QED BY <1>4, <1>5

LEMMA FireInv ==
    ASSUME HInv, NEW b \in Slots, NEW t \in Targets, Fire(b, t)
    PROVE  HInv' /\ cooldown = 0
<1> USE HeartbeatAssumption DEF HInv
<1> DEFINE r == [at |-> t, wakes |-> pendingWakes, delay |-> timer.delay,
                 left |-> {u \in Targets \ {t} : pendingWakes[u] # None}]
<1>1. /\ batches' = [batches EXCEPT ![b] = r]
      /\ pendingWakes' = [u \in Targets |-> None]
      /\ timer' = NoTimer /\ scheduled' = FALSE /\ running' = TRUE
      /\ asked' = asked \cup {u \in Targets : pendingWakes[u] # None}
      /\ UNCHANGED <<handler, registered, refusals, cooldown>>
      /\ timer.due = 0 /\ pendingWakes[t] # None
    BY DEF Fire, Start, TimerDue
<1>2. cooldown = 0
    BY <1>1 DEF CooldownBacked, WakeTypeOK, Timers
<1>3. r \in Batches /\ r.at # "none" /\ \A u \in r.left \cup {r.at} : r.wakes[u] # None
    BY <1>1 DEF WakeTypeOK, Timers, Batches
<1>4. NoTimer \in Timers /\ NoTimer.kind = "none"
    BY DEF NoTimer, Timers
<1>5. /\ batches' \in [Slots -> Batches] /\ batches'[b] = r
      /\ \A c \in Slots : c # b => batches'[c] = batches[c]
    BY <1>1, <1>3 DEF WakeTypeOK
<1>6. WakeTypeOK'
  <2>1. pendingWakes' \in [Targets -> 0..None]
      BY <1>1 DEF None
  <2>2. \A c \in Slots : Busy(c)' =>
            \A u \in batches'[c].left \cup {batches'[c].at} : batches'[c].wakes[u] # None
      BY <1>3, <1>5 DEF WakeTypeOK, Busy
  <2> QED BY <1>1, <1>4, <1>5, <2>1, <2>2 DEF WakeTypeOK
<1>7. WakeHasTimer'
  <2>1. ~AnyPending(pendingWakes')
      BY <1>1 DEF AnyPending
  <2> QED BY <1>1, <1>4, <2>1 DEF WakeHasTimer, AnyPending
<1> QED BY <1>1, <1>2, <1>6, <1>7 DEF CooldownBacked

-----------------------------------------------------------------------------
(* Steps of a batch.                                                         *)

\* What a batch becomes when its handler has come back: it is over, or it is
\* busy with another of the targets it had left.
LEMMA ContinueSets ==
    ASSUME HInv, NEW b \in Slots, Busy(b), NEW pending \in Pendings, NEW newTimer \in Timers,
           scheduled => newTimer.kind # "none", Continue(b, pending, newTimer)
    PROVE  /\ batches' \in [Slots -> Batches] /\ timer' \in Timers /\ running' \in BOOLEAN
           /\ \A c \in Slots : c # b => batches'[c] = batches[c]
           /\ Busy(b)' => \A t \in batches'[b].left \cup {batches'[b].at} : batches'[b].wakes[t] # None
           /\ ~Busy(b)' => running' = FALSE
           /\ Busy(b)' => running' = running
           /\ ~Busy(b)' /\ AnyPending(pending) => timer'.kind # "none"
           /\ newTimer.kind # "none" => timer'.kind # "none"
           /\ newTimer.kind = "none" /\ ~AnyPending(pending) => timer'.kind = "none"
           /\ newTimer.kind = "retry" => timer' = newTimer
<1> USE HeartbeatAssumption DEF HInv
<1>1. batches[b] \in Batches /\ scheduled \in BOOLEAN /\ running \in BOOLEAN
    BY DEF WakeTypeOK
<1>2. CASE batches[b].left = {}
  <2>1. /\ batches' = [batches EXCEPT ![b] = NoBatch] /\ running' = FALSE
        /\ timer' = Reschedule(pending, scheduled, newTimer, batches[b].delay)
      BY <1>2 DEF Continue
  <2>2. NoBatch \in Batches /\ NoBatch.at = "none"
      BY DEF NoBatch, Batches, None
  <2>3. /\ batches' \in [Slots -> Batches] /\ ~Busy(b)'
        /\ \A c \in Slots : c # b => batches'[c] = batches[c]
      BY <2>1, <2>2 DEF WakeTypeOK, Busy
  <2>4. batches[b].delay \in 0..RetryTicks
      BY <1>1 DEF Batches
  <2>5. /\ timer' \in Timers
        /\ AnyPending(pending) => timer'.kind # "none"
        /\ newTimer.kind # "none" => timer'.kind # "none"
        /\ ~AnyPending(pending) /\ ~scheduled => timer' = newTimer
        /\ newTimer.kind = "retry" => timer' = newTimer
      BY ZenonT(30), <1>1, <2>1, <2>4, RescheduleSets
  <2> QED BY <1>1, <2>1, <2>3, <2>5
<1>3. CASE batches[b].left # {}
  <2>1. PICK t \in batches[b].left :
            batches' = [batches EXCEPT ![b].at = t, ![b].left = batches[b].left \ {t}]
      BY <1>3 DEF Continue
  <2>2. t \in Targets /\ timer' = newTimer /\ running' = running
      BY <1>1, <1>3, <2>1 DEF Continue, Batches
  <2>3. /\ batches' \in [Slots -> Batches]
        /\ batches'[b].at = t /\ batches'[b].left \subseteq batches[b].left
        /\ batches'[b].wakes = batches[b].wakes
        /\ \A c \in Slots : c # b => batches'[c] = batches[c]
      BY <1>1, <2>1, <2>2 DEF WakeTypeOK, Batches
  <2>4. Busy(b)'
      BY <2>2, <2>3 DEF Busy
  <2>5. \A u \in batches'[b].left \cup {batches'[b].at} : batches'[b].wakes[u] # None
      BY <2>1, <2>3 DEF WakeTypeOK
  <2> QED BY <1>1, <2>2, <2>3, <2>4, <2>5
<1> QED BY <1>2, <1>3

\* A batch goes on or ends: what its handler did to the wakes and the timer is
\* in "pending" and "newTimer".
LEMMA BatchInv ==
    ASSUME HInv, NEW b \in Slots, Busy(b), NEW newTimer \in Timers,
           pendingWakes' \in Pendings, timer.kind # "none" => newTimer.kind # "none",
           newTimer.kind # "none" => AnyPending(pendingWakes'),
           batches' \in [Slots -> Batches], timer' \in Timers, running' \in BOOLEAN,
           \A c \in Slots : c # b => batches'[c] = batches[c],
           Busy(b)' => \A t \in batches'[b].left \cup {batches'[b].at} : batches'[b].wakes[t] # None,
           ~Busy(b)' /\ AnyPending(pendingWakes') => timer'.kind # "none",
           newTimer.kind # "none" => timer'.kind # "none",
           newTimer.kind = "none" /\ ~AnyPending(pendingWakes') => timer'.kind = "none",
           newTimer.kind = "retry" => timer' = newTimer,
           cooldown' \in 0..RetryTicks,
           cooldown' > 0 => newTimer.kind = "retry" /\ cooldown' <= newTimer.due,
           refusals' \in 0..MaxRefusals, asked' \subseteq Targets,
           UNCHANGED <<handler, registered, scheduled>>
    PROVE  HInv'
<1> USE HeartbeatAssumption DEF HInv
<1>1. WakeTypeOK'
  <2>1. \A c \in Slots : Busy(c)' =>
            \A t \in batches'[c].left \cup {batches'[c].at} : batches'[c].wakes[t] # None
    <3>1. ASSUME NEW c \in Slots, c # b, Busy(c)'
          PROVE  \A t \in batches'[c].left \cup {batches'[c].at} : batches'[c].wakes[t] # None
        BY <3>1 DEF WakeTypeOK, Busy
    <3> QED BY <3>1 DEF Busy
  <2> QED BY <2>1 DEF WakeTypeOK, Pendings
<1>2. WakeHasTimer'
  <2>1. AnyPending(pendingWakes') => timer'.kind # "none" \/ ~NoBatchRuns'
      BY DEF NoBatchRuns
  <2>2. timer'.kind # "none" => AnyPending(pendingWakes')
      OBVIOUS
  <2> QED BY <2>1, <2>2 DEF WakeHasTimer, AnyPending
<1>3. CooldownBacked'
    BY DEF CooldownBacked
<1> QED BY <1>1, <1>2, <1>3

LEMMA AnsweredInv == ASSUME HInv, NEW b \in Slots, Answered(b) PROVE HInv'
<1> USE HeartbeatAssumption
<1>1. /\ Busy(b) /\ Continue(b, pendingWakes, timer)
      /\ UNCHANGED <<handler, registered, pendingWakes, scheduled, refusals, cooldown>>
      /\ asked' \subseteq asked
    BY DEF Answered
<1>2. pendingWakes \in Pendings /\ timer \in Timers /\ (scheduled => timer.kind # "none")
    BY DEF HInv, WakeTypeOK, Pendings
<1>3. timer.kind # "none" => AnyPending(pendingWakes)
    BY DEF HInv, WakeHasTimer
<1>4. /\ refusals' \in 0..MaxRefusals /\ asked' \subseteq Targets /\ cooldown' \in 0..RetryTicks
      /\ cooldown' > 0 => timer.kind = "retry" /\ cooldown' <= timer.due
    BY <1>1 DEF HInv, WakeTypeOK, CooldownBacked
<1>5. AnyPending(pendingWakes') <=> AnyPending(pendingWakes)
    BY <1>1
<1> QED BY <1>1, <1>2, <1>3, <1>4, <1>5, ContinueSets, BatchInv

\* What a refusal leaves of the timer and the cooldown.
LEMMA RefuseSets ==
    ASSUME HInv, NEW b \in Slots, Refuse(b)
    PROVE  LET newTimer == Schedule(timer, RetryTicks, "retry")
           IN  /\ newTimer \in Timers /\ newTimer.kind # "none" /\ cooldown' \in 0..RetryTicks
               /\ cooldown' > 0 => newTimer.kind = "retry" /\ cooldown' <= newTimer.due
               /\ refusals' \in 0..MaxRefusals
<1> USE HeartbeatAssumption DEF HInv
<1> DEFINE newTimer == Schedule(timer, RetryTicks, "retry")
<1>1. /\ timer \in Timers /\ cooldown \in 0..RetryTicks /\ RetryTicks \in 0..RetryTicks
      /\ refusals' \in 0..MaxRefusals
      /\ cooldown' = IF cooldown = 0 /\ timer.kind = "none" THEN RetryTicks ELSE cooldown
    BY DEF WakeTypeOK, Refuse
<1>2. /\ newTimer \in Timers /\ newTimer.kind # "none"
      /\ timer.kind = "retry" => newTimer = timer
      /\ timer.kind = "none" =>
             newTimer = [due |-> RetryTicks, kind |-> "retry", delay |-> RetryTicks]
    BY <1>1, ScheduleSets
<1>3. CASE cooldown = 0 /\ timer.kind = "none"
    BY <1>1, <1>2, <1>3
<1>4. CASE ~(cooldown = 0 /\ timer.kind = "none")
    BY <1>1, <1>2, <1>4 DEF CooldownBacked
<1> QED BY <1>1, <1>2, <1>3, <1>4

LEMMA RequestsInFlightInv == ASSUME HInv, NEW b \in Slots, RequestsInFlight(b) PROVE HInv'
<1> USE HeartbeatAssumption
<1> DEFINE t == batches[b].at
           pending == Merge(pendingWakes, t, batches[b].wakes[t])
           newTimer == Schedule(timer, RetryTicks, "retry")
<1>1. /\ Refuse(b) /\ Busy(b) /\ pendingWakes' = pending /\ Continue(b, pending, newTimer)
      /\ UNCHANGED <<handler, registered, scheduled, asked>>
    BY DEF RequestsInFlight, Refuse
<1>2. pendingWakes \in Pendings /\ t \in Targets /\ batches[b].wakes[t] \in 0..3
  <2>1. batches[b] \in Batches /\ batches[b].wakes[t] # None
      BY <1>1 DEF HInv, WakeTypeOK
  <2>2. t \in Targets
      BY <1>1, <2>1 DEF Batches, Busy
  <2>3. batches[b].wakes[t] \in 0..None
      BY <2>1, <2>2 DEF Batches
  <2> QED BY <2>1, <2>2, <2>3 DEF HInv, WakeTypeOK, Pendings, None
<1>3. pending \in Pendings /\ pending[t] # None
    BY <1>2, MergeKeeps
<1>4. AnyPending(pending) /\ AnyPending(pendingWakes')
    BY <1>1, <1>2, <1>3 DEF AnyPending
<1>5. /\ newTimer \in Timers /\ newTimer.kind # "none" /\ cooldown' \in 0..RetryTicks
      /\ cooldown' > 0 => newTimer.kind = "retry" /\ cooldown' <= newTimer.due
      /\ refusals' \in 0..MaxRefusals
    BY <1>1, RefuseSets
<1>6. asked' \subseteq Targets
    BY <1>1 DEF HInv, WakeTypeOK
<1> HIDE DEF pending, newTimer
<1> QED BY <1>1, <1>3, <1>4, <1>5, <1>6, ContinueSets, BatchInv

LEMMA HandlerThrowsInv == ASSUME HInv, NEW b \in Slots, HandlerThrows(b) PROVE HInv'
<1> USE HeartbeatAssumption
<1> DEFINE pending == MergeAll(pendingWakes, batches[b].wakes)
           newTimer == Schedule(timer, RetryTicks, "retry")
<1>1. /\ Refuse(b) /\ Busy(b) /\ pendingWakes' = pending
      /\ batches' = [batches EXCEPT ![b] = NoBatch] /\ running' = FALSE
      /\ timer' = Reschedule(pending, scheduled, newTimer, batches[b].delay)
      /\ UNCHANGED <<handler, registered, scheduled, asked>>
    BY DEF HandlerThrows, Refuse
<1>2. /\ batches[b] \in Batches /\ batches[b].wakes[batches[b].at] # None
      /\ scheduled \in BOOLEAN /\ pendingWakes \in Pendings
    BY <1>1 DEF HInv, WakeTypeOK, Pendings
<1>3. /\ batches[b].wakes \in Pendings /\ batches[b].at \in Targets
      /\ batches[b].delay \in 0..RetryTicks
    BY <1>1, <1>2 DEF Batches, Busy, Pendings
<1>4. pending \in Pendings /\ pending[batches[b].at] # None
    BY <1>2, <1>3, MergeAllKeeps
<1>5. AnyPending(pending) /\ AnyPending(pendingWakes')
    BY <1>1, <1>3, <1>4 DEF AnyPending
<1>6. /\ newTimer \in Timers /\ newTimer.kind # "none" /\ cooldown' \in 0..RetryTicks
      /\ cooldown' > 0 => newTimer.kind = "retry" /\ cooldown' <= newTimer.due
      /\ refusals' \in 0..MaxRefusals
    BY <1>1, RefuseSets
<1>7. /\ batches' \in [Slots -> Batches] /\ ~Busy(b)'
      /\ \A c \in Slots : c # b => batches'[c] = batches[c]
  <2>1. NoBatch \in Batches /\ NoBatch.at = "none"
      BY DEF NoBatch, Batches, None
  <2> QED BY <1>1, <2>1 DEF HInv, WakeTypeOK, Busy
<1>8. asked' \subseteq Targets
    BY <1>1 DEF HInv, WakeTypeOK
<1> HIDE DEF pending, newTimer
<1>9. /\ timer' \in Timers /\ timer'.kind # "none"
      /\ newTimer.kind = "retry" => timer' = newTimer
    BY ZenonT(30), <1>1, <1>2, <1>3, <1>6, RescheduleSets
<1> QED BY <1>1, <1>4, <1>5, <1>6, <1>7, <1>8, <1>9, BatchInv

\* A batch step is that of a busy batch, leaves the others alone, and leaves
\* "running" alone unless the batch is over.
LEMMA BatchStep ==
    ASSUME HInv, NEW b \in Slots, Answered(b) \/ RequestsInFlight(b) \/ HandlerThrows(b)
    PROVE  /\ Busy(b) /\ \A c \in Slots : c # b => batches'[c] = batches[c]
           /\ running' = running \/ ~Busy(b)'
<1>1. Busy(b)
    BY DEF Answered, RequestsInFlight, HandlerThrows, Refuse
<1>2. CASE batches' = [batches EXCEPT ![b] = NoBatch]
    BY <1>1, <1>2 DEF HInv, WakeTypeOK, Busy, NoBatch
<1>3. CASE batches' # [batches EXCEPT ![b] = NoBatch]
  <2>1. PICK t \in batches[b].left :
            batches' = [batches EXCEPT ![b].at = t, ![b].left = batches[b].left \ {t}]
      BY <1>3 DEF Answered, RequestsInFlight, HandlerThrows, Continue
  <2>2. running' = running
      BY <1>3 DEF Answered, RequestsInFlight, HandlerThrows, Continue
  <2> QED BY <1>1, <2>1, <2>2 DEF HInv, WakeTypeOK
<1> QED BY <1>2, <1>3

LEMMA SetHandlerInv == ASSUME HInv, SetHandler PROVE HInv'
<1> USE HeartbeatAssumption DEF HInv
<1>1. /\ registered < MaxHandlers /\ registered' = registered + 1 /\ handler' = registered + 1
      /\ running' = FALSE /\ scheduled' = FALSE /\ cooldown' = 0
      /\ timer' = IF AnyPending(pendingWakes) THEN Schedule(NoTimer, CoalesceTicks, "normal")
                  ELSE NoTimer
      /\ UNCHANGED <<pendingWakes, batches, refusals, asked>>
    BY DEF SetHandler, MaySwap
<1>2. NoTimer \in Timers /\ NoTimer.kind = "none" /\ CoalesceTicks \in 0..RetryTicks
    BY DEF NoTimer, Timers
<1>3. timer' \in Timers /\ (timer'.kind # "none" <=> AnyPending(pendingWakes))
    BY <1>1, <1>2, ScheduleSets
<1>4. WakeTypeOK'
  <2>1. registered' \in 0..MaxHandlers /\ handler' \in 0..registered' /\ cooldown' \in 0..RetryTicks
      BY <1>1 DEF WakeTypeOK
  <2> QED BY <1>1, <1>3, <2>1 DEF WakeTypeOK, Busy
<1>5. WakeHasTimer'
    BY <1>1, <1>3 DEF WakeHasTimer, AnyPending
<1> QED BY <1>1, <1>4, <1>5 DEF CooldownBacked

LEMMA DisposeInv == ASSUME HInv, Dispose PROVE HInv'
<1> USE HeartbeatAssumption DEF HInv
<1>1. /\ handler' = 0
      /\ UNCHANGED <<registered, pendingWakes, scheduled, running, timer, batches, refusals,
                     cooldown, asked>>
    BY DEF Dispose
<1>2. WakeTypeOK'
    BY <1>1 DEF WakeTypeOK, Busy
<1>3. WakeHasTimer'
    BY <1>1 DEF WakeHasTimer, AnyPending
<1> QED BY <1>1, <1>2, <1>3 DEF CooldownBacked

LEMMA HeartbeatNextInv == ASSUME HInv, [WakeNext]_wakeVars PROVE HInv'
<1>1. CASE UNCHANGED wakeVars
    BY <1>1 DEF wakeVars, HInv, WakeTypeOK, WakeHasTimer, CooldownBacked, AnyPending, NoBatchRuns, Busy
<1> QED BY <1>1, RequestInv, TickInv, FireIdleInv, FireInv, AnsweredInv, RequestsInFlightInv,
           HandlerThrowsInv, SetHandlerInv, DisposeInv DEF WakeNext

-----------------------------------------------------------------------------
(* The theorems.                                                             *)

\* What holds of the wakes, the timer and the batches in every reachable state.
THEOREM HeartbeatInvariant == WakeSpec => []HInv
    BY HeartbeatInit, HeartbeatNextInv, PTL DEF WakeSpec

\* The types of the wakes, the timer and the batches; a batch has a reason for
\* every target it works on or has left.
THEOREM WakeTypeCorrect == WakeSpec => []WakeTypeOK
    BY HeartbeatInvariant, PTL DEF HInv

\* No pending wake waits for nothing, whenever handlers come and go.
THEOREM WakesHaveTimers == WakeSpec => []WakeHasTimer
    BY HeartbeatInvariant, PTL DEF HInv

\* After a refusal no batch starts before the retry delay is over.
THEOREM CooldownIsKept == WakeSpec => CooldownKept
<1>1. HInv /\ [WakeNext]_wakeVars => [\A b \in Slots : Busy(b)' /\ ~Busy(b) => cooldown = 0]_wakeVars
  <2> SUFFICES ASSUME HInv, [WakeNext]_wakeVars, NEW b \in Slots, Busy(b)', ~Busy(b)
               PROVE  cooldown = 0
      OBVIOUS
  <2>1. ASSUME NEW c \in Slots, NEW t \in Targets, Fire(c, t) PROVE cooldown = 0
      BY <2>1, FireInv
  <2>2. ASSUME NEW c \in Slots, Answered(c) \/ RequestsInFlight(c) \/ HandlerThrows(c)
        PROVE  FALSE
    <3>1. Busy(c) /\ b # c
        BY <2>2 DEF Answered, RequestsInFlight, HandlerThrows, Refuse
    <3>2. batches'[b] = batches[b]
        BY <2>2, <3>1, BatchStep
    <3> QED BY <3>2 DEF Busy
  <2>3. CASE batches' = batches
      BY <2>3 DEF Busy
  <2> QED BY <2>1, <2>2, <2>3 DEF WakeNext, wakeVars, RequestHeartbeatNow, WakeTick, FireUnheard,
             FireWhileRunning, SetHandler, Dispose
<1> QED BY <1>1, HeartbeatInvariant, PTL DEF WakeSpec, CooldownKept

-----------------------------------------------------------------------------
(* One batch at a time, if a handler is not replaced while its batch runs.   *)

\* Nothing is busy unless "running" is set, and then one batch is.
Serial ==
    /\ ~running => NoBatchRuns
    /\ \A b, c \in Slots : Busy(b) /\ Busy(c) => b = c

LEMMA SerialStep ==
    ASSUME ~SwapDuringBatch, HInv, Serial, [WakeNext]_wakeVars
    PROVE  Serial'
<1>1. ASSUME NEW b \in Slots, NEW t \in Targets, Fire(b, t) PROVE Serial'
  <2>1. /\ ~running /\ running' = TRUE
        /\ \A c \in Slots : c # b => batches'[c] = batches[c]
      BY <1>1 DEF Fire, Start, HInv, WakeTypeOK
  <2>2. \A c \in Slots : c # b => ~Busy(c)'
      BY <2>1 DEF Serial, NoBatchRuns, Busy
  <2> QED BY <2>1, <2>2 DEF Serial
<1>2. ASSUME NEW b \in Slots, Answered(b) \/ RequestsInFlight(b) \/ HandlerThrows(b)
      PROVE  Serial'
  <2>1. /\ Busy(b) /\ \A c \in Slots : c # b => batches'[c] = batches[c]
        /\ running' = running \/ ~Busy(b)'
      BY <1>2, BatchStep
  <2>2. \A c \in Slots : c # b => ~Busy(c)'
      BY <2>1 DEF Serial, Busy
  <2>3. CASE Busy(b)'
      BY <2>1, <2>2, <2>3 DEF Serial, NoBatchRuns
  <2>4. CASE ~Busy(b)'
      BY <2>2, <2>4 DEF Serial, NoBatchRuns
  <2> QED BY <2>3, <2>4
<1>3. CASE SetHandler
  <2>1. NoBatchRuns /\ batches' = batches
      BY <1>3 DEF SetHandler, MaySwap
  <2> QED BY <2>1 DEF Serial, NoBatchRuns, Busy
<1>4. CASE UNCHANGED <<running, batches>>
    BY <1>4 DEF Serial, NoBatchRuns, Busy
<1> QED BY <1>1, <1>2, <1>3, <1>4 DEF WakeNext, wakeVars, RequestHeartbeatNow, WakeTick, FireUnheard,
           FireWhileRunning, Dispose

\* Heartbeats of one runner never overlap: where the gateway starts the next
\* runner only after the last batch of the old one, a runner executes one
\* batch at a time.
THEOREM BatchesDoNotOverlap == ~SwapDuringBatch /\ WakeSpec => []OneBatchPerHandler
<1> SUFFICES ASSUME ~SwapDuringBatch PROVE WakeSpec => []OneBatchPerHandler
    OBVIOUS
<1>1. WakeInit => Serial
    BY DEF WakeInit, Serial, NoBatchRuns, Busy, NoBatch
<1>2. HInv /\ Serial /\ [WakeNext]_wakeVars => Serial'
    BY SerialStep
<1>3. Serial => OneBatchPerHandler
  <2> SUFFICES ASSUME Serial, NEW h \in Handlers, Busy(<<h, 1>>), Busy(<<h, 2>>) PROVE FALSE
      BY DEF OneBatchPerHandler
  <2>1. <<h, 1>> \in Slots /\ <<h, 2>> \in Slots /\ <<h, 1>> # <<h, 2>>
      BY DEF Slots
  <2> QED BY <2>1 DEF Serial
<1> QED BY <1>1, <1>2, <1>3, HeartbeatInvariant, PTL DEF WakeSpec
=============================================================================
