-------------------------- MODULE DeliveryQueueProofs --------------------------
(* Theorems about DeliveryQueue, for any messages, payloads, retries and     *)
(* crashes, where no message is sent while a recovery pass is at work.       *)
EXTENDS DeliveryQueue, TLAPS

-----------------------------------------------------------------------------
(* The inductive invariant.                                                  *)

Attempting == {"send", "ack1", "fail1", "fail2", "park"}
Attempted(d) == \E w \in Workers : task[w].d = d /\ task[w].phase \in Attempting

\* What pays for the sends of a delivery so far: the crashes that hit it and
\* the failures that are recorded.
Spent(d) == crashedOn[d] + retryCount[d]

LivePhases == {"new", "send", "ack1", "ack2", "fail1", "fail2", "done"}
RecoveryPhases ==
    {"off", "load", "pick", "send", "ack1", "ack2", "fail1", "fail2", "park", "ended"}

\* Where a worker is, and what follows for the delivery it works on.
RoleOK(w) ==
    IF w = "recovery" THEN task[w].phase \in RecoveryPhases /\ ~task[w].partial
    ELSE /\ task[w].phase \in LivePhases /\ task[w].d = w
         /\ task[w].phase \in {"ack1", "ack2", "fail1", "fail2"} => task[w].queued
         /\ task[w].partial => w \in BestEffort

NewOK(w) ==
    LET d == task[w].d
    IN  task[w].phase = "new" =>
            /\ d \notin json /\ d \notin accepted /\ d \notin failedDir /\ retryCount[d] = 0
            /\ ~task[w].queued /\ ~task[w].partial /\ task[w].at = 1
            /\ \A p \in 1..Payloads : sends[d][p] = 0

\* Of the payloads that are yet to come every send is paid for, and the others
\* are out, unless their failure was to be ignored.
SendOK(w) ==
    LET d == task[w].d
    IN  task[w].phase = "send" =>
            /\ IF w = "recovery" \/ task[w].queued THEN d \in json ELSE d \notin json /\ d \notin accepted
            /\ retryCount[d] < MaxRetries
            /\ \A p \in 1..Payloads :
                  /\ p >= task[w].at => sends[d][p] <= Spent(d)
                  /\ p < task[w].at /\ d \notin BestEffort => sends[d][p] > 0

\* An entry is acknowledged for a reason, and a failure is recorded once.
SettleOK(w) ==
    LET d == task[w].d
    IN  /\ task[w].phase \in {"ack1", "fail1", "fail2", "park"} => d \in json
        /\ task[w].phase \in {"fail1", "fail2"} => retryCount[d] < MaxRetries
        /\ task[w].phase = "fail2" => task[w].count = retryCount[d]
        /\ task[w].phase \in {"ack1", "ack2"} => ~task[w].partial
        /\ task[w].phase = "ack1" => d \in BestEffort \/ Kept(d) \/ d \in aborted
        /\ task[w].phase = "ack2" => d \notin json /\ d \in accepted
        /\ task[w].phase = "done" /\ task[w].queued /\ task[w].partial => d \in json

WorkerOK(w) == RoleOK(w) /\ NewOK(w) /\ SendOK(w) /\ SettleOK(w)

\* An entry that waits for its next attempt has paid for every send, and any
\* other is at most one send of each payload ahead.
EntryOK(d) ==
    /\ d \in json => d \in accepted /\ d \notin failedDir
    /\ d \in json /\ ~Attempted(d) => \A p \in 1..Payloads : sends[d][p] <= Spent(d)
    /\ \A p \in 1..Payloads : sends[d][p] <= 1 + Spent(d)
    /\ d \in names => d \in json
    /\ d \in loaded => d \in json /\ loadedCount[d] = retryCount[d]

\* The recovery pass is alone until it has ended.
RecoveryOK ==
    /\ task["recovery"].phase # "ended" =>
          \A d \in Deliveries : task[d].phase \in {"new", "done"} /\ ~task[d].queued
    /\ task["recovery"].phase # "load" => names = {}
    /\ task["recovery"].phase \in {"off", "ended"} => loaded = {}
    /\ task["recovery"].phase \in Attempting \cup {"ack2"} => task["recovery"].d \notin loaded

DInv ==
    /\ TypeOK
    /\ \A w \in Workers : WorkerOK(w)
    /\ \A d \in Deliveries : EntryOK(d)
    /\ RecoveryOK

-----------------------------------------------------------------------------
(* The records of the workers.                                               *)

\* What a worker's record becomes, while the others keep theirs.
TaskIs(w, phase, at, queued, partial, count) ==
    /\ task' \in [Workers -> Tasks]
    /\ task'[w].phase = phase /\ task'[w].d = task[w].d /\ task'[w].at = at
    /\ task'[w].queued = queued /\ task'[w].partial = partial /\ task'[w].count = count
    /\ \A v \in Workers : v # w => task'[v] = task[v]

LEMMA TaskFields ==
    ASSUME task \in [Workers -> Tasks], NEW w \in Workers
    PROVE  /\ task[w].phase \in Phases /\ task[w].d \in Deliveries /\ task[w].at \in 1..Payloads
           /\ task[w].queued \in BOOLEAN /\ task[w].partial \in BOOLEAN
           /\ task[w].count \in 0..MaxRetries
    BY DEF Tasks

LEMMA GotoSets ==
    ASSUME task \in [Workers -> Tasks], NEW w \in Workers, NEW phase \in Phases, Goto(w, phase)
    PROVE  TaskIs(w, phase, task[w].at, task[w].queued, task[w].partial, task[w].count)
    BY DEF Goto, TaskIs, Tasks

LEMMA ReturnSets ==
    ASSUME task \in [Workers -> Tasks], NEW w \in Workers, Return(w)
    PROVE  TaskIs(w, IF w = "recovery" THEN "pick" ELSE "done", task[w].at, task[w].queued,
                  task[w].partial, task[w].count)
    BY GotoSets DEF Return, Phases

LEMMA NextPayloadSets ==
    ASSUME task \in [Workers -> Tasks], NEW w \in Workers, NEW partial \in BOOLEAN,
           NextPayload(w, partial), Payloads \in Nat
    PROVE  \/ /\ task[w].at < Payloads
              /\ TaskIs(w, task[w].phase, task[w].at + 1, task[w].queued, partial, task[w].count)
           \/ /\ task[w].at = Payloads
              /\ TaskIs(w, Settlement(w, partial), task[w].at, task[w].queued, partial, task[w].count)
<1>1. task[w].at \in 1..Payloads
    BY TaskFields
<1>2. CASE task[w].at < Payloads
  <2>1. task' = [task EXCEPT ![w].at = task[w].at + 1, ![w].partial = partial]
      BY <1>2 DEF NextPayload
  <2>2. task[w].at + 1 \in 1..Payloads
      BY <1>1, <1>2
  <2>3. TaskIs(w, task[w].phase, task[w].at + 1, task[w].queued, partial, task[w].count)
      BY <2>1, <2>2 DEF TaskIs, Tasks
  <2> QED BY <1>2, <2>3
<1>3. CASE ~(task[w].at < Payloads)
  <2>1. task' = [task EXCEPT ![w].phase = Settlement(w, partial), ![w].partial = partial]
      BY <1>3 DEF NextPayload
  <2>2. Settlement(w, partial) \in Phases
      BY DEF Settlement, Phases
  <2>3. TaskIs(w, Settlement(w, partial), task[w].at, task[w].queued, partial, task[w].count)
      BY <2>1, <2>2 DEF TaskIs, Tasks
  <2> QED BY <1>1, <1>3, <2>3
<1> QED BY <1>2, <1>3

\* One more send of a payload, or none.
Sent(d, at, out) == sends' = [sends EXCEPT ![d][at] = sends[d][at] + out]

LEMMA SendsSets ==
    ASSUME sends \in [Deliveries -> [1..Payloads -> Nat]], NEW d \in Deliveries,
           NEW at \in 1..Payloads, NEW out \in {0, 1}, Sent(d, at, out)
    PROVE  /\ sends' \in [Deliveries -> [1..Payloads -> Nat]]
           /\ sends'[d][at] = sends[d][at] + out
           /\ \A p \in 1..Payloads : p # at => sends'[d][p] = sends[d][p]
           /\ \A e \in Deliveries : e # d => sends'[e] = sends[e]
<1> DEFINE f == [sends[d] EXCEPT ![at] = sends[d][at] + out]
<1>1. sends[d] \in [1..Payloads -> Nat] /\ sends[d][at] + out \in Nat
  <2>1. sends[d] \in [1..Payloads -> Nat]
      OBVIOUS
  <2>2. sends[d][at] \in Nat
      BY <2>1
  <2> QED BY <2>1, <2>2
<1>2. f \in [1..Payloads -> Nat]
    BY <1>1
<1>3. f[at] = sends[d][at] + out /\ \A p \in 1..Payloads : p # at => f[p] = sends[d][p]
    BY <1>1
<1>4. sends' = [sends EXCEPT ![d] = f]
    BY DEF Sent
<1> HIDE DEF f
<1>5. /\ sends' \in [Deliveries -> [1..Payloads -> Nat]] /\ sends'[d] = f
      /\ \A e \in Deliveries : e # d => sends'[e] = sends[e]
    BY <1>2, <1>4
<1> QED BY <1>3, <1>5

-----------------------------------------------------------------------------
(* A worker's step leaves the other deliveries and workers alone.            *)

Active == Attempting \cup {"ack2"}

LEMMA Counters ==
    ASSUME TypeOK, NEW d \in Deliveries
    PROVE  /\ retryCount[d] \in 0..MaxRetries
           /\ retryCount[d] \in Nat /\ crashedOn[d] \in Nat /\ Spent(d) \in Nat
           /\ \A p \in 1..Payloads : sends[d][p] \in Nat
<1>1. retryCount[d] \in 0..MaxRetries /\ crashedOn[d] \in Nat
    BY DEF TypeOK
<1>2. sends[d] \in [1..Payloads -> Nat]
    BY DEF TypeOK
<1> QED BY <1>1, <1>2, DeliveryAssumption DEF Spent

\* Who works on a delivery is alone with it: a live call has waited for the end
\* of the recovery pass, and the pass works on what a crash has left.
LEMMA Alone ==
    ASSUME DInv, NEW w \in Workers,
           \/ task[w].phase \in Active
           \/ task[w].phase = "new" /\ task["recovery"].phase = "ended"
    PROVE  /\ \A v \in Workers : v # w /\ task[v].d = task[w].d =>
                 \/ v = "recovery" /\ task[v].phase = "ended"
                 \/ v # "recovery" /\ task[v].phase = "done" /\ ~task[v].queued
           /\ names = {} /\ task[w].d \notin loaded
           /\ w # "recovery" => task["recovery"].phase = "ended"
<1> USE DeliveryAssumption
<1>1. CASE w = "recovery"
  <2>1. task[w].phase \in Active /\ task[w].d \in Deliveries
      BY <1>1, TaskFields DEF DInv, WorkerOK, RoleOK, RecoveryPhases, TypeOK
  <2>2. task[w].d \in accepted
    <3>1. task[w].d \in json \/ task[w].d \in accepted
        BY <1>1, <2>1 DEF DInv, WorkerOK, SendOK, SettleOK, Active, Attempting
    <3> QED BY <2>1, <3>1 DEF DInv, EntryOK
  <2>3. ASSUME NEW v \in Deliveries, task[v].d = task[w].d
        PROVE  task[v].phase = "done" /\ ~task[v].queued
    <3>1. task[v].phase \in {"new", "done"} /\ ~task[v].queued
        BY <1>1, <2>1 DEF DInv, RecoveryOK, Active, Attempting
    <3>2. task[v].phase # "new"
        BY <2>2, <2>3 DEF DInv, WorkerOK, NewOK, Workers
    <3> QED BY <3>1, <3>2
  <2>4. names = {} /\ task[w].d \notin loaded
      BY <1>1, <2>1 DEF DInv, RecoveryOK, Active, Attempting
  <2> QED BY <1>1, <2>3, <2>4 DEF Workers
<1>2. CASE w # "recovery"
  <2>1. w \in Deliveries /\ task["recovery"].phase = "ended"
      BY <1>2 DEF DInv, RecoveryOK, Active, Attempting, Workers
  <2>2. names = {} /\ loaded = {}
      BY <2>1 DEF DInv, RecoveryOK
  <2>3. ASSUME NEW v \in Deliveries, v # w PROVE task[v].d # task[w].d
      BY <1>2, <2>1, <2>3 DEF DInv, WorkerOK, RoleOK, Workers
  <2> QED BY <1>2, <2>1, <2>2, <2>3 DEF Workers
<1> QED BY <1>1, <1>2

\* Nothing that concerns a delivery has changed.
Same(e) ==
    /\ e \in json' <=> e \in json
    /\ e \in failedDir' <=> e \in failedDir
    /\ e \in accepted' <=> e \in accepted
    /\ e \in aborted' <=> e \in aborted
    /\ retryCount'[e] = retryCount[e]
    /\ sends'[e] = sends[e] /\ crashedOn'[e] = crashedOn[e]

LEMMA WorkerSame ==
    ASSUME NEW v \in Workers, task'[v] = task[v], Same(task[v].d), WorkerOK(v)
    PROVE  WorkerOK(v)'
<1>1. RoleOK(v)'
    BY DEF WorkerOK, RoleOK
<1>2. NewOK(v)'
    BY DEF WorkerOK, NewOK, Same
<1>3. SendOK(v)'
    BY DEF WorkerOK, SendOK, Same, Spent
<1>4. SettleOK(v)'
    BY DEF WorkerOK, SettleOK, Same, Kept
<1> QED BY <1>1, <1>2, <1>3, <1>4 DEF WorkerOK

LEMMA StepInv ==
    ASSUME DInv, NEW w \in Workers, NEW d \in Deliveries, d = task[w].d,
           \/ task[w].phase \in Active
           \/ task[w].phase = "new" /\ task["recovery"].phase = "ended",
           task'[w].d = d,
           \A v \in Workers : v # w => task'[v] = task[v],
           w = "recovery" => task'[w].phase \in Active \cup {"pick"},
           \A e \in Deliveries : e # d => Same(e),
           UNCHANGED <<names, loaded, loadedCount>>,
           TypeOK', WorkerOK(w)',
           d \in json' => d \in accepted' /\ d \notin failedDir',
           \A p \in 1..Payloads : sends'[d][p] <= 1 + (crashedOn'[d] + retryCount'[d]),
           d \in json' /\ task'[w].phase \notin Attempting =>
               \A p \in 1..Payloads : sends'[d][p] <= crashedOn'[d] + retryCount'[d]
    PROVE  DInv'
<1> USE DeliveryAssumption
<1>1. /\ \A v \in Workers : v # w /\ task[v].d = d =>
            \/ v = "recovery" /\ task[v].phase = "ended"
            \/ v # "recovery" /\ task[v].phase = "done" /\ ~task[v].queued
      /\ names = {} /\ d \notin loaded
      /\ w # "recovery" => task["recovery"].phase = "ended"
    BY Alone
<1>2. ASSUME NEW v \in Workers PROVE WorkerOK(v)'
  <2>1. CASE v # w /\ task[v].d # d
    <3>1. task'[v] = task[v] /\ Same(task[v].d) /\ WorkerOK(v)
        BY <2>1, TaskFields DEF DInv, TypeOK
    <3> QED BY <3>1, WorkerSame
  <2>2. CASE v # w /\ task[v].d = d
    <3>1. task'[v] = task[v] /\ WorkerOK(v)
        BY <2>2 DEF DInv
    <3>2. \/ v = "recovery" /\ task[v].phase = "ended"
          \/ v # "recovery" /\ task[v].phase = "done" /\ ~task[v].queued
        BY <1>1, <2>2
    <3> QED BY <3>1, <3>2 DEF WorkerOK, RoleOK, NewOK, SendOK, SettleOK
  <2> QED BY <2>1, <2>2
<1>3. ASSUME NEW e \in Deliveries PROVE EntryOK(e)'
  <2>1. CASE e = d
    <3>1. Attempted(e)' <=> task'[w].phase \in Attempting
        BY <1>1, <2>1 DEF Attempted, Attempting
    <3> QED BY <1>1, <2>1, <3>1 DEF EntryOK, Spent
  <2>2. CASE e # d
    <3>1. Attempted(e)' <=> Attempted(e)
        BY <2>2 DEF Attempted
    <3>2. Same(e) /\ EntryOK(e)
        BY <2>2 DEF DInv
    <3> QED BY <3>1, <3>2 DEF EntryOK, Spent, Same
  <2> QED BY <2>1, <2>2
<1>4. RecoveryOK'
  <2>1. CASE w = "recovery"
    <3>1. \A e \in Deliveries : task'[e] = task[e] /\ task[e].phase \in {"new", "done"} /\ ~task[e].queued
        BY <2>1 DEF DInv, RecoveryOK, Active, Attempting, Workers
    <3> QED BY <1>1, <2>1, <3>1 DEF RecoveryOK, Active, Attempting
  <2>2. CASE w # "recovery"
      BY <1>1, <2>2 DEF RecoveryOK, DInv, Workers, Active, Attempting
  <2> QED BY <2>1, <2>2
<1> QED BY <1>2, <1>3, <1>4 DEF DInv

-----------------------------------------------------------------------------
(* Every action keeps the invariant.                                         *)

LEMMA DeliveryInit == Init => DInv
<1> SUFFICES ASSUME Init PROVE DInv
    OBVIOUS
<1> USE DeliveryAssumption
<1> DEFINE d0 == CHOOSE d \in Deliveries : TRUE
<1>1. d0 \in Deliveries /\ 1 \in 1..Payloads /\ 0 \in 0..MaxRetries
    OBVIOUS
<1>2. \A phase \in Phases, d \in Deliveries : Idle(phase, d) \in Tasks
    BY <1>1 DEF Idle, Tasks
<1>3. /\ task \in [Workers -> Tasks]
      /\ task["recovery"] = Idle("off", d0)
      /\ \A w \in Deliveries : task[w] = Idle("new", w)
    BY <1>1, <1>2 DEF Init, Workers, Phases
<1>4. TypeOK
    BY <1>1, <1>3 DEF Init, TypeOK
<1>5. ASSUME NEW w \in Workers PROVE WorkerOK(w)
  <2>1. CASE w = "recovery"
      BY <1>3, <2>1 DEF WorkerOK, RoleOK, NewOK, SendOK, SettleOK, Idle, RecoveryPhases
  <2>2. CASE w # "recovery"
    <3>1. w \in Deliveries /\ task[w] = Idle("new", w)
        BY <1>3, <2>2 DEF Workers
    <3> QED BY <2>2, <3>1 DEF WorkerOK, RoleOK, NewOK, SendOK, SettleOK, Idle, LivePhases, Init
  <2> QED BY <2>1, <2>2
<1>6. \A d \in Deliveries : EntryOK(d)
    BY DEF EntryOK, Init, Spent
<1>7. RecoveryOK
  <2>1. /\ task["recovery"].phase = "off"
        /\ \A d \in Deliveries : task[d].phase = "new" /\ ~task[d].queued
    <3>1. \A phase, d : Idle(phase, d).phase = phase /\ ~Idle(phase, d).queued
        BY DEF Idle
    <3> QED BY <1>3, <3>1
  <2> QED BY <2>1 DEF RecoveryOK, Init, Attempting
<1> QED BY <1>4, <1>5, <1>6, <1>7 DEF DInv

LEMMA EnqueueDeliveryInv ==
    ASSUME ~RecoveryOverlaps, DInv, NEW d \in Deliveries, EnqueueDelivery(d)
    PROVE  DInv'
<1> USE DeliveryAssumption
<1>1. /\ task[d].phase = "new" /\ task["recovery"].phase = "ended"
      /\ json' = json \cup {d} /\ accepted' = accepted \cup {d}
      /\ task' = [task EXCEPT ![d].phase = "send", ![d].queued = TRUE]
      /\ UNCHANGED <<marker, failedDir, retryCount, names, loaded, loadedCount, crashes,
                     sends, aborted, crashedOn>>
    BY DEF EnqueueDelivery, Calm, recoveryVars
<1>2. d \in Workers /\ d # "recovery" /\ task \in [Workers -> Tasks]
    BY DEF Workers, DInv, TypeOK
<1>3. TaskIs(d, "send", task[d].at, TRUE, task[d].partial, task[d].count)
    BY ZenonT(30), <1>1, <1>2 DEF TaskIs, Tasks, Phases
<1>4. /\ task[d].d = d /\ d \notin failedDir /\ retryCount[d] = 0 /\ ~task[d].partial
      /\ task[d].at = 1 /\ \A p \in 1..Payloads : sends[d][p] = 0
    BY <1>1, <1>2 DEF DInv, WorkerOK, RoleOK, NewOK
<1>5. TypeOK'
    BY <1>1, <1>3 DEF DInv, TypeOK, TaskIs
<1>6. crashedOn[d] \in Nat /\ \A p \in 1..Payloads : sends[d][p] <= Spent(d)
    BY <1>4, Counters DEF DInv, Spent
<1>7. WorkerOK(d)'
    BY <1>1, <1>2, <1>3, <1>4, <1>6 DEF WorkerOK, RoleOK, NewOK, SendOK, SettleOK, TaskIs, Spent,
       LivePhases
<1>8. \A e \in Deliveries : e # d => Same(e)
    BY <1>1 DEF Same
<1> QED BY <1>1, <1>2, <1>3, <1>4, <1>5, <1>6, <1>7, <1>8, StepInv DEF TaskIs, Spent, Attempting

LEMMA EnqueueFailsInv ==
    ASSUME ~RecoveryOverlaps, DInv, NEW d \in Deliveries, EnqueueFails(d)
    PROVE  DInv'
<1> USE DeliveryAssumption
<1>1. /\ task[d].phase = "new" /\ task["recovery"].phase = "ended" /\ Goto(d, "send")
      /\ UNCHANGED <<json, marker, failedDir, retryCount, names, loaded, loadedCount, crashes,
                     accepted, sends, aborted, crashedOn>>
    BY DEF EnqueueFails, Calm, recoveryVars, files, history
<1>2. d \in Workers /\ d # "recovery" /\ task \in [Workers -> Tasks] /\ "send" \in Phases
    BY DEF Workers, DInv, TypeOK, Phases
<1>3. TaskIs(d, "send", task[d].at, task[d].queued, task[d].partial, task[d].count)
    BY <1>1, <1>2, GotoSets
<1>4. /\ task[d].d = d /\ d \notin failedDir /\ d \notin json /\ d \notin accepted
      /\ retryCount[d] = 0 /\ ~task[d].partial /\ ~task[d].queued
      /\ task[d].at = 1 /\ \A p \in 1..Payloads : sends[d][p] = 0
    BY <1>1, <1>2 DEF DInv, WorkerOK, RoleOK, NewOK
<1>5. TypeOK'
    BY <1>1, <1>3 DEF DInv, TypeOK, TaskIs
<1>6. crashedOn[d] \in Nat /\ \A p \in 1..Payloads : sends[d][p] <= Spent(d)
    BY <1>4, Counters DEF DInv, Spent
<1>7. WorkerOK(d)'
    BY <1>1, <1>2, <1>3, <1>4, <1>6 DEF WorkerOK, RoleOK, NewOK, SendOK, SettleOK, TaskIs, Spent,
       LivePhases
<1>8. \A e \in Deliveries : e # d => Same(e)
    BY <1>1 DEF Same
<1> QED BY <1>1, <1>2, <1>3, <1>4, <1>5, <1>6, <1>7, <1>8, StepInv DEF TaskIs, Spent, Attempting

\* A payload was sent, or was not and its failure may be ignored.
PayloadTried(d, at) ==
    /\ sends' \in [Deliveries -> [1..Payloads -> Nat]]
    /\ \A e \in Deliveries : e # d => sends'[e] = sends[e]
    /\ \A p \in 1..Payloads : p # at => sends'[d][p] = sends[d][p]
    /\ sends'[d][at] <= sends[d][at] + 1
    /\ d \notin BestEffort => sends'[d][at] > 0

\* The loop goes on with the next payload, or the attempt is settled.
LEMMA NextPayloadInv ==
    ASSUME DInv, NEW w \in Workers, NEW d \in Deliveries, d = task[w].d, task[w].phase = "send",
           NEW partial \in BOOLEAN, NextPayload(w, partial),
           partial => w # "recovery" /\ d \in BestEffort,
           PayloadTried(d, task[w].at),
           UNCHANGED <<json, marker, failedDir, retryCount, names, loaded, loadedCount, crashes,
                       accepted, aborted, crashedOn>>
    PROVE  DInv'
<1> USE DeliveryAssumption
<1> DEFINE at == task[w].at
<1>0. /\ sends' \in [Deliveries -> [1..Payloads -> Nat]]
      /\ \A e \in Deliveries : e # d => sends'[e] = sends[e]
      /\ \A p \in 1..Payloads : p # at => sends'[d][p] = sends[d][p]
      /\ sends'[d][at] <= sends[d][at] + 1
      /\ d \notin BestEffort => sends'[d][at] > 0
    BY DEF PayloadTried
<1> USE <1>0
<1>1. /\ task \in [Workers -> Tasks] /\ at \in 1..Payloads /\ task[w].queued \in BOOLEAN
      /\ retryCount[d] \in Nat /\ crashedOn[d] \in Nat
      /\ \A p \in 1..Payloads : sends[d][p] \in Nat /\ sends'[d][p] \in Nat
  <2>1. sends'[d] \in [1..Payloads -> Nat]
      OBVIOUS
  <2>2. \A p \in 1..Payloads : sends'[d][p] \in Nat
      BY <2>1
  <2> QED BY <2>2, TaskFields, Counters DEF DInv, TypeOK
<1>2. /\ IF w = "recovery" \/ task[w].queued THEN d \in json ELSE d \notin json /\ d \notin accepted
      /\ retryCount[d] < MaxRetries
      /\ \A p \in 1..Payloads :
            /\ p >= at => sends[d][p] <= crashedOn[d] + retryCount[d]
            /\ p < at /\ d \notin BestEffort => sends[d][p] > 0
    BY DEF DInv, WorkerOK, SendOK, Spent
<1>3. /\ w = "recovery" => task[w].phase \in RecoveryPhases
      /\ w # "recovery" => task[w].d = w
    BY DEF DInv, WorkerOK, RoleOK
<1>4. \A e \in Deliveries : e # d => Same(e)
    BY DEF Same
<1>5. \A p \in 1..Payloads : sends'[d][p] <= 1 + (crashedOn[d] + retryCount[d])
  <2>1. \A p \in 1..Payloads : sends[d][p] <= 1 + (crashedOn[d] + retryCount[d])
      BY DEF DInv, EntryOK, Spent
  <2>2. sends'[d][at] <= 1 + (crashedOn[d] + retryCount[d])
    <3>1. at >= at
        BY <1>1
    <3>2. sends[d][at] <= crashedOn[d] + retryCount[d]
        BY <1>1, <1>2, <3>1
    <3>3. sends[d][at] \in Nat /\ sends'[d][at] \in Nat /\ crashedOn[d] + retryCount[d] \in Nat
      <4>1. sends[d][at] \in Nat
          BY <1>1
      <4>2. sends'[d][at] \in Nat
          BY <1>1
      <4>3. crashedOn[d] + retryCount[d] \in Nat
          BY SMTT(30), <1>1
      <4> QED BY <4>1, <4>2, <4>3
    <3>4. \A a, b, c \in Nat : b <= a + 1 /\ a <= c => b <= 1 + c
        OBVIOUS
    <3> QED BY <3>2, <3>3, <3>4
  <2> QED BY <2>1, <2>2
<1>6. d \in json => d \in accepted /\ d \notin failedDir
    BY DEF DInv, EntryOK
<1>7. /\ \A p \in 1..Payloads : p >= at + 1 => sends'[d][p] <= crashedOn[d] + retryCount[d]
      /\ \A p \in 1..Payloads : p < at + 1 /\ d \notin BestEffort => sends'[d][p] > 0
  <2>1. ASSUME NEW p \in 1..Payloads, p >= at + 1
        PROVE  sends'[d][p] <= crashedOn[d] + retryCount[d]
    <3>1. p # at /\ p >= at
      <4>1. at \in Nat /\ p \in Nat
          BY <1>1
      <4>2. \A a, b \in Nat : b >= a + 1 => b # a /\ b >= a
          OBVIOUS
      <4> QED BY <2>1, <4>1, <4>2
    <3>2. sends'[d][p] = sends[d][p]
        BY <3>1
    <3>3. sends[d][p] <= crashedOn[d] + retryCount[d]
        BY <1>2, <3>1
    <3> QED BY <3>2, <3>3
  <2>2. ASSUME NEW p \in 1..Payloads, p < at + 1, d \notin BestEffort
        PROVE  sends'[d][p] > 0
    <3>1. p = at \/ (p # at /\ p < at)
        BY <1>1, <2>2
    <3> QED BY <1>2, <2>2, <3>1
  <2> QED BY <2>1, <2>2
<1>8. CASE at < Payloads /\ TaskIs(w, "send", at + 1, task[w].queued, partial, task[w].count)
  <2>1. TypeOK'
      BY <1>8 DEF DInv, TypeOK, TaskIs
  <2>2. WorkerOK(w)'
      BY ZenonT(30), <1>2, <1>3, <1>7, <1>8 DEF WorkerOK, RoleOK, NewOK, SendOK, SettleOK, TaskIs, Spent,
         LivePhases, RecoveryPhases
  <2> QED BY <1>4, <1>5, <1>6, <1>8, <2>1, <2>2, StepInv DEF TaskIs, Attempting, Active
<1>9. CASE at = Payloads /\ TaskIs(w, Settlement(w, partial), at, task[w].queued, partial, task[w].count)
  <2>1. TypeOK'
      BY <1>9 DEF DInv, TypeOK, TaskIs
  <2>2. d \in BestEffort \/ \A p \in 1..Payloads : sends'[d][p] > 0
      BY <1>1, <1>7, <1>9
  <2>3. \/ task'[w].phase = "done" /\ w # "recovery" /\ ~task[w].queued /\ d \notin json
        \/ task'[w].phase = "fail1" /\ w # "recovery" /\ task[w].queued /\ d \in json
        \/ task'[w].phase = "ack1" /\ ~partial /\ (w = "recovery" \/ task[w].queued) /\ d \in json
      BY <1>2, <1>9 DEF Settlement, TaskIs
  <2>4. RoleOK(w)'
      BY <1>3, <1>9, <2>3 DEF RoleOK, TaskIs, LivePhases, RecoveryPhases
  <2>5. NewOK(w)' /\ SendOK(w)'
      BY <2>3 DEF NewOK, SendOK
  <2>6. SettleOK(w)'
      BY <1>2, <1>9, <2>2, <2>3 DEF SettleOK, TaskIs, Kept
  <2> QED BY <1>4, <1>5, <1>6, <1>9, <2>1, <2>3, <2>4, <2>5, <2>6, StepInv
          DEF TaskIs, Attempting, Active, WorkerOK
<1> QED BY <1>1, <1>8, <1>9, NextPayloadSets

LEMMA SendPayloadInv == ASSUME DInv, NEW w \in Workers, SendPayload(w) PROVE DInv'
<1> USE DeliveryAssumption
<1> DEFINE d == task[w].d
           at == task[w].at
           partial == task[w].partial
<1>1. d \in Deliveries /\ at \in 1..Payloads /\ partial \in BOOLEAN /\ task[w].phase = "send"
    BY TaskFields DEF DInv, TypeOK, SendPayload
<1>2. /\ Sent(d, at, 1)
      /\ NextPayload(w, partial)
      /\ UNCHANGED <<json, marker, failedDir, retryCount, names, loaded, loadedCount, crashes,
                     accepted, aborted, crashedOn>>
    BY DEF SendPayload, Sent, files, recoveryVars
<1>3. /\ sends' \in [Deliveries -> [1..Payloads -> Nat]]
      /\ sends'[d][at] = sends[d][at] + 1
      /\ \A p \in 1..Payloads : p # at => sends'[d][p] = sends[d][p]
      /\ \A e \in Deliveries : e # d => sends'[e] = sends[e]
    BY <1>1, <1>2, SendsSets DEF DInv, TypeOK
<1>4. sends[d][at] \in Nat
    BY <1>1, Counters DEF DInv
<1>5. partial => w # "recovery" /\ d \in BestEffort
    BY DEF DInv, WorkerOK, RoleOK
<1>6. PayloadTried(d, at)
    BY SMTT(30), <1>3, <1>4 DEF PayloadTried
<1> HIDE DEF partial
<1> QED BY <1>1, <1>2, <1>5, <1>6, NextPayloadInv

LEMMA PayloadFailsBestEffortInv ==
    ASSUME DInv, NEW w \in Workers, PayloadFailsBestEffort(w)
    PROVE  DInv'
<1> USE DeliveryAssumption
<1> DEFINE d == task[w].d
           partial == task[w].partial \/ (w # "recovery" /\ w \in ReportsErrors)
<1>1. /\ d \in Deliveries /\ task[w].at \in 1..Payloads /\ partial \in BOOLEAN
      /\ task[w].phase = "send" /\ d \in BestEffort
    BY TaskFields DEF DInv, TypeOK, PayloadFailsBestEffort
<1>2. /\ NextPayload(w, partial)
      /\ UNCHANGED <<json, marker, failedDir, retryCount, names, loaded, loadedCount, crashes,
                     accepted, sends, aborted, crashedOn>>
    BY DEF PayloadFailsBestEffort, files, recoveryVars, history
<1>3. partial => w # "recovery" /\ d \in BestEffort
    BY <1>1 DEF DInv, WorkerOK, RoleOK
<1>4. sends \in [Deliveries -> [1..Payloads -> Nat]] /\ sends[d][task[w].at] \in Nat
    BY <1>1, Counters DEF DInv, TypeOK
<1>5. PayloadTried(d, task[w].at)
  <2>1. sends' = sends
      BY <1>2
  <2>2. sends[d][task[w].at] <= sends[d][task[w].at] + 1
      BY <1>4
  <2> QED BY <1>1, <1>4, <2>1, <2>2 DEF PayloadTried
<1> HIDE DEF partial
<1> QED BY <1>1, <1>2, <1>3, <1>5, NextPayloadInv

LEMMA PayloadThrowsInv == ASSUME DInv, NEW w \in Workers, PayloadThrows(w) PROVE DInv'
<1> USE DeliveryAssumption
<1> DEFINE d == task[w].d
           at == task[w].at
<1>1. /\ d \in Deliveries /\ at \in 1..Payloads /\ task[w].phase = "send" /\ d \notin BestEffort
      /\ task \in [Workers -> Tasks] /\ {"fail1", "park", "done"} \subseteq Phases
    BY TaskFields DEF DInv, TypeOK, PayloadThrows, Phases
<1>2. PICK out \in {0, 1} : Sent(d, at, out)
    BY DEF PayloadThrows, Sent
<1>3. UNCHANGED <<json, marker, failedDir, retryCount, names, loaded, loadedCount, crashes,
                  accepted, aborted, crashedOn>>
    BY DEF PayloadThrows, files, recoveryVars
<1>4. /\ sends' \in [Deliveries -> [1..Payloads -> Nat]]
      /\ sends'[d][at] = sends[d][at] + out
      /\ \A p \in 1..Payloads : p # at => sends'[d][p] = sends[d][p]
      /\ \A e \in Deliveries : e # d => sends'[e] = sends[e]
  <2>1. sends \in [Deliveries -> [1..Payloads -> Nat]]
      BY DEF DInv, TypeOK
  <2>2. d \in Deliveries /\ at \in 1..Payloads /\ out \in {0, 1} /\ Sent(d, at, out)
      BY <1>1, <1>2
  <2> HIDE DeliveryAssumption
  <2> HIDE DEF d, at
  <2> QED BY <2>1, <2>2, SendsSets
<1>5. /\ IF w = "recovery" \/ task[w].queued THEN d \in json ELSE d \notin json
      /\ retryCount[d] < MaxRetries /\ ~task[w].partial
      /\ w # "recovery" => task[w].d = w
      /\ d \in json => d \in accepted /\ d \notin failedDir
    BY <1>1 DEF DInv, WorkerOK, RoleOK, SendOK, EntryOK
<1>6. PICK next \in {"fail1", "park", "done"} :
        /\ Goto(w, next)
        /\ \/ next \in {"fail1", "park"} /\ w = "recovery"
           \/ next = "fail1" /\ w # "recovery" /\ task[w].queued
           \/ next = "done" /\ w # "recovery" /\ ~task[w].queued
    BY DEF PayloadThrows
<1>7. TaskIs(w, next, at, task[w].queued, task[w].partial, task[w].count)
    BY <1>1, <1>6, GotoSets
<1>8. TypeOK'
    BY <1>3, <1>4, <1>7 DEF DInv, TypeOK, TaskIs
<1>9. WorkerOK(w)'
    BY <1>3, <1>5, <1>6, <1>7
       DEF WorkerOK, RoleOK, NewOK, SendOK, SettleOK, TaskIs, LivePhases, RecoveryPhases
<1>10. \A e \in Deliveries : e # d => Same(e)
    BY <1>3, <1>4 DEF Same
<1>11. \A p \in 1..Payloads : sends'[d][p] <= 1 + (crashedOn[d] + retryCount[d])
  <2>1. /\ \A p \in 1..Payloads : sends[d][p] <= 1 + (crashedOn[d] + retryCount[d])
        /\ sends[d][at] <= crashedOn[d] + retryCount[d]
    <3>1. at >= at
        BY <1>1
    <3> QED BY <1>1, <3>1 DEF DInv, EntryOK, WorkerOK, SendOK, Spent
  <2>2. sends[d][at] \in Nat /\ retryCount[d] \in Nat /\ crashedOn[d] \in Nat
      BY <1>1, Counters DEF DInv
  <2>3. crashedOn[d] + retryCount[d] \in Nat
      BY <2>2
  <2>4. \A a, c \in Nat, o \in {0, 1} : a <= c => a + o <= 1 + c
      OBVIOUS
  <2>5. sends'[d][at] <= 1 + (crashedOn[d] + retryCount[d])
      BY SMTT(30), <1>4, <2>1, <2>2, <2>3, <2>4
  <2> QED BY <1>4, <2>1, <2>5
<1> QED BY <1>1, <1>3, <1>5, <1>6, <1>7, <1>8, <1>9, <1>10, <1>11, StepInv
        DEF TaskIs, Attempting, Active

LEMMA SendAbortedInv == ASSUME DInv, NEW d \in Deliveries, SendAborted(d) PROVE DInv'
<1> USE DeliveryAssumption
<1>1. /\ task[d].phase = "send" /\ d \notin BestEffort /\ aborted' = aborted \cup {d}
      /\ Goto(d, IF task[d].queued THEN "ack1" ELSE "done")
      /\ UNCHANGED <<json, marker, failedDir, retryCount, names, loaded, loadedCount, crashes,
                     accepted, sends, crashedOn>>
    BY DEF SendAborted, files, recoveryVars
<1>2. d \in Workers /\ d # "recovery" /\ task \in [Workers -> Tasks] /\ {"ack1", "done"} \subseteq Phases
    BY DEF Workers, DInv, TypeOK, Phases
<1>3. /\ task[d].d = d /\ ~task[d].partial
      /\ IF task[d].queued THEN d \in json ELSE d \notin json
      /\ d \in json => d \in accepted /\ d \notin failedDir
      /\ \A p \in 1..Payloads : sends[d][p] <= 1 + (crashedOn[d] + retryCount[d])
    BY <1>1, <1>2 DEF DInv, WorkerOK, RoleOK, SendOK, EntryOK, Spent
<1>4. TaskIs(d, IF task[d].queued THEN "ack1" ELSE "done", task[d].at, task[d].queued,
             task[d].partial, task[d].count)
    BY <1>1, <1>2, GotoSets
<1>5. TypeOK'
    BY <1>1, <1>4 DEF DInv, TypeOK, TaskIs
<1>6. WorkerOK(d)'
    BY <1>1, <1>2, <1>3, <1>4
       DEF WorkerOK, RoleOK, NewOK, SendOK, SettleOK, TaskIs, LivePhases
<1>7. \A e \in Deliveries : e # d => Same(e)
    BY <1>1 DEF Same
<1> QED BY <1>1, <1>2, <1>3, <1>4, <1>5, <1>6, <1>7, StepInv DEF TaskIs, Attempting, Active

\* What holds of the delivery a worker settles.
LEMMA Settling ==
    ASSUME DInv, NEW w \in Workers
    PROVE  LET d == task[w].d
           IN  /\ d \in Deliveries /\ task \in [Workers -> Tasks]
               /\ w = "recovery" => ~task[w].partial
               /\ w # "recovery" => task[w].d = w /\ (task[w].partial => w \in BestEffort)
               /\ d \in json => d \in accepted /\ d \notin failedDir
               /\ \A p \in 1..Payloads : sends[d][p] <= 1 + (crashedOn[d] + retryCount[d])
               /\ SettleOK(w)
               /\ retryCount[d] \in 0..MaxRetries /\ crashedOn[d] \in Nat
    BY TaskFields, Counters DEF DInv, TypeOK, WorkerOK, RoleOK, EntryOK, Spent

LEMMA AckRenameInv == ASSUME DInv, NEW w \in Workers, AckRename(w) PROVE DInv'
<1> USE DeliveryAssumption
<1> DEFINE d == task[w].d
<1>1. /\ d \in Deliveries /\ task \in [Workers -> Tasks] /\ task[w].phase = "ack1" /\ "ack2" \in Phases
      /\ d \in json /\ d \in accepted /\ ~task[w].partial
      /\ \A p \in 1..Payloads : sends[d][p] <= 1 + (crashedOn[d] + retryCount[d])
    BY Settling DEF AckRename, SettleOK, Phases
<1>2. /\ json' = json \ {d} /\ marker' = marker \cup {d} /\ Goto(w, "ack2")
      /\ UNCHANGED <<failedDir, retryCount, names, loaded, loadedCount, crashes, accepted, sends,
                     aborted, crashedOn>>
    BY <1>1 DEF AckRename, recoveryVars, history
<1>3. TaskIs(w, "ack2", task[w].at, task[w].queued, task[w].partial, task[w].count)
    BY <1>1, <1>2, GotoSets
<1>4. TypeOK'
    BY <1>1, <1>2, <1>3 DEF DInv, TypeOK, TaskIs
<1>5. WorkerOK(w)'
  <2>1. RoleOK(w)'
    <3>1. RoleOK(w)
        BY DEF DInv, WorkerOK
    <3> QED BY <1>1, <1>3, <3>1 DEF RoleOK, TaskIs, LivePhases, RecoveryPhases
  <2> QED BY <1>1, <1>2, <1>3, <2>1 DEF WorkerOK, NewOK, SendOK, SettleOK, TaskIs
<1>6. \A e \in Deliveries : e # d => Same(e)
    BY <1>2 DEF Same
<1> QED BY <1>1, <1>2, <1>3, <1>4, <1>5, <1>6, StepInv DEF TaskIs, Attempting, Active

LEMMA AckUnlinkInv == ASSUME DInv, NEW w \in Workers, AckUnlink(w) PROVE DInv'
<1> USE DeliveryAssumption
<1> DEFINE d == task[w].d
<1>1. /\ d \in Deliveries /\ task \in [Workers -> Tasks] /\ task[w].phase = "ack2"
      /\ d \notin json /\ ~task[w].partial
      /\ \A p \in 1..Payloads : sends[d][p] <= 1 + (crashedOn[d] + retryCount[d])
    BY Settling DEF AckUnlink, SettleOK
<1>2. /\ marker' = marker \ {d} /\ Return(w)
      /\ UNCHANGED <<json, failedDir, retryCount, names, loaded, loadedCount, crashes, accepted, sends,
                     aborted, crashedOn>>
    BY DEF AckUnlink, recoveryVars, history
<1>3. TaskIs(w, IF w = "recovery" THEN "pick" ELSE "done", task[w].at, task[w].queued,
             task[w].partial, task[w].count)
    BY <1>1, <1>2, ReturnSets
<1>4. TypeOK'
    BY <1>1, <1>2, <1>3 DEF DInv, TypeOK, TaskIs
<1>5. WorkerOK(w)'
  <2>1. RoleOK(w)'
    <3>1. RoleOK(w)
        BY DEF DInv, WorkerOK
    <3> QED BY <1>1, <1>3, <3>1 DEF RoleOK, TaskIs, LivePhases, RecoveryPhases
  <2> QED BY <1>1, <1>2, <1>3, <2>1 DEF WorkerOK, NewOK, SendOK, SettleOK, TaskIs
<1>6. \A e \in Deliveries : e # d => Same(e)
    BY <1>2 DEF Same
<1> QED BY <1>1, <1>2, <1>3, <1>4, <1>5, <1>6, StepInv DEF TaskIs, Attempting, Active

LEMMA FailReadInv == ASSUME DInv, NEW w \in Workers, FailRead(w) PROVE DInv'
<1> USE DeliveryAssumption
<1> DEFINE d == task[w].d
<1>1. /\ d \in Deliveries /\ task \in [Workers -> Tasks] /\ task[w].phase = "fail1"
      /\ d \in json /\ d \in accepted /\ d \notin failedDir
      /\ retryCount[d] < MaxRetries /\ retryCount[d] \in 0..MaxRetries
      /\ \A p \in 1..Payloads : sends[d][p] <= 1 + (crashedOn[d] + retryCount[d])
    BY Settling DEF FailRead, SettleOK
<1>2. /\ task' = [task EXCEPT ![w].phase = "fail2", ![w].count = retryCount[d]]
      /\ UNCHANGED <<json, marker, failedDir, retryCount, names, loaded, loadedCount, crashes,
                     accepted, sends, aborted, crashedOn>>
    BY <1>1 DEF FailRead, files, recoveryVars, history
<1>3. TaskIs(w, "fail2", task[w].at, task[w].queued, task[w].partial, retryCount[d])
    BY ZenonT(30), <1>1, <1>2 DEF TaskIs, Tasks, Phases
<1>4. TypeOK'
    BY <1>1, <1>2, <1>3 DEF DInv, TypeOK, TaskIs
<1>5. WorkerOK(w)'
  <2>1. RoleOK(w)'
    <3>1. RoleOK(w)
        BY DEF DInv, WorkerOK
    <3> QED BY <1>1, <1>3, <3>1 DEF RoleOK, TaskIs, LivePhases, RecoveryPhases
  <2> QED BY <1>1, <1>2, <1>3, <2>1 DEF WorkerOK, NewOK, SendOK, SettleOK, TaskIs
<1>6. \A e \in Deliveries : e # d => Same(e)
    BY <1>2 DEF Same
<1> QED BY <1>1, <1>2, <1>3, <1>4, <1>5, <1>6, StepInv DEF TaskIs, Attempting, Active

LEMMA FailWriteInv == ASSUME DInv, NEW w \in Workers, FailWrite(w) PROVE DInv'
<1> USE DeliveryAssumption
<1> DEFINE d == task[w].d
<1>1. /\ d \in Deliveries /\ task \in [Workers -> Tasks] /\ task[w].phase = "fail2"
      /\ d \in json /\ d \in accepted /\ d \notin failedDir
      /\ retryCount[d] < MaxRetries /\ retryCount[d] \in 0..MaxRetries
      /\ task[w].count = retryCount[d] /\ crashedOn[d] \in Nat
      /\ \A p \in 1..Payloads : sends[d][p] <= 1 + (crashedOn[d] + retryCount[d])
    BY Settling DEF FailWrite, SettleOK
<1>2. /\ json' = json \cup {d} /\ Return(w)
      /\ retryCount' = [retryCount EXCEPT ![d] = retryCount[d] + 1]
      /\ UNCHANGED <<marker, failedDir, names, loaded, loadedCount, crashes,
                     accepted, sends, aborted, crashedOn>>
    BY <1>1 DEF FailWrite, recoveryVars
<1>3. TaskIs(w, IF w = "recovery" THEN "pick" ELSE "done", task[w].at, task[w].queued,
             task[w].partial, task[w].count)
    BY <1>1, <1>2, ReturnSets
<1>4. /\ retryCount' \in [Deliveries -> 0..MaxRetries] /\ retryCount'[d] = retryCount[d] + 1
      /\ \A e \in Deliveries : e # d => retryCount'[e] = retryCount[e]
  <2>1. retryCount \in [Deliveries -> 0..MaxRetries]
      BY DEF DInv, TypeOK
  <2>2. retryCount[d] + 1 \in 0..MaxRetries
      BY <1>1
  <2> QED BY <1>1, <1>2, <2>1, <2>2
<1>5. TypeOK'
    BY <1>1, <1>2, <1>3, <1>4 DEF DInv, TypeOK, TaskIs
<1>6. WorkerOK(w)'
  <2>1. RoleOK(w)'
    <3>1. RoleOK(w)
        BY DEF DInv, WorkerOK
    <3> QED BY <1>1, <1>3, <3>1 DEF RoleOK, TaskIs, LivePhases, RecoveryPhases
  <2> QED BY <1>1, <1>2, <1>3, <2>1 DEF WorkerOK, NewOK, SendOK, SettleOK, TaskIs
<1>7. \A e \in Deliveries : e # d => Same(e)
    BY <1>2, <1>4 DEF Same
<1>8. \A p \in 1..Payloads : /\ sends'[d][p] <= crashedOn'[d] + retryCount'[d]
                              /\ sends'[d][p] <= 1 + (crashedOn'[d] + retryCount'[d])
  <2>1. ASSUME NEW p \in 1..Payloads
        PROVE  sends'[d][p] <= crashedOn[d] + (retryCount[d] + 1)
    <3>1. sends[d][p] <= 1 + (crashedOn[d] + retryCount[d]) /\ sends[d][p] \in Nat /\ retryCount[d] \in Nat
        BY <1>1, <2>1, Counters DEF DInv
    <3> QED BY <1>1, <1>2, <3>1
  <2>2. \A p \in 1..Payloads : sends'[d][p] \in Nat
      BY <1>1, <1>2, Counters DEF DInv
  <2>3. \A a, c, r \in Nat : a <= c + (r + 1) => a <= 1 + (c + (r + 1))
      OBVIOUS
  <2> QED BY <1>1, <1>2, <1>4, <2>1, <2>2, <2>3
<1> QED BY <1>1, <1>2, <1>3, <1>5, <1>6, <1>7, <1>8, StepInv DEF TaskIs, Attempting, Active

LEMMA MoveToFailedInv == ASSUME DInv, MoveToFailed PROVE DInv'
<1> USE DeliveryAssumption
<1> DEFINE d == task["recovery"].d
<1>0. "recovery" \in Workers
    BY DEF Workers
<1>1. /\ d \in Deliveries /\ task \in [Workers -> Tasks] /\ task["recovery"].phase = "park"
      /\ d \in json /\ ~task["recovery"].partial
      /\ \A p \in 1..Payloads : sends[d][p] <= 1 + (crashedOn[d] + retryCount[d])
    BY <1>0, Settling DEF MoveToFailed, SettleOK
<1>2. /\ json' = json \ {d} /\ failedDir' = failedDir \cup {d} /\ Return("recovery")
      /\ UNCHANGED <<marker, retryCount, names, loaded, loadedCount, crashes, accepted, sends,
                     aborted, crashedOn>>
    BY <1>1 DEF MoveToFailed, recoveryVars, history
<1>3. TaskIs("recovery", "pick", task["recovery"].at, task["recovery"].queued,
             task["recovery"].partial, task["recovery"].count)
    BY <1>0, <1>1, <1>2, ReturnSets
<1>4. TypeOK'
    BY <1>1, <1>2, <1>3 DEF DInv, TypeOK, TaskIs
<1>5. WorkerOK("recovery")'
    BY <1>1, <1>3 DEF WorkerOK, RoleOK, NewOK, SendOK, SettleOK, TaskIs, RecoveryPhases
<1>6. \A e \in Deliveries : e # d => Same(e)
    BY <1>2 DEF Same
<1> QED BY <1>0, <1>1, <1>2, <1>3, <1>4, <1>5, <1>6, StepInv DEF TaskIs, Attempting, Active

\* A step of the recovery pass between two entries.
LEMMA RecoveryStepInv ==
    ASSUME DInv, task["recovery"].phase \in {"off", "load", "pick"},
           TypeOK', WorkerOK("recovery")', RecoveryOK',
           \A v \in Deliveries : task'[v] = task[v],
           UNCHANGED <<json, failedDir, retryCount, accepted, sends, aborted, crashedOn>>,
           \A e \in Deliveries : /\ e \in names' => e \in json
                                 /\ e \in loaded' => e \in json /\ loadedCount'[e] = retryCount[e]
    PROVE  DInv'
<1> USE DeliveryAssumption
<1>1. ASSUME NEW v \in Workers PROVE WorkerOK(v)'
  <2>1. CASE v \in Deliveries
    <3>1. task'[v] = task[v] /\ Same(task[v].d) /\ WorkerOK(v)
        BY <2>1 DEF DInv, Same
    <3> QED BY <3>1, WorkerSame
  <2>2. CASE v \notin Deliveries
    <3>1. \A u \in Workers : u = v => u = "recovery"
        BY <2>2 DEF Workers
    <3> QED BY <3>1
  <2> QED BY <2>1, <2>2
<1>2. ASSUME NEW e \in Deliveries PROVE EntryOK(e)'
  <2>1. ~Attempted(e)
      BY DEF Attempted, Attempting, DInv, RecoveryOK, Workers
  <2> QED BY <2>1 DEF DInv, EntryOK, Spent
<1> QED BY <1>1, <1>2 DEF DInv

LEMMA ListQueueInv == ASSUME DInv, ListQueue PROVE DInv'
<1> USE DeliveryAssumption
<1> DEFINE next == IF json = {} THEN "ended" ELSE "load"
<1>1. /\ task["recovery"].phase = "off" /\ names' = json /\ marker' = {} /\ Goto("recovery", next)
      /\ UNCHANGED <<json, failedDir, retryCount, loaded, loadedCount, crashes, accepted, sends,
                     aborted, crashedOn>>
    BY DEF ListQueue, history
<1>2. "recovery" \in Workers /\ next \in Phases /\ task \in [Workers -> Tasks]
    BY DEF Workers, Phases, DInv, TypeOK
<1>3. TaskIs("recovery", next, task["recovery"].at, task["recovery"].queued,
             task["recovery"].partial, task["recovery"].count)
    BY <1>1, <1>2, GotoSets
<1>4. TypeOK'
    BY <1>1, <1>3 DEF DInv, TypeOK, TaskIs
<1>5. ~task["recovery"].partial /\ loaded = {}
    BY <1>1, <1>2 DEF DInv, WorkerOK, RoleOK, RecoveryOK
<1>6. WorkerOK("recovery")'
    BY <1>3, <1>5 DEF WorkerOK, RoleOK, NewOK, SendOK, SettleOK, TaskIs, RecoveryPhases
<1>7. \A v \in Deliveries : task'[v] = task[v]
    BY <1>3 DEF TaskIs, Workers
<1>8. RecoveryOK'
    BY <1>1, <1>3, <1>5, <1>7 DEF DInv, RecoveryOK, TaskIs, Attempting
<1> QED BY <1>1, <1>4, <1>5, <1>6, <1>7, <1>8, RecoveryStepInv

LEMMA LoadEntryInv == ASSUME DInv, NEW d \in Deliveries, LoadEntry(d) PROVE DInv'
<1> USE DeliveryAssumption
<1> DEFINE next == IF names' = {} THEN "pick" ELSE "load"
<1>1. /\ task["recovery"].phase = "load" /\ d \in names /\ names' = names \ {d}
      /\ IF d \in json
         THEN /\ loaded' = loaded \cup {d}
              /\ loadedCount' = [loadedCount EXCEPT ![d] = retryCount[d]]
         ELSE UNCHANGED <<loaded, loadedCount>>
      /\ UNCHANGED <<json, marker, failedDir, retryCount, crashes, accepted, sends, aborted, crashedOn>>
    BY DEF LoadEntry, files, history
<1>2. "recovery" \in Workers /\ task \in [Workers -> Tasks]
    BY DEF Workers, DInv, TypeOK
<1>3. TaskIs("recovery", next, task["recovery"].at, task["recovery"].queued,
             task["recovery"].partial, task["recovery"].count)
  <2>1. CASE names' = {}
    <3>1. Goto("recovery", "pick") /\ "pick" \in Phases
        BY <2>1 DEF LoadEntry, Phases
    <3> QED BY <1>2, <2>1, <3>1, GotoSets
  <2>2. CASE names' # {}
    <3>1. task' = task
        BY <2>2 DEF LoadEntry
    <3> QED BY <1>1, <1>2, <2>2, <3>1 DEF TaskIs
  <2> QED BY <2>1, <2>2
<1>4. loadedCount \in [Deliveries -> 0..MaxRetries] /\ retryCount[d] \in 0..MaxRetries
    BY DEF DInv, TypeOK
<1>5. loadedCount' \in [Deliveries -> 0..MaxRetries] /\ loaded' \subseteq loaded \cup {d}
    BY <1>1, <1>4
<1>6. TypeOK'
    BY <1>1, <1>3, <1>5 DEF DInv, TypeOK, TaskIs
<1>7. ~task["recovery"].partial
    BY <1>2 DEF DInv, WorkerOK, RoleOK
<1>8. WorkerOK("recovery")'
    BY <1>3, <1>7 DEF WorkerOK, RoleOK, NewOK, SendOK, SettleOK, TaskIs, RecoveryPhases
<1>9. \A v \in Deliveries : task'[v] = task[v]
    BY <1>3 DEF TaskIs, Workers
<1>10. RecoveryOK'
    BY <1>1, <1>3, <1>9 DEF DInv, RecoveryOK, TaskIs, Attempting
<1>11. ASSUME NEW e \in Deliveries
       PROVE  /\ e \in names' => e \in json
              /\ e \in loaded' => e \in json /\ loadedCount'[e] = retryCount[e]
  <2>1. /\ e \in names => e \in json
        /\ e \in loaded => e \in json /\ loadedCount[e] = retryCount[e]
      BY DEF DInv, EntryOK
  <2> QED BY <1>1, <1>4, <2>1
<1> QED BY <1>1, <1>6, <1>8, <1>9, <1>10, <1>11, RecoveryStepInv

\* The pass takes up an entry it has loaded.
LEMMA TakeUpInv ==
    ASSUME DInv, NEW d \in Deliveries, NEW phase \in {"send", "park", "pick"}, TakeUp(d, phase),
           phase = "send" => loadedCount[d] < MaxRetries
    PROVE  DInv'
<1> USE DeliveryAssumption
<1>1. /\ task["recovery"].phase = "pick" /\ d \in loaded /\ loaded' = loaded \ {d}
      /\ task' = [task EXCEPT !["recovery"] = Idle(phase, d)]
      /\ UNCHANGED <<json, marker, failedDir, retryCount, names, loadedCount, crashes, accepted, sends,
                     aborted, crashedOn>>
    BY DEF TakeUp, files, history
<1>2. "recovery" \in Workers /\ task \in [Workers -> Tasks] /\ Idle(phase, d) \in Tasks
    BY SMTT(30) DEF Workers, DInv, TypeOK, Idle, Tasks, Phases
<1>3. /\ task' \in [Workers -> Tasks] /\ task'["recovery"] = Idle(phase, d)
      /\ \A v \in Deliveries : task'[v] = task[v]
    BY <1>1, <1>2 DEF Workers
<1>4. /\ task'["recovery"].phase = phase /\ task'["recovery"].d = d /\ task'["recovery"].at = 1
      /\ ~task'["recovery"].partial
    BY <1>3 DEF Idle
<1>5. TypeOK'
    BY <1>1, <1>3 DEF DInv, TypeOK
<1>6. d \in json /\ loadedCount[d] = retryCount[d] /\ ~Attempted(d)
  <2>1. ~Attempted(d)
      BY <1>1 DEF Attempted, Attempting, DInv, RecoveryOK, Workers
  <2> QED BY <1>1, <2>1 DEF DInv, EntryOK
<1>7. \A p \in 1..Payloads : sends[d][p] <= crashedOn[d] + retryCount[d] /\ ~(p < 1)
    BY <1>6 DEF DInv, EntryOK, Spent
<1>8. WorkerOK("recovery")'
  <2>1. RoleOK("recovery")' /\ NewOK("recovery")' /\ SettleOK("recovery")'
      BY <1>1, <1>4, <1>6 DEF RoleOK, NewOK, SettleOK, RecoveryPhases
  <2>2. SendOK("recovery")'
      BY <1>1, <1>4, <1>6, <1>7 DEF SendOK, Spent
  <2> QED BY <2>1, <2>2 DEF WorkerOK
<1>9. RecoveryOK'
    BY <1>1, <1>3, <1>4 DEF DInv, RecoveryOK, Attempting
<1>10. \A e \in Deliveries : /\ e \in names' => e \in json
                             /\ e \in loaded' => e \in json /\ loadedCount'[e] = retryCount[e]
    BY <1>1 DEF DInv, EntryOK
<1> QED BY <1>1, <1>3, <1>5, <1>8, <1>9, <1>10, RecoveryStepInv

LEMMA PickInv ==
    ASSUME DInv, NEW d \in Deliveries, GiveUp(d) \/ Replay(d) \/ DeferBackoff(d)
    PROVE  DInv'
<1>1. loadedCount[d] \in 0..MaxRetries /\ MaxRetries \in Nat
    BY DeliveryAssumption DEF DInv, TypeOK
<1>2. PICK phase \in {"send", "park", "pick"} :
        TakeUp(d, phase) /\ (phase = "send" => loadedCount[d] < MaxRetries)
    BY <1>1 DEF GiveUp, Replay, DeferBackoff, GivesUp
<1> QED BY <1>2, TakeUpInv

LEMMA EndRecoveryInv == ASSUME DInv, EndRecovery PROVE DInv'
<1> USE DeliveryAssumption
<1>1. /\ task["recovery"].phase = "pick" /\ loaded' = {} /\ Goto("recovery", "ended")
      /\ UNCHANGED <<json, marker, failedDir, retryCount, names, loadedCount, crashes, accepted, sends,
                     aborted, crashedOn>>
    BY DEF EndRecovery, files, history
<1>2. "recovery" \in Workers /\ "ended" \in Phases /\ task \in [Workers -> Tasks]
    BY DEF Workers, Phases, DInv, TypeOK
<1>3. TaskIs("recovery", "ended", task["recovery"].at, task["recovery"].queued,
             task["recovery"].partial, task["recovery"].count)
    BY <1>1, <1>2, GotoSets
<1>4. TypeOK'
    BY <1>1, <1>3 DEF DInv, TypeOK, TaskIs
<1>5. ~task["recovery"].partial /\ names = {}
    BY <1>1, <1>2 DEF DInv, WorkerOK, RoleOK, RecoveryOK
<1>6. WorkerOK("recovery")'
    BY <1>3, <1>5 DEF WorkerOK, RoleOK, NewOK, SendOK, SettleOK, TaskIs, RecoveryPhases
<1>7. \A v \in Deliveries : task'[v] = task[v]
    BY <1>3 DEF TaskIs, Workers
<1>8. RecoveryOK'
    BY <1>1, <1>3, <1>5, <1>7 DEF RecoveryOK, TaskIs, Attempting
<1> QED BY <1>1, <1>4, <1>5, <1>6, <1>7, <1>8, RecoveryStepInv

\* What a crash hit is paid for by the crash; the rest was paid for before.
LEMMA CrashInv == ASSUME DInv, Crash PROVE DInv'
<1> USE DeliveryAssumption
<1> DEFINE restarted(w) == IF w = "recovery" THEN Idle("off", task[w].d)
                           ELSE IF task[w].phase = "new" THEN task[w] ELSE Idle("done", w)
           hit(d) == IF InFlight(d) THEN 1 ELSE 0
<1>1. /\ task' = [w \in Workers |-> restarted(w)] /\ names' = {} /\ loaded' = {}
      /\ crashedOn' = [d \in Deliveries |-> crashedOn[d] + hit(d)]
      /\ crashes < MaxCrashes /\ crashes' = crashes + 1
      /\ UNCHANGED <<json, marker, failedDir, retryCount, loadedCount, accepted, sends, aborted>>
    BY DEF Crash, files
<1>2. \A phase \in Phases, d \in Deliveries : Idle(phase, d) \in Tasks
    BY DEF Idle, Tasks
<1>3. task \in [Workers -> Tasks] /\ \A w \in Workers : task[w].d \in Deliveries
    BY TaskFields DEF DInv, TypeOK
<1>4. \A w \in Workers : restarted(w) \in Tasks
    BY <1>2, <1>3 DEF Workers, Phases
<1>5. TypeOK'
  <2>1. task' \in [Workers -> Tasks]
      BY <1>1, <1>4
  <2>2. crashedOn' \in [Deliveries -> Nat]
    <3>1. \A d \in Deliveries : crashedOn[d] + hit(d) \in Nat
        BY Counters DEF DInv
    <3> QED BY <1>1, <3>1
  <2>3. crashes' \in 0..MaxCrashes
      BY <1>1 DEF DInv, TypeOK
  <2> QED BY <1>1, <2>1, <2>2, <2>3 DEF DInv, TypeOK
<1>6. /\ "recovery" \in Workers /\ task'["recovery"] = Idle("off", task["recovery"].d)
      /\ \A v \in Deliveries :
            /\ v \in Workers /\ v # "recovery"
            /\ \/ task[v].phase = "new" /\ task'[v] = task[v]
               \/ task'[v] = Idle("done", v)
    BY <1>1 DEF Workers
<1>7. \A phase, d : /\ Idle(phase, d).phase = phase /\ Idle(phase, d).d = d
                    /\ ~Idle(phase, d).queued /\ ~Idle(phase, d).partial
    BY DEF Idle
<1>8. ASSUME NEW v \in Workers PROVE WorkerOK(v)'
  <2>1. CASE v = "recovery"
      BY <1>6, <1>7, <2>1 DEF WorkerOK, RoleOK, NewOK, SendOK, SettleOK, RecoveryPhases
  <2>2. CASE v # "recovery" /\ task'[v] = Idle("done", v)
      BY <1>7, <2>2 DEF WorkerOK, RoleOK, NewOK, SendOK, SettleOK, LivePhases
  <2>3. CASE v # "recovery" /\ task[v].phase = "new" /\ task'[v] = task[v]
    <3>1. WorkerOK(v)
        BY DEF DInv
    <3> QED BY <1>1, <2>3, <3>1 DEF WorkerOK, RoleOK, NewOK, SendOK, SettleOK
  <2> QED BY <1>6, <2>1, <2>2, <2>3 DEF Workers
<1>9. \A v \in Deliveries : task'[v].phase \in {"new", "done"} /\ ~task'[v].queued
  <2>1. \A v \in Deliveries : task[v].phase = "new" => ~task[v].queued
      BY <1>6 DEF DInv, WorkerOK, NewOK
  <2> QED BY <1>6, <1>7, <2>1
<1>10. RecoveryOK'
    BY <1>1, <1>6, <1>7, <1>9 DEF RecoveryOK, Attempting
<1>11. ASSUME NEW d \in Deliveries PROVE EntryOK(d)'
  <2>1. /\ d \in json => d \in accepted /\ d \notin failedDir
        /\ d \in json /\ ~Attempted(d) => \A p \in 1..Payloads : sends[d][p] <= Spent(d)
        /\ \A p \in 1..Payloads : sends[d][p] <= 1 + Spent(d)
      BY DEF DInv, EntryOK
  <2>2. /\ Spent(d) \in Nat /\ retryCount[d] \in Nat /\ crashedOn[d] \in Nat
        /\ \A p \in 1..Payloads : sends[d][p] \in Nat
      BY Counters DEF DInv
  <2>3. CASE InFlight(d)
    <3>1. crashedOn'[d] = crashedOn[d] + 1
        BY <1>1, <2>3
    <3>2. Spent(d)' = Spent(d) + 1
        BY <1>1, <2>2, <3>1 DEF Spent
    <3>3. \A p \in 1..Payloads : sends[d][p] <= Spent(d) + 1 /\ sends[d][p] <= 1 + (Spent(d) + 1)
        BY <2>1, <2>2
    <3> QED BY <1>1, <2>1, <3>2, <3>3 DEF EntryOK
  <2>4. CASE ~InFlight(d)
    <3>1. crashedOn'[d] = crashedOn[d]
        BY <1>1, <2>2, <2>4
    <3>2. d \in json => \A p \in 1..Payloads : sends[d][p] <= Spent(d)
      <4>1. ASSUME Attempted(d) PROVE \A p \in 1..Payloads : sends[d][p] <= Spent(d)
        <5>1. PICK w \in Workers : task[w].d = d /\ task[w].phase \in Attempting
            BY <4>1 DEF Attempted
        <5>2. task[w].phase = "send" /\ ~(task[w].at > 1) /\ task[w].at \in 1..Payloads
            BY <1>3, <2>4, <5>1, TaskFields DEF InFlight, Attempting
        <5>3. \A p \in 1..Payloads : p >= task[w].at
            BY <5>2
        <5> QED BY <5>1, <5>2, <5>3 DEF DInv, WorkerOK, SendOK
      <4> QED BY <2>1, <4>1
    <3>3. Spent(d)' = Spent(d)
        BY <1>1, <3>1 DEF Spent
    <3> QED BY <1>1, <2>1, <3>2, <3>3 DEF EntryOK
  <2> QED BY <2>3, <2>4
<1> QED BY <1>5, <1>8, <1>10, <1>11 DEF DInv

LEMMA DeliveryStep ==
    ASSUME ~RecoveryOverlaps, DInv, [Next]_vars
    PROVE  DInv'
<1>1. CASE \E d \in Deliveries : \/ EnqueueDelivery(d) \/ EnqueueFails(d) \/ SendAborted(d)
                                 \/ LoadEntry(d) \/ GiveUp(d) \/ Replay(d) \/ DeferBackoff(d)
    BY <1>1, EnqueueDeliveryInv, EnqueueFailsInv, SendAbortedInv, LoadEntryInv, PickInv
<1>2. CASE \E w \in Workers : \/ SendPayload(w) \/ PayloadFailsBestEffort(w) \/ PayloadThrows(w)
                              \/ AckRename(w) \/ AckUnlink(w) \/ FailRead(w) \/ FailWrite(w)
    BY <1>2, SendPayloadInv, PayloadFailsBestEffortInv, PayloadThrowsInv, AckRenameInv,
       AckUnlinkInv, FailReadInv, FailWriteInv
<1>3. CASE ListQueue \/ MoveToFailed \/ EndRecovery \/ Crash
    BY <1>3, ListQueueInv, MoveToFailedInv, EndRecoveryInv, CrashInv
<1>4. CASE UNCHANGED vars
  <2>1. UNCHANGED <<json, marker, failedDir, retryCount, task, names, loaded, loadedCount, crashes,
                    accepted, sends, aborted, crashedOn>>
      BY <1>4 DEF vars, files, recoveryVars, history
  <2>2. TypeOK' /\ (\A w \in Workers : WorkerOK(w)')
      BY <2>1 DEF DInv, TypeOK, WorkerOK, RoleOK, NewOK, SendOK, SettleOK, Spent, Kept
  <2>3. RecoveryOK' /\ (\A d \in Deliveries : EntryOK(d)')
      BY <2>1 DEF DInv, EntryOK, RecoveryOK, Attempted, Spent
  <2> QED BY <2>2, <2>3 DEF DInv
<1> QED BY <1>1, <1>2, <1>3, <1>4 DEF Next

\* What the queue keeps true of every entry, across crashes and replays.
THEOREM DeliveryInvariant == ~RecoveryOverlaps /\ Spec => []DInv
<1> SUFFICES ASSUME ~RecoveryOverlaps PROVE Spec => []DInv
    OBVIOUS
<1>1. DInv /\ [Next]_vars => DInv'
    BY DeliveryStep
<1> QED BY DeliveryInit, <1>1, PTL DEF Spec

\* Types.
THEOREM TypeCorrect == ~RecoveryOverlaps /\ Spec => []TypeOK
<1> SUFFICES ASSUME ~RecoveryOverlaps PROVE Spec => []TypeOK
    OBVIOUS
<1>1. DInv => TypeOK
    BY DEF DInv
<1> QED BY DeliveryInvariant, <1>1, PTL

\* A best-effort call with a failed payload that its caller was told of leaves
\* its entry behind for the next recovery pass.
THEOREM PartialFailuresAreKept == ~RecoveryOverlaps /\ Spec => []PartialFailureKept
<1> SUFFICES ASSUME ~RecoveryOverlaps PROVE Spec => []PartialFailureKept
    OBVIOUS
<1>1. DInv => PartialFailureKept
  <2> SUFFICES ASSUME DInv, NEW d \in Deliveries,
                      task[d].phase = "done", task[d].queued, task[d].partial
               PROVE  d \in json
      BY DEF PartialFailureKept
  <2>1. d \in Workers /\ d # "recovery"
      BY DeliveryAssumption DEF Workers
  <2> QED BY <2>1 DEF DInv, WorkerOK, RoleOK, SettleOK
<1> QED BY DeliveryInvariant, <1>1, PTL

\* Every send of a payload after its first is paid for by a crash that hit its
\* delivery, or by one of the failures recorded in its entry.
THEOREM DuplicatesHaveCauses == ~RecoveryOverlaps /\ Spec => []DuplicateHasCause
<1> SUFFICES ASSUME ~RecoveryOverlaps PROVE Spec => []DuplicateHasCause
    OBVIOUS
<1>1. DInv => DuplicateHasCause
  <2> SUFFICES ASSUME DInv, NEW d \in Deliveries
               PROVE  /\ retryCount[d] <= MaxRetries
                      /\ \A p \in 1..Payloads : sends[d][p] <= 1 + crashedOn[d] + retryCount[d]
      BY DEF DuplicateHasCause
  <2>1. /\ retryCount[d] \in 0..MaxRetries /\ retryCount[d] \in Nat /\ crashedOn[d] \in Nat
        /\ \A p \in 1..Payloads : sends[d][p] \in Nat
      BY Counters DEF DInv
  <2>2. \A p \in 1..Payloads : sends[d][p] <= 1 + (crashedOn[d] + retryCount[d])
      BY DEF DInv, EntryOK, Spent
  <2>3. 1 + crashedOn[d] + retryCount[d] = 1 + (crashedOn[d] + retryCount[d])
      BY <2>1
  <2> QED BY <2>1, <2>2, <2>3, DeliveryAssumption
<1> QED BY DeliveryInvariant, <1>1, PTL

-----------------------------------------------------------------------------
(* The queue keeps the promise: OutboundPromise.                             *)

LEMMA FateSame ==
    ASSUME NEW e \in Owed, Same(e)
    PROVE  FateOf(e)' = FateOf(e)
    BY DEF Same, FateOf, Kept

LEMMA FateMoves ==
    ASSUME NEW d \in Owed, NEW from, NEW to, FateOf(d) \in from, FateOf(d)' = to,
           \A e \in Owed : e # d => FateOf(e)' = FateOf(e)
    PROVE  P!Move(d, from, to)
<1>1. Fate' = [e \in Owed |-> FateOf(e)']
    BY DEF Fate
<1>2. Fate[d] \in from
    BY DEF Fate
<1>3. Fate' = [Fate EXCEPT ![d] = to]
    BY <1>1 DEF Fate
<1> QED BY <1>2, <1>3 DEF P!Move

\* A step that leaves every fate alone, or that moves the fate of one message.
LEMMA FateStep ==
    ASSUME NEW d \in Deliveries, \A e \in Deliveries : e # d => Same(e),
           \/ d \notin Owed
           \/ FateOf(d)' = FateOf(d)
           \/ FateOf(d) = "none" /\ FateOf(d)' = "owed"
           \/ FateOf(d) \in {"none", "owed"} /\ FateOf(d)' = "kept"
           \/ FateOf(d) = "owed" /\ FateOf(d)' \in {"parked", "withdrawn"}
    PROVE  [P!Next]_Fate
<1>1. \A e \in Owed : e # d => FateOf(e)' = FateOf(e)
    BY FateSame DEF Owed
<1>2. CASE d \notin Owed \/ FateOf(d)' = FateOf(d)
  <2>1. \A e \in Owed : FateOf(e)' = FateOf(e)
      BY <1>1, <1>2
  <2>2. Fate' = [e \in Owed |-> FateOf(e)']
      BY DEF Fate
  <2> QED BY <2>1, <2>2 DEF Fate
<1>3. CASE d \in Owed /\ FateOf(d) = "none" /\ FateOf(d)' = "owed"
  <2>1. P!Move(d, {"none"}, "owed")
      BY <1>1, <1>3, FateMoves
  <2> QED BY <1>3, <2>1 DEF P!Next, P!Accept
<1>4. CASE d \in Owed /\ FateOf(d) \in {"none", "owed"} /\ FateOf(d)' = "kept"
  <2>1. P!Move(d, {"none", "owed"}, "kept")
      BY <1>1, <1>4, FateMoves
  <2> QED BY <1>4, <2>1 DEF P!Next, P!Keep
<1>5. CASE d \in Owed /\ FateOf(d) = "owed" /\ FateOf(d)' = "parked"
  <2>1. P!Move(d, {"owed"}, "parked")
      BY <1>1, <1>5, FateMoves
  <2> QED BY <1>5, <2>1 DEF P!Next, P!Park
<1>6. CASE d \in Owed /\ FateOf(d) = "owed" /\ FateOf(d)' = "withdrawn"
  <2>1. P!Move(d, {"owed"}, "withdrawn")
      BY <1>1, <1>6, FateMoves
  <2> QED BY <1>6, <2>1 DEF P!Next, P!Withdraw
<1> QED BY <1>2, <1>3, <1>4, <1>5, <1>6

LEMMA Unmoved ==
    ASSUME UNCHANGED <<json, failedDir, accepted, aborted, sends>>
    PROVE  [P!Next]_Fate
<1>1. \A e \in Owed : FateOf(e)' = FateOf(e)
    BY DEF FateOf, Kept
<1>2. Fate' = [e \in Owed |-> FateOf(e)']
    BY DEF Fate
<1> QED BY <1>1, <1>2 DEF Fate

LEMMA EnqueueMoves ==
    ASSUME ~RecoveryOverlaps, DInv, NEW d \in Deliveries, EnqueueDelivery(d)
    PROVE  [P!Next]_Fate
<1>1. /\ task[d].phase = "new" /\ json' = json \cup {d} /\ accepted' = accepted \cup {d}
      /\ UNCHANGED <<failedDir, retryCount, sends, aborted, crashedOn>>
    BY DEF EnqueueDelivery
<1>2. d \in Workers /\ d # "recovery" /\ 1 \in 1..Payloads
    BY DeliveryAssumption DEF Workers
<1>3. d \notin accepted /\ sends[d][1] = 0
    BY <1>1, <1>2 DEF DInv, WorkerOK, RoleOK, NewOK
<1>4. ~Kept(d) /\ ~Kept(d)'
    BY <1>1, <1>2, <1>3 DEF Kept
<1>5. FateOf(d) = "none" /\ FateOf(d)' = "owed"
    BY <1>1, <1>3, <1>4 DEF FateOf
<1>6. \A e \in Deliveries : e # d => Same(e)
    BY <1>1 DEF Same
<1> QED BY <1>5, <1>6, FateStep

\* A send keeps the promise when it was the last one missing.
LEMMA SendMoves ==
    ASSUME DInv, NEW w \in Workers, task[w].phase = "send", NEW out \in {0, 1},
           Sent(task[w].d, task[w].at, out),
           UNCHANGED <<json, failedDir, retryCount, accepted, aborted, crashedOn>>
    PROVE  [P!Next]_Fate
<1> SUFFICES ASSUME NEW d \in Deliveries, d = task[w].d PROVE [P!Next]_Fate
    BY TaskFields DEF DInv, TypeOK
<1> DEFINE at == task[w].at
<1>1. d \in Deliveries /\ at \in 1..Payloads
    BY TaskFields DEF DInv, TypeOK
<1>2. /\ sends'[d][at] = sends[d][at] + out
      /\ \A p \in 1..Payloads : p # at => sends'[d][p] = sends[d][p]
      /\ \A e \in Deliveries : e # d => sends'[e] = sends[e]
  <2>1. sends \in [Deliveries -> [1..Payloads -> Nat]]
      BY DEF DInv, TypeOK
  <2> QED BY <1>1, <2>1, SendsSets
<1>3. \A p \in 1..Payloads : sends[d][p] > 0 => sends'[d][p] > 0
  <2>1. sends[d][at] \in Nat
      BY <1>1, Counters DEF DInv
  <2> QED BY <1>2, <2>1
<1>4. Kept(d) => Kept(d)'
  <2>1. Kept(d)' <=> \A p \in 1..Payloads : sends'[d][p] > 0
      BY DEF Kept
  <2> QED BY <1>3, <2>1 DEF Kept
<1>5. (d \in json /\ d \in accepted) \/ d \notin accepted
    BY <1>1 DEF DInv, WorkerOK, SendOK, EntryOK
<1>6. FateOf(d)' = IF Kept(d)' THEN "kept" ELSE FateOf(d)
    BY <1>4 DEF FateOf
<1>7. Kept(d) \/ FateOf(d) \in {"none", "owed"}
    BY <1>5 DEF FateOf
<1>8. Kept(d) => FateOf(d) = "kept" /\ FateOf(d)' = "kept"
    BY <1>4, <1>6 DEF FateOf
<1>9. \A e \in Deliveries : e # d => Same(e)
    BY <1>2 DEF Same
<1>10. \/ FateOf(d)' = FateOf(d)
       \/ FateOf(d) \in {"none", "owed"} /\ FateOf(d)' = "kept"
    BY <1>6, <1>7, <1>8
<1> QED BY <1>1, <1>9, <1>10, FateStep

LEMMA SendAbortedMoves ==
    ASSUME DInv, NEW d \in Deliveries, SendAborted(d)
    PROVE  [P!Next]_Fate
<1>1. /\ task[d].phase = "send" /\ aborted' = aborted \cup {d}
      /\ UNCHANGED <<json, failedDir, retryCount, accepted, sends, crashedOn>>
    BY DEF SendAborted, files
<1>2. d \in Workers /\ d # "recovery"
    BY DeliveryAssumption DEF Workers
<1>3. d \in json \/ d \notin accepted
    BY <1>1, <1>2 DEF DInv, WorkerOK, RoleOK, SendOK
<1>4. Kept(d)' <=> Kept(d)
    BY <1>1 DEF Kept
<1>5. FateOf(d)' = FateOf(d)
    BY <1>1, <1>3, <1>4 DEF FateOf
<1>6. \A e \in Deliveries : e # d => Same(e)
    BY <1>1 DEF Same
<1> QED BY <1>5, <1>6, FateStep

LEMMA AckRenameMoves ==
    ASSUME DInv, NEW w \in Workers, AckRename(w)
    PROVE  [P!Next]_Fate
<1> SUFFICES ASSUME NEW d \in Deliveries, d = task[w].d PROVE [P!Next]_Fate
    BY TaskFields DEF DInv, TypeOK
<1>1. /\ d \in Deliveries /\ d \in json /\ d \in accepted /\ d \notin failedDir
      /\ d \in BestEffort \/ Kept(d) \/ d \in aborted
    BY Settling DEF AckRename, SettleOK
<1>2. json' = json \ {d} /\ UNCHANGED <<failedDir, retryCount, accepted, sends, aborted, crashedOn>>
    BY DEF AckRename, history
<1>3. Kept(d)' <=> Kept(d)
    BY <1>2 DEF Kept
<1>4. Kept(d) => FateOf(d) = "kept" /\ FateOf(d)' = "kept"
    BY <1>3 DEF FateOf
<1>5. ~Kept(d) /\ d \in aborted => FateOf(d) = "owed" /\ FateOf(d)' = "withdrawn"
    BY <1>1, <1>2, <1>3 DEF FateOf
<1>6. \A e \in Deliveries : e # d => Same(e)
    BY <1>2 DEF Same
<1>7. \/ d \notin Owed
      \/ FateOf(d)' = FateOf(d)
      \/ FateOf(d) = "owed" /\ FateOf(d)' = "withdrawn"
    BY <1>1, <1>4, <1>5 DEF Owed
<1> QED BY <1>1, <1>6, <1>7, FateStep

LEMMA FailWriteMoves ==
    ASSUME DInv, NEW w \in Workers, FailWrite(w)
    PROVE  [P!Next]_Fate
<1>1. task[w].d \in json
    BY Settling DEF FailWrite, SettleOK
<1> QED BY <1>1, Unmoved DEF FailWrite

LEMMA MoveToFailedMoves == ASSUME DInv, MoveToFailed PROVE [P!Next]_Fate
<1> SUFFICES ASSUME NEW d \in Deliveries, d = task["recovery"].d PROVE [P!Next]_Fate
    BY TaskFields DEF DInv, TypeOK, Workers
<1>1. "recovery" \in Workers
    BY DEF Workers
<1>2. d \in Deliveries /\ d \in json /\ d \in accepted
    BY <1>1, Settling DEF MoveToFailed, SettleOK
<1>3. /\ json' = json \ {d} /\ failedDir' = failedDir \cup {d}
      /\ UNCHANGED <<retryCount, accepted, sends, aborted, crashedOn>>
    BY <1>2 DEF MoveToFailed, history
<1>4. Kept(d)' <=> Kept(d)
    BY <1>3 DEF Kept
<1>5. Kept(d) => FateOf(d) = "kept" /\ FateOf(d)' = "kept"
    BY <1>4 DEF FateOf
<1>6. ~Kept(d) => FateOf(d) = "owed" /\ FateOf(d)' = "parked"
    BY <1>2, <1>3, <1>4 DEF FateOf
<1>7. \A e \in Deliveries : e # d => Same(e)
    BY <1>3 DEF Same
<1> QED BY <1>2, <1>5, <1>6, <1>7, FateStep

LEMMA StepKeepsPromise ==
    ASSUME ~RecoveryOverlaps, DInv, [Next]_vars
    PROVE  [P!Next]_Fate
<1>1. ASSUME NEW d \in Deliveries,
             \/ EnqueueDelivery(d) \/ EnqueueFails(d) \/ SendAborted(d)
             \/ LoadEntry(d) \/ GiveUp(d) \/ Replay(d) \/ DeferBackoff(d)
      PROVE  [P!Next]_Fate
  <2>1. CASE EnqueueDelivery(d)
      BY <2>1, EnqueueMoves
  <2>2. CASE SendAborted(d)
      BY <2>2, SendAbortedMoves
  <2>3. CASE EnqueueFails(d) \/ LoadEntry(d) \/ GiveUp(d) \/ Replay(d) \/ DeferBackoff(d)
      BY <2>3, Unmoved DEF EnqueueFails, LoadEntry, GiveUp, Replay, DeferBackoff, TakeUp, files, history
  <2> QED BY <1>1, <2>1, <2>2, <2>3
<1>2. ASSUME NEW w \in Workers,
             \/ SendPayload(w) \/ PayloadFailsBestEffort(w) \/ PayloadThrows(w)
             \/ AckRename(w) \/ AckUnlink(w) \/ FailRead(w) \/ FailWrite(w)
      PROVE  [P!Next]_Fate
  <2>1. CASE SendPayload(w)
    <3>1. Sent(task[w].d, task[w].at, 1)
        BY <2>1 DEF SendPayload, Sent
    <3> QED BY <2>1, <3>1, SendMoves DEF SendPayload, files
  <2>2. CASE PayloadThrows(w)
    <3>1. PICK out \in {0, 1} : Sent(task[w].d, task[w].at, out)
        BY <2>2 DEF PayloadThrows, Sent
    <3> QED BY <2>2, <3>1, SendMoves DEF PayloadThrows, files
  <2>3. CASE AckRename(w)
      BY <2>3, AckRenameMoves
  <2>4. CASE FailWrite(w)
      BY <2>4, FailWriteMoves
  <2>5. CASE PayloadFailsBestEffort(w) \/ AckUnlink(w) \/ FailRead(w)
      BY <2>5, Unmoved DEF PayloadFailsBestEffort, AckUnlink, FailRead, files, history
  <2> QED BY <1>2, <2>1, <2>2, <2>3, <2>4, <2>5
<1>3. CASE MoveToFailed
    BY <1>3, MoveToFailedMoves
<1>4. CASE ListQueue \/ EndRecovery \/ Crash \/ UNCHANGED vars
    BY <1>4, Unmoved DEF ListQueue, EndRecovery, Crash, vars, files, history
<1> QED BY <1>1, <1>2, <1>3, <1>4 DEF Next

\* The directory, its crashes, failures and replays do what OutboundPromise
\* says of every message that is not best effort.
THEOREM ImplementsPromise == ~RecoveryOverlaps /\ Spec => PromiseKept
<1> SUFFICES ASSUME ~RecoveryOverlaps PROVE Spec => PromiseKept
    OBVIOUS
<1>1. Init => P!Init
  <2> SUFFICES ASSUME Init PROVE P!Init
      OBVIOUS
  <2>1. 1 \in 1..Payloads
      BY DeliveryAssumption
  <2>2. \A d \in Deliveries : ~Kept(d)
      BY <2>1 DEF Init, Kept
  <2>3. \A d \in Owed : FateOf(d) = "none"
      BY <2>2 DEF Init, FateOf, Owed
  <2> QED BY <2>3 DEF P!Init, Fate
<1>2. DInv /\ [Next]_vars => [P!Next]_Fate
    BY StepKeepsPromise
<1> QED BY DeliveryInvariant, <1>1, <1>2, PTL DEF Spec, PromiseKept, P!Spec

=============================================================================
