---------------------------- MODULE DeliveryQueue ----------------------------
(***************************************************************************)
(* The write-ahead queue of outbound messages: an entry is written before  *)
(* the channel is called, removed when the message is out, updated when it *)
(* fails, and replayed by the recovery pass of the next gateway start      *)
(* (src/src/infra/outbound/delivery-queue.ts, deliver.ts).                 *)
(* The directory is the persistent state; every file operation is a step,  *)
(* because the process may die, and another task may run, between any two. *)
(* Backoff is abstracted: an entry that has failed before may or may not   *)
(* be eligible.  The recovery pass takes entries in any order.             *)
(***************************************************************************)
EXTENDS Naturals, FiniteSets

CONSTANTS
    Deliveries,       \* calls of deliverOutboundPayloads
    BestEffort,       \* those with bestEffort: a payload's error does not end the call
    ReportsErrors,    \* those whose caller passes onError
    Payloads,         \* payloads of each delivery: 1..Payloads
    MaxRetries,       \* MAX_RETRIES
    MaxCrashes,       \* bound: crashes of the gateway
    RecoveryOverlaps  \* messages may be sent while the recovery pass is at work

ASSUME DeliveryAssumption ==
    /\ BestEffort \subseteq Deliveries /\ ReportsErrors \subseteq Deliveries
    /\ "recovery" \notin Deliveries /\ Deliveries # {}
    /\ Payloads \in Nat \ {0} /\ MaxRetries \in Nat \ {0} /\ MaxCrashes \in Nat
    /\ RecoveryOverlaps \in BOOLEAN

VARIABLES
    json, marker, failedDir,   \* which {id}.json, {id}.delivered, failed/{id}.json exist
    retryCount,    \* the retryCount in {id}.json
    task,          \* the live calls and the recovery pass: where each one stands
    names, loaded, \* recovery: files still to read, entries read but not handled
    loadedCount,   \* recovery: retryCount as it was read
    crashes,
    accepted,      \* history: deliveries whose entry was written
    sends,         \* history: how often each payload went out
    aborted,       \* history: deliveries ended by their abort signal
    crashedOn      \* history: crashes that met a delivery in flight, not yet marked

files == <<json, marker, failedDir, retryCount>>
recoveryVars == <<names, loaded, loadedCount>>
history == <<accepted, sends, aborted, crashedOn>>
vars == <<files, task, recoveryVars, crashes, history>>

Workers == Deliveries \cup {"recovery"}
Phases == {"new", "send", "ack1", "ack2", "fail1", "fail2", "park", "done",
           "off", "load", "pick", "ended"}

\* d: the entry at work; at: the next payload; queued: it has a queue id;
\* partial: hadPartialFailure; count: what failDelivery has read.
Tasks == [phase : Phases, d : Deliveries, at : 1..Payloads, queued : BOOLEAN,
          partial : BOOLEAN, count : 0..MaxRetries]
Idle(phase, d) == [phase |-> phase, d |-> d, at |-> 1, queued |-> FALSE,
                   partial |-> FALSE, count |-> 0]

Goto(w, phase) == task' = [task EXCEPT ![w].phase = phase]
\* A live call returns; the recovery pass goes on with its next entry.
Return(w) == Goto(w, IF w = "recovery" THEN "pick" ELSE "done")

Calm == RecoveryOverlaps \/ task["recovery"].phase = "ended"

\* After the last payload: deliverOutboundPayloads settles its entry; the
\* recovery pass called it without a queue id and acknowledges by itself.
AckAlways(w, partial) == IF w # "recovery" /\ ~task[w].queued THEN "done" ELSE "ack1"
Settlement(w, partial) ==
    IF w # "recovery" /\ ~task[w].queued THEN "done"
    ELSE IF partial THEN "fail1" ELSE "ack1"

\* The loop goes on with the next payload, or ends.
NextPayload(w, partial) ==
    IF task[w].at < Payloads
    THEN task' = [task EXCEPT ![w].at = @ + 1, ![w].partial = partial]
    ELSE task' = [task EXCEPT ![w].phase = Settlement(w, partial), ![w].partial = partial]

-----------------------------------------------------------------------------

Init ==
    /\ json = {} /\ marker = {} /\ failedDir = {}
    /\ retryCount = [d \in Deliveries |-> 0]
    /\ task = [w \in Workers |->
                  IF w = "recovery" THEN Idle("off", CHOOSE d \in Deliveries : TRUE)
                  ELSE Idle("new", w)]
    /\ names = {} /\ loaded = {} /\ loadedCount = [d \in Deliveries |-> 0]
    /\ crashes = 0
    /\ sends = [d \in Deliveries |-> [p \in 1..Payloads |-> 0]]
    /\ accepted = {} /\ aborted = {} /\ crashedOn = [d \in Deliveries |-> 0]

\* enqueueDelivery: the temporary file has become {id}.json.
EnqueueDelivery(d) ==
    /\ task[d].phase = "new" /\ Calm
    /\ json' = json \cup {d} /\ accepted' = accepted \cup {d}
    /\ task' = [task EXCEPT ![d].phase = "send", ![d].queued = TRUE]
    /\ UNCHANGED <<marker, failedDir, retryCount, recoveryVars, crashes,
                   sends, aborted, crashedOn>>

\* The queue write fails: the message is sent all the same.
EnqueueFails(d) ==
    /\ task[d].phase = "new" /\ Calm
    /\ Goto(d, "send")
    /\ UNCHANGED <<files, recoveryVars, crashes, history>>

\* The channel takes a payload.
SendPayload(w) ==
    LET d == task[w].d
    IN  /\ task[w].phase = "send"
        /\ sends' = [sends EXCEPT ![d][task[w].at] = @ + 1]
        /\ NextPayload(w, task[w].partial)
        /\ UNCHANGED <<files, recoveryVars, crashes, accepted, aborted, crashedOn>>

\* A payload fails under bestEffort: the loop goes on, and only a caller with
\* onError makes the failure count.  The recovery pass passes none.
PayloadFailsBestEffort(w) ==
    /\ task[w].phase = "send" /\ task[w].d \in BestEffort
    /\ NextPayload(w, task[w].partial \/ (w # "recovery" /\ w \in ReportsErrors))
    /\ UNCHANGED <<files, recoveryVars, crashes, history>>

PayloadThrowsAcked(w) ==
    /\ task[w].phase = "send" /\ task[w].d \notin BestEffort
    /\ Goto(w, IF w = "recovery" \/ task[w].queued THEN "ack1" ELSE "done")
    /\ UNCHANGED <<files, recoveryVars, crashes, history>>
\* A payload fails, perhaps after it went out, and the call throws.  Only the
\* recovery pass tells permanent errors from others.
PayloadThrows(w) ==
    /\ task[w].phase = "send" /\ task[w].d \notin BestEffort
    /\ \E out \in {0, 1} : sends' = [sends EXCEPT ![task[w].d][task[w].at] = @ + out]
    /\ IF w # "recovery" THEN Goto(w, IF task[w].queued THEN "fail1" ELSE "done")
       ELSE \E next \in {"fail1", "park"} : Goto(w, next)
    /\ UNCHANGED <<files, recoveryVars, crashes, accepted, aborted, crashedOn>>

\* The abort signal of a live call: its entry is acknowledged, not retried.
SendAborted(d) ==
    /\ task[d].phase = "send" /\ d \notin BestEffort
    /\ aborted' = aborted \cup {d}
    /\ Goto(d, IF task[d].queued THEN "ack1" ELSE "done")
    /\ UNCHANGED <<files, recoveryVars, crashes, accepted, sends, crashedOn>>

AckForgotten(w) ==
    /\ task[w].phase = "ack1"
    /\ Return(w)
    /\ UNCHANGED <<files, recoveryVars, crashes, history>>
\* ackDelivery, phase 1: rename to .delivered, or nothing left to rename.
AckRename(w) ==
    LET d == task[w].d
    IN  /\ task[w].phase = "ack1"
        /\ json' = json \ {d}
        /\ IF d \in json THEN marker' = marker \cup {d} /\ Goto(w, "ack2")
           ELSE marker' = marker \ {d} /\ Return(w)
        /\ UNCHANGED <<failedDir, retryCount, recoveryVars, crashes, history>>

\* ackDelivery, phase 2: unlink the marker.
AckUnlink(w) ==
    /\ task[w].phase = "ack2"
    /\ marker' = marker \ {task[w].d}
    /\ Return(w)
    /\ UNCHANGED <<json, failedDir, retryCount, recoveryVars, crashes, history>>

\* failDelivery reads the entry; when it is gone the error is swallowed.
FailRead(w) ==
    /\ task[w].phase = "fail1"
    /\ IF task[w].d \in json
       THEN task' = [task EXCEPT ![w].phase = "fail2", ![w].count = retryCount[task[w].d]]
       ELSE Return(w)
    /\ UNCHANGED <<files, recoveryVars, crashes, history>>

\* failDelivery renames its new version into place, whatever is there now.
FailWrite(w) ==
    LET d == task[w].d
    IN  /\ task[w].phase = "fail2"
        /\ json' = json \cup {d}
        /\ retryCount' = [retryCount EXCEPT ![d] = task[w].count + 1]
        /\ Return(w)
        /\ UNCHANGED <<marker, failedDir, recoveryVars, crashes, accepted, sends, aborted, crashedOn>>

-----------------------------------------------------------------------------
(* recoverPendingDeliveries, once per gateway start.                       *)

\* readdir, and the markers it shows are unlinked.
ListQueue ==
    /\ task["recovery"].phase = "off"
    /\ names' = json /\ marker' = {}
    /\ Goto("recovery", IF json = {} THEN "ended" ELSE "load")
    /\ UNCHANGED <<json, failedDir, retryCount, loaded, loadedCount, crashes, history>>

\* One entry is read; an entry that has gone meanwhile is skipped.
LoadEntry(d) ==
    /\ task["recovery"].phase = "load" /\ d \in names
    /\ names' = names \ {d}
    /\ IF d \in json
       THEN /\ loaded' = loaded \cup {d}
            /\ loadedCount' = [loadedCount EXCEPT ![d] = retryCount[d]]
       ELSE UNCHANGED <<loaded, loadedCount>>
    /\ IF names' = {} THEN Goto("recovery", "pick") ELSE UNCHANGED task
    /\ UNCHANGED <<files, crashes, history>>

TakeUp(d, phase) ==
    /\ task["recovery"].phase = "pick" /\ d \in loaded
    /\ loaded' = loaded \ {d}
    /\ task' = [task EXCEPT !["recovery"] = Idle(phase, d)]
    /\ UNCHANGED <<files, names, loadedCount, crashes, history>>

RetriesOnceMore(d) == loadedCount[d] > MaxRetries
GivesUp(d) == loadedCount[d] >= MaxRetries
\* Over the limit: moveToFailed.  Otherwise the entry is sent again, unless
\* it has failed before and its backoff is not over.
GiveUp(d) == GivesUp(d) /\ TakeUp(d, "park")
Replay(d) == ~GivesUp(d) /\ TakeUp(d, "send")
DeferBackoff(d) == ~GivesUp(d) /\ loadedCount[d] > 0 /\ TakeUp(d, "pick")

\* moveToFailed; when the entry is gone the error is logged.
MoveToFailed ==
    LET d == task["recovery"].d
    IN  /\ task["recovery"].phase = "park"
        /\ json' = json \ {d}
        /\ failedDir' = IF d \in json THEN failedDir \cup {d} ELSE failedDir
        /\ Return("recovery")
        /\ UNCHANGED <<marker, retryCount, recoveryVars, crashes, history>>

\* Nothing is left, or the time budget is used up.
EndRecovery ==
    /\ task["recovery"].phase = "pick"
    /\ Goto("recovery", "ended")
    /\ loaded' = {}
    /\ UNCHANGED <<files, names, loadedCount, crashes, history>>

-----------------------------------------------------------------------------

InFlight(d) == \E w \in Workers :
    /\ task[w].d = d
    /\ \/ task[w].phase \in {"ack1", "fail1", "fail2", "park"}
       \/ task[w].phase = "send" /\ task[w].at > 1

\* The process dies and starts again: calls under way are gone, the directory
\* stays, and a new recovery pass runs.
Crash ==
    /\ crashes < MaxCrashes /\ crashes' = crashes + 1
    /\ task' = [w \in Workers |->
                   IF w = "recovery" THEN Idle("off", task[w].d)
                   ELSE IF task[w].phase = "new" THEN task[w] ELSE Idle("done", w)]
    /\ names' = {} /\ loaded' = {} /\ UNCHANGED loadedCount
    /\ crashedOn' = [d \in Deliveries |-> crashedOn[d] + (IF InFlight(d) THEN 1 ELSE 0)]
    /\ UNCHANGED <<files, accepted, sends, aborted>>

Next ==
    \/ \E d \in Deliveries : \/ EnqueueDelivery(d) \/ EnqueueFails(d) \/ SendAborted(d)
                             \/ LoadEntry(d) \/ GiveUp(d) \/ Replay(d) \/ DeferBackoff(d)
    \/ \E w \in Workers : \/ SendPayload(w) \/ PayloadFailsBestEffort(w) \/ PayloadThrows(w)
                          \/ AckRename(w) \/ AckUnlink(w) \/ FailRead(w) \/ FailWrite(w)
    \/ ListQueue \/ MoveToFailed \/ EndRecovery \/ Crash

Spec == Init /\ [][Next]_vars

-----------------------------------------------------------------------------
(* Properties.                                                             *)

\* Types.
TypeOK ==
    /\ json \subseteq Deliveries /\ marker \subseteq Deliveries /\ failedDir \subseteq Deliveries
    /\ names \subseteq Deliveries /\ loaded \subseteq Deliveries
    /\ accepted \subseteq Deliveries /\ aborted \subseteq Deliveries
    /\ retryCount \in [Deliveries -> 0..MaxRetries]
    /\ loadedCount \in [Deliveries -> 0..MaxRetries]
    /\ task \in [Workers -> Tasks]
    /\ crashes \in 0..MaxCrashes
    /\ sends \in [Deliveries -> [1..Payloads -> Nat]]
    /\ crashedOn \in [Deliveries -> Nat]

Kept(d) == \A p \in 1..Payloads : sends[d][p] > 0

\* A replayed best-effort message may be forgotten: its failed payload leaves
\* no trace, because the recovery pass reports no errors.  The promise is made
\* for the others.
Owed == Deliveries \ BestEffort
FateOf(d) ==
    IF Kept(d) THEN "kept"
    ELSE IF d \notin accepted THEN "none"
    ELSE IF d \in json THEN "owed"
    ELSE IF d \in failedDir THEN "parked"
    ELSE IF d \in aborted THEN "withdrawn" ELSE "lost"
Fate == [d \in Owed |-> FateOf(d)]
P == INSTANCE OutboundPromise WITH Deliveries <- Owed, fate <- Fate

\* The queue, with its crashes and replays, does what OutboundPromise says.
PromiseKept == P!Spec

\* A best-effort call that saw one of its payloads fail, and whose caller
\* reports errors, leaves its entry in the queue when it returns.
PartialFailureKept ==
    \A d \in Deliveries :
        task[d].phase = "done" /\ task[d].queued /\ task[d].partial => d \in json

\* Every send of a payload after its first has a cause of its own: a crash
\* that hit its delivery before the entry was marked delivered, or an attempt
\* that was recorded as failed, of which there are at most MAX_RETRIES.
DuplicateHasCause ==
    \A d \in Deliveries :
        /\ retryCount[d] <= MaxRetries
        /\ \A p \in 1..Payloads : sends[d][p] <= 1 + crashedOn[d] + retryCount[d]
=============================================================================
