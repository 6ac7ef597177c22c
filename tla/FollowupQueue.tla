---------------------------- MODULE FollowupQueue ----------------------------
(***************************************************************************)
(* The followup queue of one session: the messages that arrive while the   *)
(* agent is busy with it, and the drain that turns them into later turns   *)
(* (src/src/auto-reply/reply/queue/*.ts, src/src/utils/queue-helpers.ts).  *)
(* The registry FOLLOWUP_QUEUES is a map by session key whose entries come *)
(* and go while drains keep references to the objects: the model keeps the *)
(* objects apart from the registry.  Steering a message into a running     *)
(* turn happens before the queue and is left out.                          *)
(***************************************************************************)
EXTENDS Naturals, Sequences, FiniteSets

CONSTANTS
    Messages,        \* inbound messages; each has a message id of its own
    TargetOf,        \* where a message came from: a routable target, "unkeyed", "cross"
    Cases,           \* the circumstances looked at, records of
                     \*   settings: the queue settings in use, [mode, dropPolicy, cap]
                     \*   stale: the run a message saw as active may be over when it is queued
                     \*   clear: a stop or session reset may come while a drain is at work
    MaxQueues,       \* bound: queue objects alive at the same time
    MaxDeliveries,   \* bound: times the channel delivers one message
    MaxFailures,     \* bound: turns that throw
    EnqueueInGap     \* a message may be queued in the microtasks between the
                     \* cross-channel check and the snapshot of a batch

Settings == UNION {c.settings : c \in Cases}
ASSUME FollowupAssumption ==
    /\ \A c \in Cases : c.settings # {} /\ {c.stale, c.clear} \subseteq BOOLEAN
    /\ \A s \in Settings :
           /\ s.mode \in {"followup", "collect"}
           /\ s.dropPolicy \in {"summarize", "old", "new"}
           /\ s.cap \in Nat \ {0}
    /\ MaxQueues \in Nat \ {0} /\ MaxDeliveries \in Nat /\ MaxFailures \in Nat
    /\ EnqueueInGap \in BOOLEAN

VARIABLES
    case,         \* the circumstances of this behaviour, a member of Cases
    mainActive,   \* the session's own run is going on (runReplyAgent)
    inbound,      \* messages that found the session busy, not yet in enqueueFollowupRun
    deliveries, failures,   \* how much of the bounds is used
    objects,      \* the FollowupQueueState objects, each with its drain
    registry,     \* FOLLOWUP_QUEUES.get(key): the object's number, 0 for none
    callback,     \* FOLLOWUP_RUN_CALLBACKS has the key
    recent,       \* RECENT_QUEUE_MESSAGE_IDS
    shown,        \* history: messages a completed turn has put before the agent
    discarded,    \* history: messages given up by the drop policy or a clear
    shifted       \* history: an overflow has moved the items under a running turn

queueVars == <<objects, registry, callback>>
vars == <<case, mainActive, inbound, deliveries, failures, objects, registry,
          callback, recent, shown, discarded, shifted>>

Slots == 1..MaxQueues
Range1(s) == {s[i] : i \in 1..Len(s)}
Remove(s, n) == SubSeq(s, n + 1, Len(s))

\* A queue object; phase is where its drain stands ("idle": draining = false).
Phases == {"idle", "debounce", "checked", "turn"}
Queues == [settings : Settings, items : Seq(Messages), dropped : Nat,
           summaryLines : Seq(Messages), lastRun : BOOLEAN, phase : Phases,
           forced : BOOLEAN, batch : Seq(Messages), preview : Seq(Messages), take : Nat]
NewQueue(s) == [settings |-> s, items |-> <<>>, dropped |-> 0, summaryLines |-> <<>>,
                lastRun |-> FALSE, phase |-> "idle", forced |-> FALSE,
                batch |-> <<>>, preview |-> <<>>, take |-> 0]
Idle(q) == [q EXCEPT !.phase = "idle", !.forced = FALSE, !.batch = <<>>,
                     !.preview = <<>>, !.take = 0]

Pending(q) == q.items # <<>> \/ q.dropped > 0

\* isEmbeddedPiRunActive
TurnRunning == \E o \in Slots : objects[o].phase = "turn"
Active == mainActive \/ TurnRunning

-----------------------------------------------------------------------------
(* Operators on the triple of registry, objects and callback.              *)

Here == [reg |-> registry, objs |-> objects, cb |-> callback]
Become(r) == registry' = r.reg /\ objects' = r.objs /\ callback' = r.cb

\* scheduleFollowupDrain up to its first await: the loop does not start on an
\* object with nothing pending, and its finally deletes the key at once.
Schedule(r) ==
    IF r.reg = 0 THEN r
    ELSE IF r.objs[r.reg].phase # "idle" THEN r
    ELSE IF Pending(r.objs[r.reg])
         THEN [r EXCEPT !.objs[r.reg].phase = "debounce", !.cb = TRUE]
         ELSE [r EXCEPT !.reg = 0, !.cb = TRUE]

\* The finally block of the drain of object o.
LoopEndNoRetry(r, o) ==
    LET s == [r EXCEPT !.objs[o] = Idle(r.objs[o])]
    IN  IF Pending(s.objs[o]) THEN s ELSE [s EXCEPT !.reg = 0]
LoopEnd(r, o) ==
    LET s == [r EXCEPT !.objs[o] = Idle(r.objs[o])]
    IN  IF Pending(s.objs[o]) THEN Schedule(s) ELSE [s EXCEPT !.reg = 0]

\* The loop condition, then the wait for a quiet channel.
LoopTop(r, o) ==
    IF Pending(r.objs[o])
    THEN [r EXCEPT !.objs[o] = [@ EXCEPT !.phase = "debounce", !.batch = <<>>,
                                         !.preview = <<>>, !.take = 0]]
    ELSE LoopEnd(r, o)

\* previewQueueSummaryPrompt: the lines the next prompt will carry, if any.
Preview(q) ==
    IF q.settings.dropPolicy = "summarize" /\ q.dropped > 0 THEN q.summaryLines ELSE <<>>

\* hasCrossChannelItems
CrossChannelKeyed(items) ==
    LET targets == {TargetOf[items[i]] : i \in 1..Len(items)}
    IN  "cross" \in targets \/ Cardinality(targets \ {"unkeyed", "cross"}) > 1
CrossChannel(items) ==
    LET targets == {TargetOf[items[i]] : i \in 1..Len(items)}
        keys    == targets \ {"unkeyed", "cross"}
    IN  \/ "cross" \in targets
        \/ keys # {} /\ "unkeyed" \in targets
        \/ Cardinality(keys) > 1

\* A turn of object o: it shows the agent the messages of batch and the
\* summary lines of preview, and takes the first n items off the queue after.
StartTurn(r, o, batch, preview, n) ==
    [r EXCEPT !.objs[o] = [@ EXCEPT !.phase = "turn", !.batch = batch,
                                    !.preview = preview, !.take = n]]

\* drainNextQueueItem with runFollowup itself as the runner.
NextItem(r, o) ==
    IF r.objs[o].items = <<>> THEN LoopEnd(r, o)
    ELSE StartTurn(r, o, <<Head(r.objs[o].items)>>, <<>>, 1)

\* applyQueueDropPolicy for an object at its cap: the object without its
\* oldest messages, and the messages nobody will hear of again.
Overflow(q) ==
    LET n     == Len(q.items) - q.settings.cap + 1
        gone  == SubSeq(q.items, 1, n)
        lines == q.summaryLines \o gone
        keep  == IF Len(lines) > q.settings.cap THEN Len(lines) - q.settings.cap ELSE 0
    IN  IF q.settings.dropPolicy = "summarize"
        THEN [queue |-> [q EXCEPT !.items = Remove(@, n), !.dropped = @ + n,
                                  !.summaryLines = Remove(lines, keep)],
              lost  |-> Range1(SubSeq(lines, 1, keep))]
        ELSE [queue |-> [q EXCEPT !.items = Remove(@, n)], lost |-> Range1(gone)]

\* getFollowupQueue: the registered object with the caller's settings, or a
\* new one in a slot no drain and no registry refers to.
FreeSlots == {o \in Slots : o # registry /\ objects[o].phase = "idle" /\ ~Pending(objects[o])}
SlotFor == IF registry # 0 THEN registry ELSE CHOOSE o \in FreeSlots : \A p \in FreeSlots : o <= p
ObjectFor(s) == IF registry # 0 THEN [objects[registry] EXCEPT !.settings = s] ELSE NewQueue(s)

\* What a completed turn leaves: items.shift() or items.splice(0, length).
TakenAll(q) == <<>>
TakenOne(q) == Remove(q.items, 1)
Taken(q) == Remove(q.items, q.take)

-----------------------------------------------------------------------------

Init ==
    /\ case \in Cases
    /\ mainActive = FALSE /\ inbound = {} /\ failures = 0
    /\ deliveries = [m \in Messages |-> 0]
    /\ objects = [o \in Slots |-> NewQueue(CHOOSE s \in case.settings : TRUE)]
    /\ registry = 0 /\ callback = FALSE
    /\ recent = {} /\ shown = {} /\ discarded = {} /\ shifted = FALSE

\* A message finds the session idle and runs at once (runReplyAgent).
StartMain ==
    /\ ~Active
    /\ mainActive' = TRUE
    /\ UNCHANGED <<case, shifted, inbound, deliveries, failures, queueVars, recent, shown, discarded>>

\* finalizeWithFollowup, on success and on error.
EndMain ==
    /\ mainActive
    /\ mainActive' = FALSE
    /\ Become(Schedule(Here))
    /\ UNCHANGED <<case, shifted, inbound, deliveries, failures, recent, shown, discarded>>

\* isActive is read; awaits follow before enqueueFollowupRun.
Arrive(m) ==
    /\ Active
    /\ m \notin inbound /\ deliveries[m] < MaxDeliveries
    /\ inbound' = inbound \cup {m}
    /\ deliveries' = [deliveries EXCEPT ![m] = @ + 1]
    /\ UNCHANGED <<case, shifted, mainActive, failures, queueVars, recent, shown, discarded>>

MayEnqueue(m) ==
    /\ m \in inbound
    /\ case.stale \/ Active
    /\ EnqueueInGap \/ \A o \in Slots : objects[o].phase # "checked"
    /\ registry # 0 \/ FreeSlots # {}

AlreadyQueued(m, q) == m \in recent \cup Range1(q.items)
Full(q) == Len(q.items) >= q.settings.cap

\* enqueueFollowupRun returns false: a redelivery, or the policy "new" at the
\* cap.  The object exists afterwards all the same.
EnqueueSkipped(m, s) ==
    /\ MayEnqueue(m)
    /\ LET q == ObjectFor(s)
       IN  /\ \/ AlreadyQueued(m, q) /\ objects' = [objects EXCEPT ![SlotFor] = q]
              \/ /\ ~AlreadyQueued(m, q) /\ Full(q) /\ q.settings.dropPolicy = "new"
                 /\ objects' = [objects EXCEPT ![SlotFor] = [q EXCEPT !.lastRun = TRUE]]
           /\ registry' = SlotFor
    /\ inbound' = inbound \ {m}
    /\ UNCHANGED <<case, shifted, mainActive, deliveries, failures, callback, recent, shown, discarded>>

\* enqueueFollowupRun returns true.
Enqueue(m, s) ==
    /\ MayEnqueue(m)
    /\ LET q    == ObjectFor(s)
           room == IF Full(q) THEN Overflow(q) ELSE [queue |-> q, lost |-> {}]
           r    == [Here EXCEPT !.reg = SlotFor,
                                !.objs[SlotFor] = [room.queue EXCEPT !.items = Append(@, m),
                                                                    !.lastRun = TRUE]]
       IN  /\ ~AlreadyQueued(m, q)
           /\ ~(Full(q) /\ q.settings.dropPolicy = "new")
           /\ Become(IF callback THEN Schedule(r) ELSE r)
           /\ discarded' = (discarded \cup room.lost) \ {m}
           /\ shifted' = (shifted \/ (Full(q) /\ q.phase = "turn"))
    /\ inbound' = inbound \ {m}
    /\ recent' = recent \cup {m}
    /\ shown' = shown \ {m}
    /\ UNCHANGED <<case, mainActive, deliveries, failures>>

\* Five minutes pass: a redelivery is only told from a new message while the
\* message is still among the items.
RecentExpires(m) ==
    /\ m \in recent
    /\ recent' = recent \ {m}
    /\ UNCHANGED <<case, shifted, mainActive, inbound, deliveries, failures, queueVars, shown, discarded>>

DrainStep == UNCHANGED <<case, shifted, mainActive, inbound, deliveries, recent>>

\* The debounce is over, in collect mode: a mixed batch goes out item by item
\* for the rest of this drain, any other batch is collected after an await.
CheckCollect(o) ==
    LET q == objects[o]
        cross == CrossChannel(q.items)
        r == [Here EXCEPT !.objs[o].forced = q.forced \/ cross]
    IN  /\ q.phase = "debounce" /\ q.settings.mode = "collect"
        /\ Become(IF q.forced \/ cross THEN NextItem(r, o)
                  ELSE [r EXCEPT !.objs[o].phase = "checked"])
        /\ DrainStep /\ UNCHANGED <<failures, shown, discarded>>

\* The snapshot of the batch and its turn.
CollectBatch(o) ==
    LET q == objects[o]
    IN  /\ q.phase = "checked"
        /\ Become(IF q.items = <<>> /\ ~q.lastRun THEN LoopEnd(Here, o)
                  ELSE StartTurn(Here, o, q.items, Preview(q), Len(q.items)))
        /\ DrainStep /\ UNCHANGED <<failures, shown, discarded>>

\* The debounce is over, in any other mode: the overflow summary goes first,
\* in the place of the oldest item.
NextFollowup(o) ==
    LET q == objects[o]
    IN  /\ q.phase = "debounce" /\ q.settings.mode # "collect"
        /\ Become(IF Preview(q) = <<>> THEN NextItem(Here, o)
                  ELSE IF q.items = <<>> \/ ~q.lastRun THEN LoopEnd(Here, o)
                  ELSE StartTurn(Here, o, <<>>, Preview(q), 1))
        /\ DrainStep /\ UNCHANGED <<failures, shown, discarded>>

\* runFollowup resolves: what was taken leaves the queue as it is now, and so
\* does the summary state if the turn carried a summary.
FinishTurn(o) ==
    LET q == objects[o]
        left == [q EXCEPT !.items = Taken(q),
                          !.dropped = IF q.preview = <<>> THEN @ ELSE 0,
                          !.summaryLines = IF q.preview = <<>> THEN @ ELSE <<>>]
    IN  /\ q.phase = "turn"
        /\ Become(LoopTop([Here EXCEPT !.objs[o] = left], o))
        /\ shown' = shown \cup Range1(q.batch) \cup Range1(q.preview)
        /\ DrainStep /\ UNCHANGED <<failures, discarded>>

\* runFollowup rejects: the queue is kept and the drain starts over.
FailTurn(o) ==
    /\ objects[o].phase = "turn" /\ failures < MaxFailures
    /\ failures' = failures + 1
    /\ Become(LoopEnd(Here, o))
    /\ DrainStep /\ UNCHANGED <<shown, discarded>>

\* clearSessionQueues: the object is emptied and forgotten, and so is the
\* callback; a drain that holds the object goes on with it.
ClearSessionQueues ==
    /\ registry # 0 \/ callback
    /\ case.clear \/ \A o \in Slots : objects[o].phase = "idle"
    /\ registry' = 0 /\ callback' = FALSE
    /\ IF registry = 0 THEN UNCHANGED <<objects, discarded>>
       ELSE LET q == objects[registry]
            IN  /\ objects' = [objects EXCEPT ![registry] =
                       [q EXCEPT !.items = <<>>, !.dropped = 0,
                                 !.summaryLines = <<>>, !.lastRun = FALSE]]
                /\ discarded' = discarded \cup Range1(q.items) \cup Range1(q.summaryLines)
    /\ UNCHANGED <<case, shifted, mainActive, inbound, deliveries, failures, recent, shown>>

Next ==
    \/ StartMain \/ EndMain \/ ClearSessionQueues
    \/ \E m \in Messages : Arrive(m) \/ RecentExpires(m)
    \/ \E m \in Messages, s \in case.settings : Enqueue(m, s) \/ EnqueueSkipped(m, s)
    \/ \E o \in Slots : \/ CheckCollect(o) \/ CollectBatch(o) \/ NextFollowup(o)
                       \/ FinishTurn(o) \/ FailTurn(o)

Spec == Init /\ [][Next]_vars

\* Timers fire, microtasks run, and agent turns are bounded by their timeout.
Progress(o) == CheckCollect(o) \/ CollectBatch(o) \/ NextFollowup(o) \/ FinishTurn(o)
FairSpec ==
    /\ Spec
    /\ WF_vars(EndMain)
    /\ \A o \in Slots : WF_vars(Progress(o))

-----------------------------------------------------------------------------
(* Properties.                                                             *)

\* Types; a drain that is not at work holds no batch and no routing decision.
TypeOK ==
    /\ case \in Cases /\ mainActive \in BOOLEAN /\ inbound \subseteq Messages
    /\ deliveries \in [Messages -> 0..MaxDeliveries] /\ failures \in 0..MaxFailures
    /\ registry \in 0..MaxQueues /\ callback \in BOOLEAN
    /\ recent \subseteq Messages /\ shown \subseteq Messages /\ discarded \subseteq Messages
    /\ shifted \in BOOLEAN /\ objects \in [Slots -> Queues]
    /\ \A o \in Slots :
        LET q == objects[o]
        IN  /\ q.settings \in case.settings
            /\ q.phase = "turn" \/ (q.batch = <<>> /\ q.preview = <<>> /\ q.take = 0)
            /\ q.phase = "idle" => ~q.forced

\* The messages a queue object still holds, itself or as a summary line.
Held == UNION {Range1(objects[o].items) \cup Range1(objects[o].summaryLines) : o \in Slots}

\* Unless an overflow has moved the items a running turn is about to take off
\* by number: no message that was accepted disappears.  It is held, or a
\* completed turn has shown it, or the drop policy or a clear has discarded it.
NothingVanishes == ~shifted => recent \subseteq Held \cup shown \cup discarded

\* Retries and overlapping drains never answer a message again that a
\* completed turn has already shown.
AnsweredOnce ==
    [][\A o \in Slots : objects'[o].phase = "turn" /\ objects[o].phase # "turn"
        => Range1(objects'[o].batch) \cap shown = {}]_vars

\* One turn never mixes messages of different chats, accounts or threads: its
\* reply goes to a single target.
RoutingPreserved ==
    \A o \in Slots :
        LET batch == objects[o].batch
        IN  Len(batch) > 1 => \A i \in 1..Len(batch) :
                TargetOf[batch[i]] # "cross" /\ TargetOf[batch[i]] = TargetOf[batch[1]]

\* Unless the run was over when the message was queued, or a clear took the
\* queue from under its drain: once the messages stop coming, all that are held
\* are shown or discarded.  None is stranded in an object nobody drains, no
\* drain goes round in circles.
EveryFollowupEnds == (Held # {} /\ ~case.stale /\ ~case.clear) ~> Held = {}
=============================================================================
