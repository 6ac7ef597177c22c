------------------------------ MODULE NodeInvoke ------------------------------
(***************************************************************************)
(* Commands invoked on nodes: the registry of connected nodes and of the   *)
(* invocations that wait for an answer (src/src/gateway/node-registry.ts), *)
(* the method node.invoke with its wake of a node that is not connected    *)
(* and its queue of actions for a phone in the background                  *)
(* (server-methods/nodes.ts), and the gate of ExecApprovals that an        *)
(* approved system.run passes on its way.  A node reconnects under a new   *)
(* connection, which may be accepted before the end of the old one is      *)
(* noticed.  Push services, the command allowlist and payloads are choices *)
(* of the environment.                                                     *)
(***************************************************************************)
EXTENDS ExecApprovals, SequencesExt

CONSTANTS
    Nodes,
    Conns,        \* connections of nodes, each used once
    NodeOf,       \* the node a connection belongs to
    Invokes,      \* calls of node.invoke
    Target,       \* the node a call is for
    Commands,     \* what may be called: the approval id and the binding that an
                  \* approved system.run names, or None, whether a phone runs
                  \* the command in the foreground only, and an idempotencyKey
    Keys,         \* values of idempotencyKey
    MaxActions    \* NODE_PENDING_ACTION_MAX_PER_NODE

ASSUME InvokeAssumption ==
    /\ NodeOf \in [Conns -> Nodes] /\ Target \in [Invokes -> Nodes]
    /\ Commands \subseteq [approval : (Ids \X Bindings) \cup {None},
                      foreground : BOOLEAN, key : Keys]
    /\ \A m \in Commands : m.foreground => m.approval = None
    /\ None \notin Conns \cup Invokes /\ MaxActions \in Nat \ {0}

VARIABLES
    command,       \* what each call asks for; it does not change
    conn,          \* connections: "new", "open", "gone" (unnoticed) or "closed"
    nodesById,     \* the connection a node is registered with
    nodesByConn,   \* the connections that are registered
    invoke,        \* where the handler of a call has got to
    pendingInvokes,\* calls that wait for the node's answer
    heard,         \* calls the node has received and not answered
    push,          \* the call whose wake of a node is in flight
    woken,         \* when a node was last sent a push
    actions        \* pending foreground actions of a node

nvars == <<command, conn, nodesById, nodesByConn, invoke, pendingInvokes, heard, push, woken,
           actions>>
vars == <<avars, nvars>>

-----------------------------------------------------------------------------
\* "wake1" and "wake2" await a push and "queued" the one after an action has
\* been queued; "woken1" and "woken2" await the node, "unwoken" has nothing to
\* await, and "nudge" awaits the alert that ends a call in vain.
Waking == {"wake1", "wake2", "queued"}
Searching == {"new", "woken1", "woken2", "unwoken"}
Stages == Waking \cup Searching \cup {"nudge", "sent"}
Outcomes == {"ok", "error", "deferred", "refused", "disconnected",
             "unavailable", "timeout"}

PendingActions == [call : Invokes, expired : BOOLEAN, pulled : BOOLEAN]

TypeOK ==
    /\ ATypeOK
    /\ command \in [Invokes -> Commands]
    /\ conn \in [Conns -> {"new", "open", "gone", "closed"}]
    /\ nodesById \in [Nodes -> Conns \cup {None}] /\ nodesByConn \subseteq Conns
    /\ invoke \in [Invokes -> Stages \cup Outcomes]
    /\ pendingInvokes \subseteq Invokes /\ heard \subseteq Invokes
    /\ push \in [Nodes -> Invokes \cup {None}]
    /\ woken \in [Nodes -> {"never", "recently", "before"}]
    /\ actions \in [Nodes -> Seq(PendingActions)]

NodeInit ==
    /\ command \in [Invokes -> Commands]
    /\ conn = [c \in Conns |-> "new"]
    /\ nodesById = [n \in Nodes |-> None] /\ nodesByConn = {}
    /\ invoke = [i \in Invokes |-> "new"]
    /\ pendingInvokes = {} /\ heard = {}
    /\ push = [n \in Nodes |-> None] /\ woken = [n \in Nodes |-> "never"]
    /\ actions = [n \in Nodes |-> <<>>]

Init == AInit /\ NodeInit

Answered(i) == invoke[i] \in Outcomes

-----------------------------------------------------------------------------
(* Connections.                                                            *)

\* register, which replaces an older connection of the node in nodesById.
Connect(c) ==
    /\ conn[c] = "new"
    /\ conn' = [conn EXCEPT ![c] = "open"]
    /\ nodesById' = [nodesById EXCEPT ![NodeOf[c]] = c]
    /\ nodesByConn' = nodesByConn \cup {c}
    /\ UNCHANGED <<avars, command, invoke, pendingInvokes, heard, push, woken, actions>>

\* The network or the node ends it, which the gateway has not noticed yet.
Vanish(c) ==
    /\ conn[c] = "open"
    /\ conn' = [conn EXCEPT ![c] = "gone"]
    /\ UNCHANGED <<avars, command, nodesById, nodesByConn, invoke, pendingInvokes, heard, push, woken,
                   actions>>

\* The close event: unregister removes the node and rejects what waits for it.
CloseKeepsPending(c) ==
    /\ conn[c] = "gone"
    /\ conn' = [conn EXCEPT ![c] = "closed"]
    /\ nodesByConn' = nodesByConn \ {c}
    /\ nodesById' = [nodesById EXCEPT ![NodeOf[c]] = None]
    /\ UNCHANGED <<avars, command, invoke, pendingInvokes, heard, push, woken, actions>>

Close(c) ==
    /\ conn[c] = "gone"
    /\ conn' = [conn EXCEPT ![c] = "closed"]
    /\ nodesByConn' = nodesByConn \ {c}
    /\ nodesById' = [nodesById EXCEPT ![NodeOf[c]] = None]
    /\ LET rejected == {i \in pendingInvokes : Target[i] = NodeOf[c]}
       IN  /\ pendingInvokes' = pendingInvokes \ rejected
           /\ invoke' = [i \in Invokes |-> IF i \in rejected THEN "unavailable" ELSE invoke[i]]
    /\ UNCHANGED <<avars, command, heard, push, woken, actions>>

-----------------------------------------------------------------------------
(* node.invoke.                                                            *)

\* maybeWakeNodeWithApns: a call joins the push in flight, is told that the
\* last one is recent, or starts one.  "told" is the stage of a call that
\* need not await.
Wake(i, force, awaiting, told) ==
    IF push[Target[i]] # None
    THEN invoke' = [invoke EXCEPT ![i] = awaiting] /\ UNCHANGED push
    ELSE IF woken[Target[i]] = "recently" /\ ~force
    THEN invoke' = [invoke EXCEPT ![i] = told] /\ UNCHANGED push
    ELSE /\ invoke' = [invoke EXCEPT ![i] = awaiting]
         /\ push' = [push EXCEPT ![Target[i]] = i]

\* A push has ended, and its callers go on.  Available: it was sent, or
\* failed after one had been sent before.
AfterPush(stage, available) ==
    CASE stage = "queued" -> "deferred"
      [] stage = "wake1" -> IF available THEN "woken1" ELSE "unwoken"
      [] stage = "wake2" -> "woken2"
EndPushOwner(n, sent) ==
    /\ push[n] # None
    /\ push' = [push EXCEPT ![n] = None]
    /\ woken' = IF sent THEN [woken EXCEPT ![n] = "recently"] ELSE woken
    /\ invoke' = [invoke EXCEPT ![push[n]] = AfterPush(@, sent)]
    /\ UNCHANGED <<avars, command, conn, nodesById, nodesByConn, pendingInvokes, heard, actions>>

EndPush(n, sent) ==
    /\ push[n] # None
    /\ push' = [push EXCEPT ![n] = None]
    /\ woken' = IF sent THEN [woken EXCEPT ![n] = "recently"] ELSE woken
    /\ \E available \in BOOLEAN :
        /\ sent => available
        /\ available => sent \/ woken[n] # "never"
        /\ invoke' = [i \in Invokes |->
              IF Target[i] = n /\ invoke[i] \in Waking THEN AfterPush(invoke[i], available)
                                                       ELSE invoke[i]]
    /\ UNCHANGED <<avars, command, conn, nodesById, nodesByConn, pendingInvokes, heard, actions>>

\* NODE_WAKE_THROTTLE_MS passes.
ThrottleEnds(n) ==
    /\ woken[n] = "recently"
    /\ woken' = [woken EXCEPT ![n] = "before"]
    /\ UNCHANGED <<avars, command, conn, nodesById, nodesByConn, invoke, pendingInvokes, heard, push,
                   actions>>

\* A call for a node that is not connected wakes it, waits, wakes it once
\* more, waits, and gives up after a last nudge.
Connected(i) == nodesById[Target[i]] # None
Idle == UNCHANGED <<avars, command, conn, nodesById, nodesByConn, pendingInvokes, heard, woken,
                    actions>>
WakeFirst(i) ==
    /\ invoke[i] = "new" /\ ~Connected(i)
    /\ Wake(i, FALSE, "wake1", "woken1") /\ Idle
WakeAgain(i) ==
    /\ invoke[i] = "woken1" /\ ~Connected(i)
    /\ Wake(i, TRUE, "wake2", "woken2") /\ Idle
Nudge(i) ==
    /\ invoke[i] \in {"woken2", "unwoken"} /\ ~Connected(i)
    /\ invoke' = [invoke EXCEPT ![i] = "nudge"]
    /\ UNCHANGED push /\ Idle
GiveUp(i) ==
    /\ invoke[i] = "nudge"
    /\ invoke' = [invoke EXCEPT ![i] = "disconnected"]
    /\ UNCHANGED push /\ Idle

\* With a session: the allowlist and the gate, then the registry's invoke.
\* What is written to a connection that is gone is not heard.
Approval(i) == command[i].approval
Ready(i) == invoke[i] \in Searching /\ Connected(i)
Refuse(i) ==
    /\ Ready(i)
    /\ Approval(i) # None => Refused(Approval(i)[1], Approval(i)[2])
    /\ invoke' = [invoke EXCEPT ![i] = "refused"]
    /\ UNCHANGED push /\ Idle
Pass(i) ==
    IF Approval(i) = None THEN UNCHANGED avars ELSE Admit(Approval(i)[1], Approval(i)[2])
Send(i) ==
    /\ Ready(i) /\ Pass(i)
    /\ invoke' = [invoke EXCEPT ![i] = "sent"]
    /\ pendingInvokes' = pendingInvokes \cup {i}
    /\ heard' = IF conn[nodesById[Target[i]]] = "open" THEN heard \cup {i} ELSE heard
    /\ UNCHANGED <<command, conn, nodesById, nodesByConn, push, woken, actions>>
SendFails(i) ==
    /\ Ready(i) /\ Pass(i)
    /\ invoke' = [invoke EXCEPT ![i] = "unavailable"]
    /\ UNCHANGED <<command, conn, nodesById, nodesByConn, pendingInvokes, heard, push, woken, actions>>

-----------------------------------------------------------------------------
(* Answers.                                                                *)

\* filter: the entries at these positions, in their order.
Picked(queue, positions) ==
    LET rank(k) == Cardinality({l \in positions : l <= k})
    IN  [m \in 1..Cardinality(positions) |-> queue[CHOOSE k \in positions : rank(k) = m]]

\* prunePendingNodeActions
LiveAt(queue) == {k \in DOMAIN queue : ~queue[k].expired}
Live(queue) == Picked(queue, LiveAt(queue))

\* enqueuePendingNodeAction
Key(i) == command[i].key
EnqueuedTwice(queue, i) ==
    LET all == Append(Live(queue), [call |-> i, expired |-> FALSE, pulled |-> FALSE])
    IN  IF Len(all) > MaxActions THEN Tail(all) ELSE all
Enqueued(queue, i) ==
    IF \E e \in ToSet(Live(queue)) : Key(e.call) = Key(i) THEN Live(queue)
    ELSE LET all == Append(Live(queue), [call |-> i, expired |-> FALSE, pulled |-> FALSE])
         IN  IF Len(all) > MaxActions THEN Tail(all) ELSE all

\* node.invoke.result, by any open connection of the node.  An answer that
\* comes too late is ignored.
LateResult(i) ==
    /\ i \in heard /\ i \notin pendingInvokes
    /\ \E c \in Conns : NodeOf[c] = Target[i] /\ conn[c] = "open"
    /\ heard' = heard \ {i}
    /\ UNCHANGED <<avars, command, conn, nodesById, nodesByConn, invoke, pendingInvokes, push, woken,
                   actions>>
Result(i, r) ==
    /\ i \in heard \cap pendingInvokes
    /\ \E c \in Conns : NodeOf[c] = Target[i] /\ conn[c] = "open"
    /\ heard' = heard \ {i} /\ pendingInvokes' = pendingInvokes \ {i}
    /\ IF r = "background"
       THEN /\ command[i].foreground
            /\ actions' = [actions EXCEPT ![Target[i]] = Enqueued(@, i)]
            /\ Wake(i, FALSE, "queued", "deferred")
       ELSE invoke' = [invoke EXCEPT ![i] = r] /\ UNCHANGED <<actions, push>>
    /\ UNCHANGED <<avars, command, conn, nodesById, nodesByConn, woken>>

Timeout(i) ==
    /\ i \in pendingInvokes
    /\ pendingInvokes' = pendingInvokes \ {i}
    /\ invoke' = [invoke EXCEPT ![i] = "timeout"]
    /\ UNCHANGED <<avars, command, conn, nodesById, nodesByConn, heard, push, woken, actions>>

\* node.pending.pull and node.pending.ack of what was pulled.
Others == UNCHANGED <<avars, command, conn, nodesById, nodesByConn, invoke, pendingInvokes, heard,
                      push, woken>>
Pulled(live) == [k \in DOMAIN live |-> [live[k] EXCEPT !.pulled = TRUE]]
Pull(c) ==
    /\ conn[c] = "open"
    /\ actions' = [actions EXCEPT ![NodeOf[c]] = Pulled(Live(@))]
    /\ Others
Without(queue, i) == Picked(queue, {k \in LiveAt(queue) : queue[k].call # i})
Ack(c, i) ==
    /\ conn[c] = "open"
    /\ \E e \in ToSet(actions[NodeOf[c]]) : e.call = i /\ e.pulled
    /\ actions' = [actions EXCEPT ![NodeOf[c]] = Without(@, i)]
    /\ Others

\* NODE_PENDING_ACTION_TTL_MS passes for the oldest action.
ActionExpires(n) ==
    /\ \E k \in DOMAIN actions[n] :
        /\ ~actions[n][k].expired /\ \A l \in 1..(k - 1) : actions[n][l].expired
        /\ actions' = [actions EXCEPT ![n][k].expired = TRUE]
    /\ Others

-----------------------------------------------------------------------------
NodeStep ==
    \/ \E c \in Conns : Connect(c) \/ Vanish(c) \/ Close(c) \/ Pull(c)
    \/ \E c \in Conns, i \in Invokes : Ack(c, i)
    \/ \E n \in Nodes : ThrottleEnds(n) \/ ActionExpires(n) \/ \E sent \in BOOLEAN : EndPush(n, sent)
    \/ \E i \in Invokes :
        \/ WakeFirst(i) \/ WakeAgain(i) \/ Nudge(i) \/ GiveUp(i)
        \/ Refuse(i) \/ Send(i) \/ SendFails(i)
        \/ LateResult(i) \/ Timeout(i) \/ \E r \in {"ok", "error", "background"} : Result(i, r)

Next == NodeStep \/ (ApprovalStep /\ UNCHANGED nvars)

Spec == Init /\ [][Next]_vars

\* Handlers go on, pushes and waits end, and the timers of calls fire: one of
\* them, as long as there is any, which suffices as none goes on for ever.
Progress ==
    \/ \E i \in Invokes :
        \/ WakeFirst(i) \/ WakeAgain(i) \/ Nudge(i) \/ GiveUp(i)
        \/ Refuse(i) \/ Send(i) \/ SendFails(i) \/ Timeout(i)
    \/ \E n \in Nodes, sent \in BOOLEAN : EndPush(n, sent)
Fairness == WF_vars(Progress)

FairSpec == Spec /\ Fairness

-----------------------------------------------------------------------------
(* Properties.                                                             *)

\* A call waits for an answer only while its node is registered: whichever
\* connection ends, nothing is left behind for a node that is not there.
WaitsForConnectedNode ==
    /\ \A i \in pendingInvokes : Connected(i) /\ invoke[i] = "sent"
    /\ \A i \in Invokes : invoke[i] = "sent" => i \in pendingInvokes

\* No call awaits a push that has ended: calls that share one all go on when
\* it ends, also those that queued an action meanwhile.
AwaitsPushInFlight ==
    /\ \A i \in Invokes : invoke[i] \in Waking => push[Target[i]] # None
    /\ \A n \in Nodes : push[n] # None => invoke[push[n]] \in Waking

\* An action that was queued for the foreground stays until the node has
\* pulled it, it has expired, or an action with another idempotency key
\* displaces it from a full queue: a retry never does.
KeysOf(queue) == {Key(e.call) : e \in ToSet(queue)}
Displaced(n) ==
    /\ Len(Live(actions[n])) = MaxActions
    /\ ~(KeysOf(actions'[n]) \subseteq KeysOf(Live(actions[n])))
ActionsAreKept ==
    [][\A n \in Nodes : \A e \in ToSet(actions[n]) :
        \/ \E f \in ToSet(actions'[n]) : f.call = e.call
        \/ e.expired \/ e.pulled \/ Displaced(n)]_vars

\* Every call of node.invoke is answered, whatever connections, pushes and
\* the node do.
InvokeAnswered == \A i \in Invokes : invoke[i] # "new" ~> Answered(i)
=============================================================================
