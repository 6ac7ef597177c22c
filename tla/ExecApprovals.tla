---------------------------- MODULE ExecApprovals ----------------------------
(***************************************************************************)
(* Approvals of commands: the manager's map of pending approvals           *)
(* (src/src/gateway/exec-approval-manager.ts), the gateway methods that    *)
(* request, await and give decisions (server-methods/exec-approval.ts) and *)
(* the gate that holds a node's system.run against them                    *)
(* (node-invoke-system-run-approval.ts).  Every handler runs without       *)
(* interruption up to its next await.  A request stands for the map entry  *)
(* it creates, so an id that is used again names another entry.  What an   *)
(* approval is bound to (the node, the device or connection that asked,    *)
(* the command with its arguments and environment) is one value here,      *)
(* compared by equality.                                                   *)
(***************************************************************************)
EXTENDS Naturals, FiniteSets

CONSTANTS
    Ids,         \* approval ids
    ShortIds,    \* short forms that may be typed: sets of the ids they begin
    Requests,    \* calls of exec.approval.request
    Waiters,     \* calls of exec.approval.waitDecision
    Bindings,    \* what an approval is bound to
    Privileged,  \* the bindings whose client may use exec approvals
    None         \* value: nothing

Decisions == {"allow-once", "allow-always", "deny"}

ASSUME ApprovalAssumption ==
    /\ None \notin Requests \cup Ids \cup Bindings
    /\ Privileged \subseteq Bindings /\ ShortIds \subseteq SUBSET Ids

VARIABLES
    pending,    \* the manager's map, from ids to entries
    entry,      \* the record of a request, and the promise it created
    request,    \* where the handler of a request has got to
    wait,       \* the calls of waitDecision
    approvers,  \* whether an approval client is connected
    admitted    \* history: how the gate let runs of an approval pass

avars == <<pending, entry, request, wait, approvers, admitted>>

-----------------------------------------------------------------------------
Clock == {"early", "due", "late"}   \* before, at and after expiresAtMs
Answers == Decisions \cup {"null"}  \* what a decision promise resolves to
Blank == [id |-> None, binding |-> None, clock |-> "early", promise |-> "open",
          decision |-> "none", by |-> "none"]

Origins == {"none", "no-approval-route", "client"}
Records == [id : Ids \cup {None}, binding : Bindings \cup {None}, clock : Clock,
            promise : Answers \cup {"open"}, decision : Decisions \cup {"none"},
            by : Origins]
Handlers == [at : {"new", "forwarding", "awaiting", "answered", "rejected"},
             clients : BOOLEAN, reply : Answers \cup {"none"}]
Waits == [on : Requests \cup {None}, reply : Answers \cup {"none"}]

ATypeOK ==
    /\ pending \in [Ids -> Requests \cup {None}]
    /\ entry \in [Requests -> Records]
    /\ request \in [Requests -> Handlers]
    /\ wait \in [Waiters -> Waits]
    /\ approvers \in BOOLEAN
    /\ admitted \in [Requests -> [once : Nat, other : SUBSET {"always", "fallback"}]]

AInit ==
    /\ pending = [i \in Ids |-> None]
    /\ entry = [r \in Requests |-> Blank]
    /\ request = [r \in Requests |-> [at |-> "new", clients |-> FALSE, reply |-> "none"]]
    /\ wait = [w \in Waiters |-> [on |-> None, reply |-> "none"]]
    /\ approvers = FALSE
    /\ admitted = [r \in Requests |-> [once |-> 0, other |-> {}]]

Registered(r) == entry[r].id # None
Open(r) == Registered(r) /\ entry[r].promise = "open"
OpenIds == {i \in Ids : pending[i] # None /\ Open(pending[i])}

-----------------------------------------------------------------------------
(* exec.approval.request.  An explicit id that is known is refused, a      *)
(* random one is never known.  The entry is in the map before anything is  *)
(* sent; whether a client could decide is read before the forwarder is     *)
(* awaited and used after it.                                              *)

Request(r, i, b) ==
    /\ request[r].at = "new"
    /\ pending[i] = None
    /\ entry' = [entry EXCEPT ![r] = [Blank EXCEPT !.id = i, !.binding = b]]
    /\ pending' = [pending EXCEPT ![i] = r]
    /\ request' = [request EXCEPT ![r].at = "forwarding", ![r].clients = approvers]
    /\ UNCHANGED <<wait, approvers, admitted>>

RefuseRequest(r, i) ==
    /\ request[r].at = "new"
    /\ pending[i] # None
    /\ request' = [request EXCEPT ![r].at = "rejected"]
    /\ UNCHANGED <<pending, entry, wait, approvers, admitted>>

\* resolve() and expire(): they settle the entry the map holds under an id,
\* unless it has been settled before.
Settled(e, decision, by) ==
    [e EXCEPT !.promise = IF decision = "none" THEN "null" ELSE decision,
              !.decision = decision, !.by = by]
SettleAnew(i, decision, by) ==
    entry' = IF pending[i] # None
             THEN [entry EXCEPT ![pending[i]] = Settled(@, decision, by)] ELSE entry
SettleUnlessSettled(i, decision, by) ==
    entry' = IF i \in OpenIds
             THEN [entry EXCEPT ![pending[i]] = Settled(@, decision, by)] ELSE entry

\* The forwarder has answered.  Without a client and without a target the
\* request fails fast, else its handler awaits the decision.
Forwarded(r) ==
    /\ request[r].at = "forwarding"
    /\ request' = [request EXCEPT ![r].at = "awaiting"]
    /\ UNCHANGED <<pending, entry, wait, approvers, admitted>>

NoRoute(r) ==
    /\ request[r].at = "forwarding"
    /\ ~request[r].clients
    /\ SettleUnlessSettled(entry[r].id, "none", "no-approval-route")
    /\ request' = [request EXCEPT ![r].at = "answered", ![r].reply = "null"]
    /\ UNCHANGED <<pending, wait, approvers, admitted>>

Respond(r) ==
    /\ request[r].at = "awaiting"
    /\ entry[r].promise # "open"
    /\ request' = [request EXCEPT ![r].at = "answered", ![r].reply = entry[r].promise]
    /\ UNCHANGED <<pending, entry, wait, approvers, admitted>>

-----------------------------------------------------------------------------
(* exec.approval.waitDecision: it takes the promise of the entry it finds, *)
(* which it keeps when the entry leaves the map.                           *)

Wait(w, i) ==
    /\ wait[w].on = None /\ pending[i] # None
    /\ wait' = [wait EXCEPT ![w].on = pending[i]]
    /\ UNCHANGED <<pending, entry, request, approvers, admitted>>

RespondWaitSnapshot(w) ==
    /\ wait[w].on # None /\ wait[w].reply = "none"
    /\ entry[wait[w].on].promise # "open"
    /\ wait' = [wait EXCEPT ![w].reply =
                   LET d == entry[wait[w].on].decision IN IF d = "none" THEN "null" ELSE d]
    /\ UNCHANGED <<pending, entry, request, approvers, admitted>>
RespondWait(w) ==
    /\ wait[w].on # None /\ wait[w].reply = "none"
    /\ entry[wait[w].on].promise # "open"
    /\ wait' = [wait EXCEPT ![w].reply = entry[wait[w].on].promise]
    /\ UNCHANGED <<pending, entry, request, approvers, admitted>>

(* exec.approval.resolve: the id as it is, or a prefix of exactly one open *)
(* one (lookupPendingId).                                                  *)

Resolve(p, decision) ==
    /\ \E i \in OpenIds :
        /\ p = {i} \/ (p \in ShortIds /\ p \cap OpenIds = {i})
        /\ SettleUnlessSettled(i, decision, "client")
    /\ UNCHANGED <<pending, request, wait, approvers, admitted>>

-----------------------------------------------------------------------------
(* Timers and clients.                                                     *)

\* The timer of an entry calls expire(id); settling an entry clears it.
ExpireDeletes(r) ==
    /\ Open(r) /\ entry[r].clock # "early"
    /\ pending' = [pending EXCEPT ![entry[r].id] = None]
    /\ UNCHANGED <<entry, request, wait, approvers, admitted>>

Expire(r) ==
    /\ Open(r) /\ entry[r].clock # "early"
    /\ SettleUnlessSettled(entry[r].id, "none", "none")
    /\ UNCHANGED <<pending, request, wait, approvers, admitted>>

\* A settled entry is deleted after a grace period.
EndGrace(r) ==
    /\ Registered(r) /\ ~Open(r)
    /\ pending[entry[r].id] = r
    /\ pending' = [pending EXCEPT ![entry[r].id] = None]
    /\ UNCHANGED <<entry, request, wait, approvers, admitted>>

\* Of no use once the entry has left the map.
ClockPasses(r) ==
    /\ Registered(r) /\ pending[entry[r].id] = r
    /\ entry[r].clock # "late"
    /\ entry' = [entry EXCEPT ![r].clock = IF @ = "early" THEN "due" ELSE "late"]
    /\ UNCHANGED <<pending, request, wait, approvers, admitted>>

\* Read by requests only.
ApproversChange ==
    /\ \E r \in Requests : request[r].at = "new"
    /\ approvers' = ~approvers
    /\ UNCHANGED <<pending, entry, request, wait, admitted>>

-----------------------------------------------------------------------------
(* sanitizeSystemRunParamsForForwarding: may a run that names approval i   *)
(* pass?  An allow-once decision is consumed by the run it admits; a       *)
(* request that timed out admits the fallback of a privileged client.      *)

Valid(i, b) ==
    /\ pending[i] # None
    /\ entry[pending[i]].clock # "late"
    /\ entry[pending[i]].binding = b

TimedOut(e) == e.promise # "open" /\ e.decision = "none" /\ e.by = "none"

AdmitOnceKeeps(i, b) ==
    /\ Valid(i, b)
    /\ entry[pending[i]].decision = "allow-once"
    /\ admitted' = [admitted EXCEPT ![pending[i]].once = @ + 1]
    /\ UNCHANGED <<pending, entry, request, wait, approvers>>

AdmitOnce(i, b) ==
    /\ Valid(i, b)
    /\ entry[pending[i]].decision = "allow-once"
    /\ entry' = [entry EXCEPT ![pending[i]].decision = "none"]
    /\ admitted' = [admitted EXCEPT ![pending[i]].once = @ + 1]
    /\ UNCHANGED <<pending, request, wait, approvers>>

AdmitAlways(i, b) ==
    /\ Valid(i, b)
    /\ entry[pending[i]].decision = "allow-always"
    /\ admitted' = [admitted EXCEPT ![pending[i]].other = @ \cup {"always"}]
    /\ UNCHANGED <<pending, entry, request, wait, approvers>>

AdmitFallback(i, b) ==
    /\ Valid(i, b) /\ b \in Privileged
    /\ TimedOut(entry[pending[i]])
    /\ admitted' = [admitted EXCEPT ![pending[i]].other = @ \cup {"fallback"}]
    /\ UNCHANGED <<pending, entry, request, wait, approvers>>

\* The gate refuses: nothing matches, or the decision does not allow it.
Refused(i, b) ==
    Valid(i, b) =>
        /\ entry[pending[i]].decision \notin {"allow-once", "allow-always"}
        /\ b \in Privileged => ~TimedOut(entry[pending[i]])

Admit(i, b) == AdmitOnce(i, b) \/ AdmitAlways(i, b) \/ AdmitFallback(i, b)

-----------------------------------------------------------------------------
\* What happens to approvals between two uses of the gate.
ApprovalStep ==
    \/ \E r \in Requests :
        \/ \E i \in Ids : RefuseRequest(r, i) \/ \E b \in Bindings : Request(r, i, b)
        \/ Forwarded(r) \/ NoRoute(r) \/ Respond(r)
        \/ Expire(r) \/ EndGrace(r) \/ ClockPasses(r)
    \/ \E w \in Waiters : RespondWait(w) \/ \E i \in Ids : Wait(w, i)
    \/ \E p \in ShortIds \cup {{i} : i \in Ids}, decision \in Decisions : Resolve(p, decision)
    \/ ApproversChange

ANext == ApprovalStep \/ \E i \in Ids, b \in Bindings : Admit(i, b)

ASpec == AInit /\ [][ANext]_avars

\* Promises settle their awaiters, and the timers of entries fire.
AFairness ==
    \A r \in Requests :
        /\ WF_avars(Forwarded(r) \/ NoRoute(r)) /\ WF_avars(Respond(r))
        /\ WF_avars(ClockPasses(r)) /\ WF_avars(Expire(r))

AFairSpec == ASpec /\ AFairness

-----------------------------------------------------------------------------
(* Properties.                                                             *)

\* An open approval can be found under its id, so that a decision reaches
\* it, however ids are used again and whichever timers of settled approvals
\* are still to come.
OpenIsPending == \A r \in Requests : Open(r) => pending[entry[r].id] = r

\* One allow-once decision lets one run pass, and one run only; none passes
\* on an approval that was denied, or that nobody has decided yet.
RunsWithinDecision ==
    \A r \in Requests :
        /\ admitted[r].once <= (IF entry[r].promise = "allow-once" THEN 1 ELSE 0)
        /\ "always" \in admitted[r].other => entry[r].promise = "allow-always"
        /\ "fallback" \in admitted[r].other => entry[r].promise = "null"

\* Whoever asks about an approval gets the same answer: the requester and
\* every waiter, before and after the entry has left the map.  The exception
\* is a request that failed for want of a route while a client that came
\* meanwhile decided it.
OneAnswer ==
    /\ \A r \in Requests :
            request[r].reply \notin {"none", entry[r].promise} =>
                request[r].reply = "null" /\ ~request[r].clients
    /\ \A w \in Waiters : wait[w].reply # "none" => wait[w].reply = entry[wait[w].on].promise

\* What a promise has resolved to is final: neither a late timer nor a second
\* decision changes it.
DecisionStands ==
    [][\A r \in Requests : Registered(r) /\ ~Open(r) =>
            /\ entry'[r].promise = entry[r].promise
            /\ entry'[r].decision \in {entry[r].decision, "none"}]_avars

\* Every request is answered, if only by its timeout.
RequestAnswered ==
    \A r \in Requests : request[r].at = "forwarding" ~> request[r].at = "answered"
=============================================================================
