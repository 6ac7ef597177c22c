--------------------------- MODULE NodeInvokeProofs ---------------------------
(* Theorems about ExecApprovals, for every set of ids, requests, waiters and *)
(* bindings, and about the node invocations that are held against them: they *)
(* use the approvals as ExecApprovals specifies them, so that its theorems   *)
(* hold of the composition, and none is left waiting for a node that is not  *)
(* registered, nor for a push that has ended.                                *)
EXTENDS NodeInvoke, FiniteSetTheorems, TLAPS

-----------------------------------------------------------------------------
(* The inductive invariant of the approvals.                                 *)

\* An entry is filed under its own id.
Filed == \A i \in Ids : pending[i] # None => entry[pending[i]].id = i

\* A request has an entry from the moment it is registered.
Fresh ==
    /\ \A r \in Requests : request[r].at \in {"new", "rejected"} <=> ~Registered(r)
    /\ \A r \in Requests : ~Registered(r) => entry[r].promise = "open"
    /\ \A w \in Waiters : wait[w].on # None => Registered(wait[w].on)

\* The record, the promise and what the gate let pass agree.
Consistent ==
    \A r \in Requests :
        /\ entry[r].decision \in {entry[r].promise, "none"}
        /\ entry[r].promise = "open" \/ entry[r].by = "none" => entry[r].decision = "none"
        /\ entry[r].promise \in Decisions => entry[r].by = "client"
        /\ admitted[r].once <= (IF entry[r].promise = "allow-once" THEN 1 ELSE 0)
        /\ entry[r].decision = "allow-once" => admitted[r].once = 0
        /\ "always" \in admitted[r].other => entry[r].promise = "allow-always"
        /\ "fallback" \in admitted[r].other => entry[r].promise = "null"

\* Answers are given when the promise has settled.
AnswersSettled ==
    /\ \A r \in Requests :
          request[r].reply # "none" =>
              /\ entry[r].promise # "open"
              /\ request[r].reply # entry[r].promise =>
                    request[r].reply = "null" /\ ~request[r].clients
    /\ \A w \in Waiters :
          wait[w].reply # "none" =>
              /\ wait[w].on # None
              /\ entry[wait[w].on].promise # "open"
              /\ wait[w].reply = entry[wait[w].on].promise

IInv == ATypeOK /\ Filed /\ OpenIsPending /\ Fresh /\ Consistent /\ AnswersSettled

-----------------------------------------------------------------------------
(* Types: what settling an entry and answering do to the records.            *)

LEMMA SettleTyped ==
    ASSUME entry \in [Requests -> Records], pending \in [Ids -> Requests \cup {None}],
           NEW i \in Ids, NEW d \in Decisions \cup {"none"}, NEW by \in Origins,
           SettleUnlessSettled(i, d, by)
    PROVE  entry' \in [Requests -> Records]
<1>1. \A e \in Records : Settled(e, d, by) \in Records
  <2> TAKE e \in Records
  <2> DEFINE a == IF d = "none" THEN "null" ELSE d
  <2>1. a \in Answers
      BY DEF Answers
  <2>2. Settled(e, d, by) = [e EXCEPT !.promise = a, !.decision = d, !.by = by]
      BY DEF Settled
  <2> HIDE DEF a
  <2> QED BY <2>1, <2>2 DEF Records
<1>2. CASE i \in OpenIds
  <2>1. pending[i] \in Requests
      BY <1>2, ApprovalAssumption DEF OpenIds
  <2>2. entry' = [entry EXCEPT ![pending[i]] = Settled(entry[pending[i]], d, by)]
      BY <1>2 DEF SettleUnlessSettled
  <2> HIDE DEF SettleUnlessSettled
  <2> QED BY <1>1, <2>1, <2>2
<1>3. CASE i \notin OpenIds
    BY <1>3 DEF SettleUnlessSettled
<1> QED BY <1>2, <1>3

\* Settling answers the open entry of its id, or does nothing.
LEMMA SettleEffect ==
    ASSUME ATypeOK, NEW i \in Ids, NEW d \in Decisions \cup {"none"}, NEW by,
           SettleUnlessSettled(i, d, by)
    PROVE  \A r \in Requests :
              /\ entry'[r].id = entry[r].id
              /\ \/ entry'[r] = entry[r]
                 \/ /\ pending[i] = r /\ Open(r)
                    /\ entry'[r].promise = (IF d = "none" THEN "null" ELSE d)
                    /\ entry'[r].decision = d /\ entry'[r].by = by
<1>1. CASE i \in OpenIds
  <2>1. pending[i] \in Requests /\ Open(pending[i])
      BY <1>1, ApprovalAssumption DEF OpenIds, ATypeOK
  <2>2. entry' = [entry EXCEPT ![pending[i]] = Settled(entry[pending[i]], d, by)]
      BY <1>1 DEF SettleUnlessSettled
  <2>3. \A e \in Records :
            /\ Settled(e, d, by).id = e.id
            /\ Settled(e, d, by).promise = (IF d = "none" THEN "null" ELSE d)
            /\ Settled(e, d, by).decision = d /\ Settled(e, d, by).by = by
      BY DEF Settled, Records
  <2> QED BY <2>1, <2>2, <2>3 DEF ATypeOK
<1>2. CASE i \notin OpenIds
    BY <1>2 DEF SettleUnlessSettled
<1> QED BY <1>1, <1>2

LEMMA AnswerTyped ==
    \A h \in Handlers :
        /\ \A a \in Answers : [h EXCEPT !.at = "answered", !.reply = a] \in Handlers
        /\ \A c \in BOOLEAN : [h EXCEPT !.at = "forwarding", !.clients = c] \in Handlers
        /\ \A at \in {"awaiting", "rejected"} : [h EXCEPT !.at = at] \in Handlers
    BY DEF Handlers

LEMMA InitInv == AInit => IInv
<1> SUFFICES ASSUME AInit PROVE IInv
    OBVIOUS
<1> USE ApprovalAssumption DEF AInit, Blank, Decisions
<1>1. ATypeOK
    BY DEF ATypeOK, Records, Handlers, Waits, Origins, Clock, Answers
<1>2. Filed /\ OpenIsPending
    BY DEF Filed, OpenIsPending, Open, Registered
<1>3. Fresh /\ Consistent /\ AnswersSettled
    BY DEF Fresh, Consistent, AnswersSettled, Registered
<1> QED BY <1>1, <1>2, <1>3 DEF IInv

-----------------------------------------------------------------------------
(* Every action keeps the invariant.                                         *)

LEMMA RequestInv ==
    ASSUME IInv, NEW r \in Requests, NEW i \in Ids, NEW b \in Bindings, Request(r, i, b)
    PROVE  IInv'
<1> USE ApprovalAssumption DEF IInv
<1>1. ATypeOK'
  <2>1. [Blank EXCEPT !.id = i, !.binding = b] \in Records
      BY DEF Blank, Records, Clock, Answers, Decisions, Origins
  <2>2. entry' \in [Requests -> Records]
      BY <2>1 DEF ATypeOK, Request
  <2>3. request' \in [Requests -> Handlers]
    <3>1. [request[r] EXCEPT !.at = "forwarding", !.clients = approvers] \in Handlers
        BY AnswerTyped DEF ATypeOK
    <3>2. request' = [request EXCEPT ![r] =
                        [request[r] EXCEPT !.at = "forwarding", !.clients = approvers]]
        BY DEF Request, ATypeOK
    <3> QED BY <3>1, <3>2 DEF ATypeOK
  <2> QED BY <2>2, <2>3 DEF ATypeOK, Request
<1>2. Filed' /\ OpenIsPending' /\ Fresh'
    BY DEF Request, Blank, ATypeOK, Filed, OpenIsPending, Fresh, Open, Registered,
           Records, Handlers, Waits, Origins, Clock, Answers, Decisions
<1>3. Consistent' /\ AnswersSettled'
    BY DEF Request, Blank, ATypeOK, Filed, Fresh, Consistent, AnswersSettled, Open, Registered,
           Records, Handlers, Waits, Origins, Clock, Answers, Decisions
<1> QED BY <1>1, <1>2, <1>3

LEMMA RefuseRequestInv ==
    ASSUME IInv, NEW r \in Requests, NEW i \in Ids, RefuseRequest(r, i)
    PROVE  IInv'
<1> USE ApprovalAssumption DEF IInv
<1>1. ATypeOK'
  <2>1. [request[r] EXCEPT !.at = "rejected"] \in Handlers
      BY AnswerTyped DEF ATypeOK
  <2>2. request' = [request EXCEPT ![r] = [request[r] EXCEPT !.at = "rejected"]]
      BY DEF RefuseRequest, ATypeOK
  <2> QED BY <2>1, <2>2 DEF ATypeOK, RefuseRequest
<1>2. Filed' /\ OpenIsPending' /\ Fresh'
    BY DEF RefuseRequest, ATypeOK, Filed, OpenIsPending, Fresh, Open, Registered,
           Records, Handlers, Waits, Origins, Clock, Answers, Decisions
<1>3. Consistent' /\ AnswersSettled'
    BY DEF RefuseRequest, ATypeOK, Filed, Fresh, Consistent, AnswersSettled, Open, Registered,
           Records, Handlers, Waits, Origins, Clock, Answers, Decisions
<1> QED BY <1>1, <1>2, <1>3

LEMMA ForwardedInv ==
    ASSUME IInv, NEW r \in Requests, Forwarded(r)
    PROVE  IInv'
<1> USE ApprovalAssumption DEF IInv
<1>1. ATypeOK'
  <2>1. [request[r] EXCEPT !.at = "awaiting"] \in Handlers
      BY AnswerTyped DEF ATypeOK
  <2>2. request' = [request EXCEPT ![r] = [request[r] EXCEPT !.at = "awaiting"]]
      BY DEF Forwarded, ATypeOK
  <2> QED BY <2>1, <2>2 DEF ATypeOK, Forwarded
<1>2. Filed' /\ OpenIsPending' /\ Fresh'
    BY DEF Forwarded, ATypeOK, Filed, OpenIsPending, Fresh, Open, Registered,
           Records, Handlers, Waits, Origins, Clock, Answers, Decisions
<1>3. Consistent' /\ AnswersSettled'
    BY DEF Forwarded, ATypeOK, Filed, Fresh, Consistent, AnswersSettled, Open, Registered,
           Records, Handlers, Waits, Origins, Clock, Answers, Decisions
<1> QED BY <1>1, <1>2, <1>3

LEMMA NoRouteInv ==
    ASSUME IInv, NEW r \in Requests, NoRoute(r)
    PROVE  IInv'
<1> USE ApprovalAssumption DEF IInv
<1>1. ATypeOK'
  <2>1. entry[r].id \in Ids
      BY DEF ATypeOK, Fresh, NoRoute, Registered, Records
  <2>2. entry' \in [Requests -> Records]
      BY <2>1, SettleTyped DEF ATypeOK, NoRoute, Origins
  <2>3. [request[r] EXCEPT !.at = "answered", !.reply = "null"] \in Handlers
      BY AnswerTyped DEF ATypeOK, Answers
  <2>4. request' = [request EXCEPT ![r] = [request[r] EXCEPT !.at = "answered", !.reply = "null"]]
      BY DEF NoRoute, ATypeOK
  <2>5. request' \in [Requests -> Handlers]
      BY <2>3, <2>4 DEF ATypeOK
  <2> QED BY <2>2, <2>5 DEF ATypeOK, NoRoute
<1>2. entry[r].id \in Ids /\ Registered(r)
    BY DEF ATypeOK, NoRoute, Fresh, Open, Registered, Records
<1>3. \A q \in Requests :
          /\ entry'[q].id = entry[q].id
          /\ \/ entry'[q] = entry[q]
             \/ /\ Open(q)
                /\ entry'[q].promise = "null" /\ entry'[q].decision = "none"
                /\ entry'[q].by = "no-approval-route"
    BY <1>2, SettleEffect DEF NoRoute
<1>4. entry'[r].promise # "open"
  <2>1. ASSUME Open(r) PROVE entry[r].id \in OpenIds /\ pending[entry[r].id] = r
      BY <1>2, <2>1 DEF OpenIds, OpenIsPending
  <2>2. CASE Open(r)
      BY <2>1, <2>2 DEF NoRoute, SettleUnlessSettled, Settled, ATypeOK, Records
  <2>3. CASE ~Open(r)
      BY <1>2, <1>3, <2>3 DEF Open
  <2> QED BY <2>2, <2>3
<1>5. /\ pending' = pending /\ wait' = wait /\ admitted' = admitted
      /\ \A q \in Requests :
            \/ request'[q] = request[q]
            \/ /\ q = r /\ request[q].at = "forwarding" /\ request'[q].at = "answered"
               /\ request'[q].reply = "null" /\ ~request'[q].clients
    BY DEF NoRoute, ATypeOK, Handlers
<1>6. Filed'
    BY <1>3, <1>5 DEF Filed, ATypeOK
<1>7. OpenIsPending'
    BY <1>3, <1>5 DEF OpenIsPending, Open, Registered
<1>8. Fresh'
  <2>1. \A w \in Waiters : wait[w].on # None => wait[w].on \in Requests
      BY DEF ATypeOK, Waits
  <2>2. \A q \in Requests : Registered(q)' <=> Registered(q)
      BY <1>3 DEF Registered
  <2> QED BY <1>2, <1>3, <1>5, <2>1, <2>2 DEF Fresh, Open
<1>9. Consistent'
    BY <1>3, <1>5 DEF Consistent, Open, Decisions
<1>10. AnswersSettled'
    BY <1>3, <1>4, <1>5 DEF AnswersSettled, Open, ATypeOK, Waits
<1> QED BY <1>1, <1>6, <1>7, <1>8, <1>9, <1>10

LEMMA RespondInv ==
    ASSUME IInv, NEW r \in Requests, Respond(r)
    PROVE  IInv'
<1> USE ApprovalAssumption DEF IInv
<1>1. ATypeOK'
  <2>1. entry[r].promise \in Answers
      BY DEF ATypeOK, Respond, Records, Answers
  <2>2. [request[r] EXCEPT !.at = "answered", !.reply = entry[r].promise] \in Handlers
      BY <2>1, AnswerTyped DEF ATypeOK
  <2>3. request' = [request EXCEPT ![r] =
                      [request[r] EXCEPT !.at = "answered", !.reply = entry[r].promise]]
      BY DEF Respond, ATypeOK
  <2> QED BY <2>2, <2>3 DEF ATypeOK, Respond
<1>2. Filed' /\ OpenIsPending' /\ Fresh'
    BY DEF Respond, ATypeOK, Filed, OpenIsPending, Fresh, Open, Registered,
           Records, Handlers, Waits, Origins, Clock, Answers, Decisions
<1>3. Consistent' /\ AnswersSettled'
    BY DEF Respond, ATypeOK, Filed, Fresh, Consistent, AnswersSettled, Open, Registered,
           Records, Handlers, Waits, Origins, Clock, Answers, Decisions
<1> QED BY <1>1, <1>2, <1>3

LEMMA WaitInv ==
    ASSUME IInv, NEW w \in Waiters, NEW i \in Ids, Wait(w, i)
    PROVE  IInv'
<1> USE ApprovalAssumption DEF IInv
<1>1. ATypeOK'
    BY SMTT(30) DEF ATypeOK, Wait, Records, Handlers, Waits, Origins, Clock, Answers, Decisions
<1>2. Filed' /\ OpenIsPending' /\ Fresh'
    BY DEF Wait, ATypeOK, Filed, OpenIsPending, Fresh, Open, Registered,
           Records, Handlers, Waits, Origins, Clock, Answers, Decisions
<1>3. Consistent' /\ AnswersSettled'
    BY DEF Wait, ATypeOK, Filed, Fresh, Consistent, AnswersSettled, Open, Registered,
           Records, Handlers, Waits, Origins, Clock, Answers, Decisions
<1> QED BY <1>1, <1>2, <1>3

LEMMA RespondWaitInv ==
    ASSUME IInv, NEW w \in Waiters, RespondWait(w)
    PROVE  IInv'
<1> USE ApprovalAssumption DEF IInv
<1>1. ATypeOK'
  <2>1. entry[wait[w].on].promise \in Answers
      BY DEF ATypeOK, RespondWait, Records, Answers, Waits
  <2>2. [wait[w] EXCEPT !.reply = entry[wait[w].on].promise] \in Waits
      BY <2>1 DEF ATypeOK, Waits
  <2>3. wait' = [wait EXCEPT ![w] = [wait[w] EXCEPT !.reply = entry[wait[w].on].promise]]
      BY DEF RespondWait, ATypeOK
  <2> QED BY <2>2, <2>3 DEF ATypeOK, RespondWait
<1>2. Filed' /\ OpenIsPending' /\ Fresh'
    BY DEF RespondWait, ATypeOK, Filed, OpenIsPending, Fresh, Open, Registered,
           Records, Handlers, Waits, Origins, Clock, Answers, Decisions
<1>3. Consistent' /\ AnswersSettled'
    BY DEF RespondWait, ATypeOK, Filed, Fresh, Consistent, AnswersSettled, Open, Registered,
           Records, Handlers, Waits, Origins, Clock, Answers, Decisions
<1> QED BY <1>1, <1>2, <1>3

LEMMA ResolveInv ==
    ASSUME IInv, NEW p, NEW d \in Decisions, Resolve(p, d)
    PROVE  IInv'
<1> USE ApprovalAssumption DEF IInv
<1>1. ATypeOK'
  <2>1. PICK i \in OpenIds : SettleUnlessSettled(i, d, "client")
      BY DEF Resolve
  <2>2. entry' \in [Requests -> Records]
      BY <2>1, SettleTyped DEF ATypeOK, OpenIds, Origins
  <2> QED BY <2>2 DEF ATypeOK, Resolve
<1>2. Filed' /\ OpenIsPending' /\ Fresh'
    BY DEF Resolve, SettleUnlessSettled, Settled, OpenIds, ATypeOK, Filed, OpenIsPending, Fresh, Open, Registered,
           Records, Handlers, Waits, Origins, Clock, Answers, Decisions
<1>3. Consistent' /\ AnswersSettled'
    BY SMTT(30) DEF Resolve, SettleUnlessSettled, Settled, OpenIds, ATypeOK, Filed, Fresh, Consistent, AnswersSettled, Open, Registered,
           Records, Handlers, Waits, Origins, Clock, Answers, Decisions
<1> QED BY <1>1, <1>2, <1>3

LEMMA ExpireInv ==
    ASSUME IInv, NEW r \in Requests, Expire(r)
    PROVE  IInv'
<1> USE ApprovalAssumption DEF IInv
<1>1. ATypeOK'
  <2>1. entry[r].id \in Ids
      BY DEF ATypeOK, Expire, Open, Registered, Records
  <2> QED BY <2>1, SettleTyped DEF ATypeOK, Expire, Origins
<1>2. entry[r].id \in Ids /\ Registered(r)
    BY DEF ATypeOK, Expire, Fresh, Open, Registered, Records
<1>3. \A q \in Requests :
          /\ entry'[q].id = entry[q].id
          /\ \/ entry'[q] = entry[q]
             \/ /\ Open(q)
                /\ entry'[q].promise = "null" /\ entry'[q].decision = "none"
                /\ entry'[q].by = "none"
    BY <1>2, SettleEffect DEF Expire
<1>4. pending' = pending /\ request' = request /\ wait' = wait /\ admitted' = admitted
    BY DEF Expire
<1>5. Filed'
    BY <1>3, <1>4 DEF Filed, ATypeOK
<1>6. OpenIsPending'
    BY <1>3, <1>4 DEF OpenIsPending, Open, Registered
<1>7. Fresh'
  <2>1. \A w \in Waiters : wait[w].on # None => wait[w].on \in Requests
      BY DEF ATypeOK, Waits
  <2>2. \A q \in Requests : Registered(q)' <=> Registered(q)
      BY <1>3 DEF Registered
  <2> QED BY <1>2, <1>3, <1>4, <2>1, <2>2 DEF Fresh, Open
<1>8. Consistent'
    BY <1>3, <1>4 DEF Consistent, Open, Decisions
<1>9. AnswersSettled'
    BY <1>3, <1>4 DEF AnswersSettled, Open, ATypeOK, Waits
<1> QED BY <1>1, <1>5, <1>6, <1>7, <1>8, <1>9

LEMMA EndGraceInv ==
    ASSUME IInv, NEW r \in Requests, EndGrace(r)
    PROVE  IInv'
<1> USE ApprovalAssumption DEF IInv
<1>1. ATypeOK'
    BY DEF ATypeOK, EndGrace, Records, Handlers, Waits, Origins, Clock, Answers, Decisions
<1>2. Filed' /\ OpenIsPending' /\ Fresh'
    BY DEF EndGrace, ATypeOK, Filed, OpenIsPending, Fresh, Open, Registered,
           Records, Handlers, Waits, Origins, Clock, Answers, Decisions
<1>3. Consistent' /\ AnswersSettled'
    BY DEF EndGrace, ATypeOK, Filed, Fresh, Consistent, AnswersSettled, Open, Registered,
           Records, Handlers, Waits, Origins, Clock, Answers, Decisions
<1> QED BY <1>1, <1>2, <1>3

LEMMA ClockPassesInv ==
    ASSUME IInv, NEW r \in Requests, ClockPasses(r)
    PROVE  IInv'
<1> USE ApprovalAssumption DEF IInv
<1>1. ATypeOK'
  <2> DEFINE later == IF entry[r].clock = "early" THEN "due" ELSE "late"
  <2>1. [entry[r] EXCEPT !.clock = later] \in Records
      BY DEF ATypeOK, Records, Clock
  <2>2. entry' = [entry EXCEPT ![r] = [entry[r] EXCEPT !.clock = later]]
      BY DEF ClockPasses, ATypeOK
  <2>3. entry' \in [Requests -> Records]
      BY <2>1, <2>2 DEF ATypeOK
  <2> QED BY <2>3 DEF ATypeOK, ClockPasses
<1>2. Filed' /\ OpenIsPending' /\ Fresh'
    BY DEF ClockPasses, ATypeOK, Filed, OpenIsPending, Fresh, Open, Registered,
           Records, Handlers, Waits, Origins, Clock, Answers, Decisions
<1>3. Consistent' /\ AnswersSettled'
    BY DEF ClockPasses, ATypeOK, Filed, Fresh, Consistent, AnswersSettled, Open, Registered,
           Records, Handlers, Waits, Origins, Clock, Answers, Decisions
<1> QED BY <1>1, <1>2, <1>3

LEMMA ApproversChangeInv ==
    ASSUME IInv, ApproversChange
    PROVE  IInv'
<1> USE ApprovalAssumption DEF IInv
<1>1. ATypeOK'
    BY DEF ATypeOK, ApproversChange, Records, Handlers, Waits, Origins, Clock, Answers, Decisions
<1>2. Filed' /\ OpenIsPending' /\ Fresh'
    BY DEF ApproversChange, ATypeOK, Filed, OpenIsPending, Fresh, Open, Registered,
           Records, Handlers, Waits, Origins, Clock, Answers, Decisions
<1>3. Consistent' /\ AnswersSettled'
    BY DEF ApproversChange, ATypeOK, Filed, Fresh, Consistent, AnswersSettled, Open, Registered,
           Records, Handlers, Waits, Origins, Clock, Answers, Decisions
<1> QED BY <1>1, <1>2, <1>3

LEMMA AdmitOnceInv ==
    ASSUME IInv, NEW i \in Ids, NEW b \in Bindings, AdmitOnce(i, b)
    PROVE  IInv'
<1> USE ApprovalAssumption DEF IInv
<1>1. ATypeOK'
  <2>1. pending[i] \in Requests
      BY DEF ATypeOK, AdmitOnce, Valid
  <2>2. \A e \in Records : [e EXCEPT !.decision = "none"] \in Records
      BY DEF Records
  <2>3. entry' = [entry EXCEPT ![pending[i]] = [entry[pending[i]] EXCEPT !.decision = "none"]]
      BY <2>1 DEF AdmitOnce, ATypeOK
  <2>4. entry' \in [Requests -> Records]
      BY <2>1, <2>2, <2>3 DEF ATypeOK
  <2>5. admitted' \in [Requests -> [once : Nat, other : SUBSET {"always", "fallback"}]]
      BY <2>1 DEF ATypeOK, AdmitOnce
  <2> QED BY <2>4, <2>5 DEF ATypeOK, AdmitOnce
<1>2. Filed' /\ OpenIsPending' /\ Fresh'
    BY DEF AdmitOnce, Valid, ATypeOK, Filed, OpenIsPending, Fresh, Open, Registered,
           Records, Handlers, Waits, Origins, Clock, Answers, Decisions
<1>3. Consistent' /\ AnswersSettled'
    BY DEF AdmitOnce, Valid, ATypeOK, Filed, Fresh, Consistent, AnswersSettled, Open, Registered,
           Records, Handlers, Waits, Origins, Clock, Answers, Decisions
<1> QED BY <1>1, <1>2, <1>3

LEMMA AdmitAlwaysInv ==
    ASSUME IInv, NEW i \in Ids, NEW b \in Bindings, AdmitAlways(i, b)
    PROVE  IInv'
<1> USE ApprovalAssumption DEF IInv
<1>1. ATypeOK'
    BY DEF ATypeOK, AdmitAlways, Valid, Records, Handlers, Waits, Origins, Clock, Answers, Decisions
<1>2. Filed' /\ OpenIsPending' /\ Fresh'
    BY DEF AdmitAlways, Valid, ATypeOK, Filed, OpenIsPending, Fresh, Open, Registered,
           Records, Handlers, Waits, Origins, Clock, Answers, Decisions
<1>3. Consistent' /\ AnswersSettled'
    BY DEF AdmitAlways, Valid, ATypeOK, Filed, Fresh, Consistent, AnswersSettled, Open, Registered,
           Records, Handlers, Waits, Origins, Clock, Answers, Decisions
<1> QED BY <1>1, <1>2, <1>3

LEMMA AdmitFallbackInv ==
    ASSUME IInv, NEW i \in Ids, NEW b \in Bindings, AdmitFallback(i, b)
    PROVE  IInv'
<1> USE ApprovalAssumption DEF IInv
<1>1. ATypeOK'
    BY DEF ATypeOK, AdmitFallback, Valid, TimedOut, Records, Handlers, Waits, Origins, Clock, Answers, Decisions
<1>2. Filed' /\ OpenIsPending' /\ Fresh'
    BY DEF AdmitFallback, Valid, TimedOut, ATypeOK, Filed, OpenIsPending, Fresh, Open, Registered,
           Records, Handlers, Waits, Origins, Clock, Answers, Decisions
<1>3. Consistent' /\ AnswersSettled'
    BY DEF AdmitFallback, Valid, TimedOut, ATypeOK, Filed, Fresh, Consistent, AnswersSettled, Open, Registered,
           Records, Handlers, Waits, Origins, Clock, Answers, Decisions
<1> QED BY <1>1, <1>2, <1>3

LEMMA NextInv ==
    ASSUME IInv, [ANext]_avars
    PROVE  IInv'
<1>1. CASE \E r \in Requests :
              \/ \E i \in Ids : RefuseRequest(r, i) \/ \E b \in Bindings : Request(r, i, b)
              \/ Forwarded(r) \/ NoRoute(r) \/ Respond(r)
              \/ Expire(r) \/ EndGrace(r) \/ ClockPasses(r)
    BY <1>1, RefuseRequestInv, RequestInv, ForwardedInv, NoRouteInv, RespondInv, ExpireInv,
       EndGraceInv, ClockPassesInv
<1>2. CASE \E w \in Waiters : RespondWait(w) \/ \E i \in Ids : Wait(w, i)
    BY <1>2, RespondWaitInv, WaitInv
<1>3. CASE \E p \in ShortIds \cup {{i} : i \in Ids}, decision \in Decisions : Resolve(p, decision)
    BY <1>3, ResolveInv
<1>4. CASE ApproversChange
    BY <1>4, ApproversChangeInv
<1>5. CASE \E i \in Ids, b \in Bindings : Admit(i, b)
    BY <1>5, AdmitOnceInv, AdmitAlwaysInv, AdmitFallbackInv DEF Admit
<1>6. CASE UNCHANGED avars
  <2> USE <1>6 DEF IInv, avars
  <2>1. ATypeOK' /\ Filed' /\ OpenIsPending' /\ Fresh'
      BY DEF ATypeOK, Filed, OpenIsPending, Fresh, Open, Registered
  <2>2. Consistent' /\ AnswersSettled'
      BY DEF Consistent, AnswersSettled
  <2> QED BY <2>1, <2>2
<1> QED BY <1>1, <1>2, <1>3, <1>4, <1>5, <1>6 DEF ANext, ApprovalStep

\* What holds of requests, entries and waits in every reachable state.
THEOREM ApprovalsInvariant == ASpec => []IInv
<1>1. AInit => IInv
    BY InitInv
<1>2. IInv /\ [ANext]_avars => IInv'
    BY NextInv
<1> QED BY <1>1, <1>2, PTL DEF ASpec

-----------------------------------------------------------------------------
(* The theorems.                                                             *)

\* The state of the approval manager is always well formed.
THEOREM ApprovalsTyped == ASpec => []ATypeOK
<1>1. IInv => ATypeOK
    BY DEF IInv
<1> QED BY ApprovalsInvariant, <1>1, PTL

\* A decision on an open approval always finds its entry, for any reuse of
\* ids and any order of timers.
THEOREM OpenApprovalsPending == ASpec => []OpenIsPending
<1>1. IInv => OpenIsPending
    BY DEF IInv
<1> QED BY ApprovalsInvariant, <1>1, PTL

\* However many calls race for the gate, an allow-once decision lets one run
\* pass, and none passes against or before a decision.
THEOREM RunsStayWithinDecision == ASpec => []RunsWithinDecision
<1>1. IInv => RunsWithinDecision
    BY DEF IInv, Consistent, RunsWithinDecision
<1> QED BY ApprovalsInvariant, <1>1, PTL

\* Everyone who asks about an approval is told the same.
THEOREM AnswersAgree == ASpec => []OneAnswer
<1>1. IInv => OneAnswer
    BY DEF IInv, AnswersSettled, OneAnswer
<1> QED BY ApprovalsInvariant, <1>1, PTL

\* What a step does to a settled entry.
Stands(r) ==
    Registered(r) /\ ~Open(r) =>
        /\ entry'[r].promise = entry[r].promise
        /\ entry'[r].decision \in {entry[r].decision, "none"}

LEMMA SettleStands ==
    ASSUME IInv, NEW i \in Ids, NEW d, NEW by, SettleUnlessSettled(i, d, by),
           NEW r \in Requests
    PROVE  Stands(r)
    BY DEF IInv, ATypeOK, Stands, SettleUnlessSettled, OpenIds

LEMMA StepStands ==
    ASSUME IInv, [ANext]_avars, NEW q \in Requests
    PROVE  Stands(q)
<1>1. ASSUME NEW r \in Requests, NEW i \in Ids, NEW b \in Bindings, Request(r, i, b)
      PROVE  Stands(q)
    BY <1>1 DEF IInv, ATypeOK, Fresh, Request, Stands
<1>2. ASSUME NEW r \in Requests, NoRoute(r)
      PROVE  Stands(q)
  <2>1. entry[r].id \in Ids
      BY <1>2 DEF IInv, ATypeOK, Fresh, NoRoute, Registered, Records
  <2> QED BY <1>2, <2>1, SettleStands DEF NoRoute
<1>3. ASSUME NEW r \in Requests, Expire(r)
      PROVE  Stands(q)
  <2>1. entry[r].id \in Ids
      BY <1>3 DEF IInv, ATypeOK, Expire, Open, Registered, Records
  <2> QED BY <1>3, <2>1, SettleStands DEF Expire
<1>4. ASSUME NEW p, NEW d, Resolve(p, d)
      PROVE  Stands(q)
    BY <1>4, SettleStands DEF Resolve, OpenIds
<1>5. ASSUME NEW r \in Requests, ClockPasses(r)
      PROVE  Stands(q)
    BY <1>5 DEF IInv, ATypeOK, Records, ClockPasses, Stands
<1>6. ASSUME NEW i \in Ids, NEW b \in Bindings, AdmitOnce(i, b)
      PROVE  Stands(q)
    BY <1>6 DEF IInv, ATypeOK, Records, AdmitOnce, Valid, Stands
<1>7. ASSUME entry' = entry
      PROVE  Stands(q)
    BY <1>7 DEF Stands
<1>8. CASE ApprovalStep
  <2>1. CASE \E r \in Requests :
                \/ \E i \in Ids : RefuseRequest(r, i) \/ \E b \in Bindings : Request(r, i, b)
                \/ Forwarded(r) \/ NoRoute(r) \/ Respond(r)
                \/ Expire(r) \/ EndGrace(r) \/ ClockPasses(r)
      BY <2>1, <1>1, <1>2, <1>3, <1>5, <1>7 DEF RefuseRequest, Forwarded, Respond, EndGrace
  <2>2. CASE \E w \in Waiters : RespondWait(w) \/ \E i \in Ids : Wait(w, i)
      BY <2>2, <1>7 DEF RespondWait, Wait
  <2>3. CASE \/ ApproversChange
             \/ \E p \in ShortIds \cup {{i} : i \in Ids}, decision \in Decisions :
                    Resolve(p, decision)
      BY <2>3, <1>4, <1>7 DEF ApproversChange
  <2> QED BY <1>8, <2>1, <2>2, <2>3 DEF ApprovalStep
<1>9. CASE \E i \in Ids, b \in Bindings : Admit(i, b)
    BY <1>9, <1>6, <1>7 DEF Admit, AdmitAlways, AdmitFallback
<1>10. CASE UNCHANGED avars
    BY <1>10, <1>7 DEF avars
<1> QED BY <1>8, <1>9, <1>10 DEF ANext

\* A decision, once given, is never revised by a late timer, a second client
\* or the gate.
THEOREM DecisionsStand == ASpec => DecisionStands
<1>1. IInv /\ [ANext]_avars =>
          [\A r \in Requests : Registered(r) /\ ~Open(r) =>
              /\ entry'[r].promise = entry[r].promise
              /\ entry'[r].decision \in {entry[r].decision, "none"}]_avars
    BY StepStands DEF Stands
<1> QED BY ApprovalsInvariant, <1>1, PTL DEF ASpec, DecisionStands

-----------------------------------------------------------------------------
(* The invariant of the node's part.                                         *)

NodeTyped ==
    /\ command \in [Invokes -> Commands]
    /\ nodesById \in [Nodes -> Conns \cup {None}]
    /\ invoke \in [Invokes -> Stages \cup Outcomes]
    /\ pendingInvokes \subseteq Invokes
    /\ push \in [Nodes -> Invokes \cup {None}]

\* The call that started a push is a call for the node it wakes.
PushForTarget == \A n \in Nodes : push[n] # None => Target[push[n]] = n

NInv == NodeTyped /\ PushForTarget /\ WaitsForConnectedNode /\ AwaitsPushInFlight

LEMMA NodeInitInv == NodeInit => NInv
<1> SUFFICES ASSUME NodeInit PROVE NInv
    OBVIOUS
<1>1. NodeTyped
    BY DEF NodeInit, NodeTyped, Stages, Searching
<1>2. PushForTarget /\ WaitsForConnectedNode /\ AwaitsPushInFlight
    BY DEF NodeInit, PushForTarget, WaitsForConnectedNode, AwaitsPushInFlight, Waking
<1> QED BY <1>1, <1>2 DEF NInv

\* What a wake does: the call awaits a push that is in flight, perhaps its
\* own, or goes on, and no other call is touched.
LEMMA WakeEffect ==
    ASSUME NInv, NEW i \in Invokes, invoke[i] \notin Waking,
           NEW force \in BOOLEAN, NEW awaiting \in Waking,
           NEW told \in (Stages \cup Outcomes) \ (Waking \cup {"sent"}),
           Wake(i, force, awaiting, told)
    PROVE  /\ invoke' \in [Invokes -> Stages \cup Outcomes]
           /\ push' \in [Nodes -> Invokes \cup {None}]
           /\ PushForTarget' /\ AwaitsPushInFlight'
           /\ \A j \in Invokes : j # i => invoke'[j] = invoke[j]
           /\ invoke'[i] # "sent"
<1> USE InvokeAssumption DEF NInv
<1> DEFINE n == Target[i]
<1>1. n \in Nodes /\ awaiting \in Stages /\ awaiting # "sent"
    BY DEF Stages, Waking
<1>2. CASE push[n] # None \/ ~(woken[n] = "recently" /\ ~force)
  <2>1. invoke' = [invoke EXCEPT ![i] = awaiting]
      BY <1>2 DEF Wake
  <2>2. invoke' \in [Invokes -> Stages \cup Outcomes]
      BY <1>1, <2>1 DEF NodeTyped
  <2>3. invoke'[i] = awaiting /\ \A j \in Invokes : j # i => invoke'[j] = invoke[j]
      BY <2>1 DEF NodeTyped
  <2>4. CASE push[n] # None
    <3>1. push' = push
        BY <2>4 DEF Wake
    <3>2. PushForTarget' /\ AwaitsPushInFlight'
        BY <1>1, <2>3, <2>4, <3>1 DEF NodeTyped, PushForTarget, AwaitsPushInFlight
    <3> QED BY <1>1, <2>2, <2>3, <3>1, <3>2 DEF NodeTyped
  <2>5. CASE push[n] = None
    <3>1. push' = [push EXCEPT ![n] = i]
        BY <1>2, <2>5 DEF Wake
    <3>2. push' \in [Nodes -> Invokes \cup {None}] /\ push'[n] = i
             /\ \A m \in Nodes : m # n => push'[m] = push[m]
        BY <1>1, <3>1 DEF NodeTyped
    <3>3. PushForTarget'
        BY <3>2 DEF PushForTarget
    <3>4. \A m \in Nodes : push'[m] # None => push'[m] \in Invokes
        BY <3>2
    <3>5. \A j \in Invokes : invoke'[j] \in Waking => push'[Target[j]] # None
      <4> TAKE j \in Invokes
      <4>1. CASE Target[j] = n
          BY <3>2, <4>1
      <4>2. CASE Target[j] # n
          BY <2>3, <3>2, <4>2 DEF AwaitsPushInFlight
      <4> QED BY <4>1, <4>2
    <3>6. \A m \in Nodes : push'[m] # None => invoke'[push'[m]] \in Waking
      <4> TAKE m \in Nodes
      <4>1. CASE m = n
          BY <2>3, <3>2, <4>1
      <4>2. CASE m # n
          BY <2>3, <3>2, <3>4, <4>2 DEF AwaitsPushInFlight, PushForTarget
      <4> QED BY <4>1, <4>2
    <3>7. AwaitsPushInFlight'
        BY <3>5, <3>6 DEF AwaitsPushInFlight
    <3> QED BY <1>1, <2>2, <2>3, <3>2, <3>3, <3>7
  <2> QED BY <2>4, <2>5
<1>3. CASE push[n] = None /\ woken[n] = "recently" /\ ~force
  <2>1. invoke' = [invoke EXCEPT ![i] = told] /\ push' = push
      BY <1>3 DEF Wake
  <2>2. invoke' \in [Invokes -> Stages \cup Outcomes]
      BY <2>1 DEF NodeTyped
  <2>3. invoke'[i] = told /\ \A j \in Invokes : j # i => invoke'[j] = invoke[j]
      BY <2>1 DEF NodeTyped
  <2>4. PushForTarget' /\ AwaitsPushInFlight'
      BY <2>1, <2>3 DEF NodeTyped, PushForTarget, AwaitsPushInFlight
  <2> QED BY <2>1, <2>2, <2>3, <2>4 DEF NodeTyped
<1> QED BY <1>2, <1>3

LEMMA ConnectNInv ==
    ASSUME NInv, NEW c \in Conns, Connect(c)
    PROVE  NInv'
<1> USE InvokeAssumption DEF NInv
<1>1. NodeTyped' /\ PushForTarget'
    BY DEF Connect, NodeTyped, PushForTarget, Stages, Searching, Outcomes, Waking
<1>2. WaitsForConnectedNode'
    BY DEF Connect, NodeTyped, WaitsForConnectedNode, Connected, Stages, Searching, Outcomes, Waking
<1>3. AwaitsPushInFlight'
    BY DEF Connect, NodeTyped, PushForTarget, WaitsForConnectedNode, AwaitsPushInFlight,
           Stages, Searching, Outcomes, Waking
<1> QED BY <1>1, <1>2, <1>3

LEMMA CloseNInv ==
    ASSUME NInv, NEW c \in Conns, Close(c)
    PROVE  NInv'
<1> USE InvokeAssumption DEF NInv
<1>1. NodeTyped' /\ PushForTarget'
    BY DEF Close, NodeTyped, PushForTarget, Stages, Searching, Outcomes, Waking
<1>2. WaitsForConnectedNode'
    BY DEF Close, NodeTyped, WaitsForConnectedNode, Connected, Stages, Searching, Outcomes, Waking
<1>3. AwaitsPushInFlight'
    BY DEF Close, NodeTyped, PushForTarget, WaitsForConnectedNode, AwaitsPushInFlight,
           Stages, Searching, Outcomes, Waking
<1> QED BY <1>1, <1>2, <1>3

LEMMA WakeFirstNInv ==
    ASSUME NInv, NEW i \in Invokes, WakeFirst(i)
    PROVE  NInv'
<1> USE InvokeAssumption DEF NInv
<1>1. /\ Wake(i, FALSE, "wake1", "woken1") /\ invoke[i] = "new"
      /\ UNCHANGED <<command, nodesById, pendingInvokes>>
    BY DEF WakeFirst, Idle
<1>2. /\ "new" \notin Waking /\ "wake1" \in Waking
      /\ "woken1" \in (Stages \cup Outcomes) \ (Waking \cup {"sent"})
    BY DEF Stages, Searching, Waking
<1>3. /\ invoke' \in [Invokes -> Stages \cup Outcomes] /\ push' \in [Nodes -> Invokes \cup {None}]
      /\ PushForTarget' /\ AwaitsPushInFlight'
      /\ invoke'[i] # "sent" /\ \A j \in Invokes : j # i => invoke'[j] = invoke[j]
    BY <1>1, <1>2, WakeEffect
<1>4. NodeTyped'
    BY <1>1, <1>3 DEF NodeTyped
<1>5. i \notin pendingInvokes
    BY <1>1 DEF WaitsForConnectedNode
<1>6. \A j \in pendingInvokes : Connected(j)' /\ invoke'[j] = "sent"
    BY <1>1, <1>3, <1>5 DEF NodeTyped, WaitsForConnectedNode, Connected
<1>7. \A j \in Invokes : invoke'[j] = "sent" => j \in pendingInvokes
    BY <1>3 DEF WaitsForConnectedNode
<1>8. WaitsForConnectedNode'
    BY <1>1, <1>6, <1>7 DEF WaitsForConnectedNode
<1> QED BY <1>3, <1>4, <1>8

LEMMA WakeAgainNInv ==
    ASSUME NInv, NEW i \in Invokes, WakeAgain(i)
    PROVE  NInv'
<1> USE InvokeAssumption DEF NInv
<1>1. /\ Wake(i, TRUE, "wake2", "woken2") /\ invoke[i] = "woken1"
      /\ UNCHANGED <<command, nodesById, pendingInvokes>>
    BY DEF WakeAgain, Idle
<1>2. /\ "woken1" \notin Waking /\ "wake2" \in Waking
      /\ "woken2" \in (Stages \cup Outcomes) \ (Waking \cup {"sent"})
    BY DEF Stages, Searching, Waking
<1>3. /\ invoke' \in [Invokes -> Stages \cup Outcomes] /\ push' \in [Nodes -> Invokes \cup {None}]
      /\ PushForTarget' /\ AwaitsPushInFlight'
      /\ invoke'[i] # "sent" /\ \A j \in Invokes : j # i => invoke'[j] = invoke[j]
    BY <1>1, <1>2, WakeEffect
<1>4. NodeTyped'
    BY <1>1, <1>3 DEF NodeTyped
<1>5. i \notin pendingInvokes
    BY <1>1 DEF WaitsForConnectedNode
<1>6. \A j \in pendingInvokes : Connected(j)' /\ invoke'[j] = "sent"
    BY <1>1, <1>3, <1>5 DEF NodeTyped, WaitsForConnectedNode, Connected
<1>7. \A j \in Invokes : invoke'[j] = "sent" => j \in pendingInvokes
    BY <1>3 DEF WaitsForConnectedNode
<1>8. WaitsForConnectedNode'
    BY <1>1, <1>6, <1>7 DEF WaitsForConnectedNode
<1> QED BY <1>3, <1>4, <1>8

LEMMA NudgeNInv ==
    ASSUME NInv, NEW i \in Invokes, Nudge(i)
    PROVE  NInv'
<1> USE InvokeAssumption DEF NInv
<1>1. NodeTyped' /\ PushForTarget'
    BY DEF Nudge, Idle, NodeTyped, PushForTarget, Stages, Searching, Outcomes, Waking
<1>2. WaitsForConnectedNode'
    BY DEF Nudge, Idle, NodeTyped, WaitsForConnectedNode, Connected, Stages, Searching, Outcomes, Waking
<1>3. AwaitsPushInFlight'
    BY ZenonT(30) DEF Nudge, Idle, NodeTyped, PushForTarget, WaitsForConnectedNode, AwaitsPushInFlight,
           Stages, Searching, Outcomes, Waking
<1> QED BY <1>1, <1>2, <1>3

LEMMA GiveUpNInv ==
    ASSUME NInv, NEW i \in Invokes, GiveUp(i)
    PROVE  NInv'
<1> USE InvokeAssumption DEF NInv
<1>1. NodeTyped' /\ PushForTarget'
    BY DEF GiveUp, Idle, NodeTyped, PushForTarget, Stages, Searching, Outcomes, Waking
<1>2. WaitsForConnectedNode'
    BY DEF GiveUp, Idle, NodeTyped, WaitsForConnectedNode, Connected, Stages, Searching, Outcomes, Waking
<1>3. AwaitsPushInFlight'
    BY ZenonT(30) DEF GiveUp, Idle, NodeTyped, PushForTarget, WaitsForConnectedNode, AwaitsPushInFlight,
           Stages, Searching, Outcomes, Waking
<1> QED BY <1>1, <1>2, <1>3

LEMMA RefuseNInv ==
    ASSUME NInv, NEW i \in Invokes, Refuse(i)
    PROVE  NInv'
<1> USE InvokeAssumption DEF NInv
<1>1. NodeTyped' /\ PushForTarget'
    BY DEF Refuse, Idle, Ready, NodeTyped, PushForTarget, Stages, Searching, Outcomes, Waking
<1>2. WaitsForConnectedNode'
    BY DEF Refuse, Idle, Ready, NodeTyped, WaitsForConnectedNode, Connected, Stages, Searching, Outcomes, Waking
<1>3. AwaitsPushInFlight'
    BY ZenonT(30) DEF Refuse, Idle, Ready, NodeTyped, PushForTarget, WaitsForConnectedNode, AwaitsPushInFlight,
           Stages, Searching, Outcomes, Waking
<1> QED BY <1>1, <1>2, <1>3

LEMMA SendNInv ==
    ASSUME NInv, NEW i \in Invokes, Send(i)
    PROVE  NInv'
<1> USE InvokeAssumption DEF NInv
<1>1. NodeTyped' /\ PushForTarget'
    BY DEF Send, Ready, NodeTyped, PushForTarget, Stages, Searching, Outcomes, Waking
<1>2. WaitsForConnectedNode'
    BY DEF Send, Ready, NodeTyped, WaitsForConnectedNode, Connected, Stages, Searching, Outcomes, Waking
<1>3. AwaitsPushInFlight'
    BY ZenonT(30) DEF Send, Ready, NodeTyped, PushForTarget, WaitsForConnectedNode, AwaitsPushInFlight,
           Stages, Searching, Outcomes, Waking
<1> QED BY <1>1, <1>2, <1>3

LEMMA SendFailsNInv ==
    ASSUME NInv, NEW i \in Invokes, SendFails(i)
    PROVE  NInv'
<1> USE InvokeAssumption DEF NInv
<1>1. NodeTyped' /\ PushForTarget'
    BY DEF SendFails, Ready, NodeTyped, PushForTarget, Stages, Searching, Outcomes, Waking
<1>2. WaitsForConnectedNode'
    BY DEF SendFails, Ready, NodeTyped, WaitsForConnectedNode, Connected, Stages, Searching, Outcomes, Waking
<1>3. AwaitsPushInFlight'
    BY ZenonT(30) DEF SendFails, Ready, NodeTyped, PushForTarget, WaitsForConnectedNode, AwaitsPushInFlight,
           Stages, Searching, Outcomes, Waking
<1> QED BY <1>1, <1>2, <1>3

LEMMA ResultNInv ==
    ASSUME NInv, NEW i \in Invokes, NEW r \in {"ok", "error", "background"}, Result(i, r)
    PROVE  NInv'
<1> USE InvokeAssumption DEF NInv
<1>1. /\ i \in pendingInvokes /\ invoke[i] = "sent"
      /\ pendingInvokes' = pendingInvokes \ {i} /\ UNCHANGED <<command, nodesById>>
    BY DEF Result, WaitsForConnectedNode
<1>2. /\ invoke' \in [Invokes -> Stages \cup Outcomes] /\ push' \in [Nodes -> Invokes \cup {None}]
      /\ PushForTarget' /\ AwaitsPushInFlight'
      /\ invoke'[i] # "sent" /\ \A j \in Invokes : j # i => invoke'[j] = invoke[j]
  <2>1. CASE r = "background"
    <3>1. Wake(i, FALSE, "queued", "deferred")
        BY <2>1 DEF Result
    <3>2. /\ "sent" \notin Waking /\ "queued" \in Waking
          /\ "deferred" \in (Stages \cup Outcomes) \ (Waking \cup {"sent"})
        BY DEF Stages, Searching, Waking, Outcomes
    <3> QED BY <1>1, <3>1, <3>2, WakeEffect
  <2>2. CASE r # "background"
    <3>1. invoke' = [invoke EXCEPT ![i] = r] /\ push' = push
        BY <2>2 DEF Result
    <3>2. r \in Outcomes /\ r # "sent" /\ r \notin Waking /\ "sent" \notin Waking
        BY <2>2 DEF Outcomes, Waking
    <3>3. /\ invoke' \in [Invokes -> Stages \cup Outcomes] /\ invoke'[i] = r
          /\ \A j \in Invokes : j # i => invoke'[j] = invoke[j]
        BY <3>1, <3>2 DEF NodeTyped
    <3>4. PushForTarget' /\ AwaitsPushInFlight'
        BY <1>1, <3>1, <3>2, <3>3 DEF NodeTyped, PushForTarget, AwaitsPushInFlight
    <3> QED BY <3>1, <3>2, <3>3, <3>4 DEF NodeTyped
  <2> QED BY <2>1, <2>2
<1>3. NodeTyped'
    BY <1>1, <1>2 DEF NodeTyped
<1>4. \A j \in pendingInvokes \ {i} : Connected(j)' /\ invoke'[j] = "sent"
    BY <1>1, <1>2 DEF NodeTyped, WaitsForConnectedNode, Connected
<1>5. \A j \in Invokes : invoke'[j] = "sent" => j \in pendingInvokes \ {i}
    BY <1>2 DEF WaitsForConnectedNode
<1>6. WaitsForConnectedNode'
    BY <1>1, <1>4, <1>5 DEF WaitsForConnectedNode
<1> QED BY <1>2, <1>3, <1>6

LEMMA TimeoutNInv ==
    ASSUME NInv, NEW i \in Invokes, Timeout(i)
    PROVE  NInv'
<1> USE InvokeAssumption DEF NInv
<1>1. NodeTyped' /\ PushForTarget' /\ WaitsForConnectedNode'
    BY ZenonT(30) DEF Timeout, NodeTyped, PushForTarget, WaitsForConnectedNode, Connected, Stages, Outcomes
<1>2. invoke[i] = "sent" /\ "sent" \notin Waking /\ "timeout" \notin Waking
    BY DEF Timeout, WaitsForConnectedNode, Waking
<1>3. AwaitsPushInFlight'
    BY <1>2 DEF Timeout, NodeTyped, AwaitsPushInFlight
<1> QED BY <1>1, <1>3

LEMMA EndPushNInv ==
    ASSUME NInv, NEW n \in Nodes, NEW sent \in BOOLEAN, EndPush(n, sent)
    PROVE  NInv'
<1> USE InvokeAssumption DEF NInv
<1>1. /\ UNCHANGED <<command, nodesById, pendingInvokes>> /\ push' = [push EXCEPT ![n] = None]
    BY DEF EndPush
<1>2. /\ push' \in [Nodes -> Invokes \cup {None}] /\ push'[n] = None
      /\ \A m \in Nodes : m # n => push'[m] = push[m]
    BY <1>1 DEF NodeTyped
<1>3. PICK available \in BOOLEAN :
        invoke' = [i \in Invokes |->
            IF Target[i] = n /\ invoke[i] \in Waking THEN AfterPush(invoke[i], available)
                                                     ELSE invoke[i]]
    BY DEF EndPush
<1>4. \A s \in Waking : AfterPush(s, available) \in (Stages \cup Outcomes) \ (Waking \cup {"sent"})
    BY DEF AfterPush, Stages, Searching, Waking, Outcomes
<1>5. \A i \in Invokes : Target[i] = n /\ invoke[i] \in Waking =>
          invoke'[i] \in (Stages \cup Outcomes) \ (Waking \cup {"sent"})
    BY <1>3, <1>4
<1>6. \A i \in Invokes : ~(Target[i] = n /\ invoke[i] \in Waking) => invoke'[i] = invoke[i]
    BY <1>3
<1>7. invoke' \in [Invokes -> Stages \cup Outcomes]
    BY <1>3, <1>5, <1>6 DEF NodeTyped
<1>8. NodeTyped' /\ PushForTarget'
    BY <1>1, <1>2, <1>7 DEF NodeTyped, PushForTarget
<1>9. WaitsForConnectedNode'
  <2>1. "sent" \notin Waking
      BY DEF Waking
  <2> QED BY <1>1, <1>5, <1>6, <2>1 DEF WaitsForConnectedNode, Connected, NodeTyped
<1>10. AwaitsPushInFlight'
  <2>1. \A i \in Invokes : invoke'[i] \in Waking => push'[Target[i]] # None
      BY <1>2, <1>5, <1>6 DEF AwaitsPushInFlight
  <2>2. \A m \in Nodes : push'[m] # None => m # n /\ push'[m] = push[m] /\ Target[push[m]] = m
      BY <1>2 DEF PushForTarget
  <2>3. \A m \in Nodes : push'[m] # None => invoke'[push'[m]] \in Waking
      BY <1>6, <2>2 DEF AwaitsPushInFlight, NodeTyped
  <2> QED BY <2>1, <2>3 DEF AwaitsPushInFlight
<1> QED BY <1>8, <1>9, <1>10

-----------------------------------------------------------------------------
(* Every step of the composition is one of these, or leaves NInv's part.     *)

Quiet == UNCHANGED <<command, nodesById, invoke, pendingInvokes, push>>

LEMMA QuietNInv ==
    ASSUME NInv, Quiet
    PROVE  NInv'
    BY DEF NInv, NodeTyped, PushForTarget, WaitsForConnectedNode, AwaitsPushInFlight, Connected,
           Quiet

LEMMA StepNInv ==
    ASSUME NInv, [Next]_vars
    PROVE  NInv'
<1>1. CASE \E c \in Conns : Connect(c) \/ Vanish(c) \/ Close(c) \/ Pull(c)
    BY <1>1, ConnectNInv, CloseNInv, QuietNInv DEF Vanish, Pull, Others, Quiet
<1>2. CASE \E c \in Conns, i \in Invokes : Ack(c, i)
    BY <1>2, QuietNInv DEF Ack, Others, Quiet
<1>3. CASE \E n \in Nodes : ThrottleEnds(n) \/ ActionExpires(n) \/ \E sent \in BOOLEAN : EndPush(n, sent)
    BY <1>3, EndPushNInv, QuietNInv DEF ThrottleEnds, ActionExpires, Others, Quiet
<1>4. CASE \E i \in Invokes :
        \/ WakeFirst(i) \/ WakeAgain(i) \/ Nudge(i) \/ GiveUp(i)
        \/ Refuse(i) \/ Send(i) \/ SendFails(i)
        \/ LateResult(i) \/ Timeout(i) \/ \E r \in {"ok", "error", "background"} : Result(i, r)
    BY <1>4, WakeFirstNInv, WakeAgainNInv, NudgeNInv, GiveUpNInv, RefuseNInv, SendNInv,
       SendFailsNInv, TimeoutNInv, ResultNInv, QuietNInv DEF LateResult, Quiet
<1>5. CASE UNCHANGED nvars
    BY <1>5, QuietNInv DEF nvars, Quiet
<1> QED BY <1>1, <1>2, <1>3, <1>4, <1>5 DEF Next, NodeStep, vars

\* What holds of nodes, connections and calls in every reachable state.
THEOREM NodeInvariant == Spec => []NInv
<1>1. Init => NInv
    BY NodeInitInv DEF Init
<1>2. NInv /\ [Next]_vars => NInv'
    BY StepNInv
<1> QED BY <1>1, <1>2, PTL DEF Spec

\* A call never waits for a node that is gone, for any order of connects,
\* closes, answers and timeouts.
THEOREM CallsWaitForConnectedNodes == Spec => []WaitsForConnectedNode
<1>1. NInv => WaitsForConnectedNode
    BY DEF NInv
<1> QED BY NodeInvariant, <1>1, PTL

\* Calls that share a push all go on when it ends.
THEOREM PushesAreAwaited == Spec => []AwaitsPushInFlight
<1>1. NInv => AwaitsPushInFlight
    BY DEF NInv
<1> QED BY NodeInvariant, <1>1, PTL

-----------------------------------------------------------------------------
(* The composition implements ExecApprovals.                                 *)

LEMMA PassRefines ==
    ASSUME NInv, NEW i \in Invokes, Pass(i)
    PROVE  [ANext]_avars
<1>1. CASE Approval(i) = None
    BY <1>1 DEF Pass
<1>2. CASE Approval(i) # None
  <2>1. Approval(i)[1] \in Ids /\ Approval(i)[2] \in Bindings
      BY <1>2, InvokeAssumption DEF Approval, NInv, NodeTyped
  <2> QED BY <1>2, <2>1 DEF Pass, ANext
<1> QED BY <1>1, <1>2

LEMMA StepRefines ==
    ASSUME NInv, [Next]_vars
    PROVE  [ANext]_avars
<1>1. CASE \E i \in Invokes : Send(i) \/ SendFails(i)
    BY <1>1, PassRefines DEF Send, SendFails
<1>2. CASE ApprovalStep
    BY <1>2 DEF ANext
<1>3. CASE UNCHANGED avars
    BY <1>3
<1>4. CASE NodeStep
  <2>1. ASSUME NEW i \in Invokes,
               \/ WakeFirst(i) \/ WakeAgain(i) \/ Nudge(i) \/ GiveUp(i) \/ Refuse(i)
               \/ LateResult(i) \/ Timeout(i)
               \/ \E r \in {"ok", "error", "background"} : Result(i, r)
        PROVE  UNCHANGED avars
      BY <2>1 DEF WakeFirst, WakeAgain, Nudge, GiveUp, Refuse, LateResult, Timeout, Result, Idle
  <2>2. ASSUME NEW c \in Conns,
               \/ Connect(c) \/ Vanish(c) \/ Close(c) \/ Pull(c)
               \/ \E i \in Invokes : Ack(c, i)
        PROVE  UNCHANGED avars
      BY <2>2 DEF Connect, Vanish, Close, Pull, Ack, Others
  <2>3. ASSUME NEW n \in Nodes,
               \/ ThrottleEnds(n) \/ ActionExpires(n)
               \/ \E sent \in BOOLEAN : EndPush(n, sent)
        PROVE  UNCHANGED avars
      BY <2>3 DEF ThrottleEnds, ActionExpires, EndPush, Others
  <2> QED BY <1>1, <1>3, <1>4, <2>1, <2>2, <2>3 DEF NodeStep
<1> QED BY <1>2, <1>3, <1>4 DEF Next, vars

\* What ExecApprovals promises holds when node.invoke uses it: its steps are
\* steps of the approvals, or leave them alone.
THEOREM ImplementsApprovals == Spec => ASpec
<1>1. Init => AInit
    BY DEF Init
<1>2. NInv /\ [Next]_vars => [ANext]_avars
    BY StepRefines
<1> QED BY NodeInvariant, <1>1, <1>2, PTL DEF Spec, ASpec

\* However many calls of node.invoke name an approval, whenever they get
\* through to the node, no more runs pass than its decision allows.
THEOREM InvokedRunsWithinDecision == Spec => []RunsWithinDecision
<1> QED BY ImplementsApprovals, RunsStayWithinDecision, PTL

-----------------------------------------------------------------------------
(* The queue of actions for a node in the background.                        *)

LEMMA Interval ==
    ASSUME NEW n \in Nat
    PROVE  IsFiniteSet(1..n) /\ Cardinality(1..n) = n
    BY FS_Interval

\* Picked takes the entries at its positions, each once: the m-th of them is
\* that of the position with m positions up to it.
LEMMA PickedPositions ==
    ASSUME NEW S, NEW q \in Seq(S), NEW I \in SUBSET DOMAIN q
    PROVE  /\ Cardinality(I) \in Nat /\ Cardinality(I) <= Len(q)
           /\ \E at \in [1..Cardinality(I) -> I] :
                /\ Picked(q, I) = [m \in 1..Cardinality(I) |-> q[at[m]]]
                /\ \A k \in I : \E m \in 1..Cardinality(I) : at[m] = k
                /\ \A l, m \in 1..Cardinality(I) : at[l] = at[m] => l = m
<1> DEFINE n == Cardinality(I)
           upto(k) == {l \in I : l <= k}
           rank(k) == Cardinality(upto(k))
           at == [m \in 1..n |-> CHOOSE k \in I : rank(k) = m]
           f == [k \in I |-> rank(k)]
<1>1. DOMAIN q = 1..Len(q) /\ Len(q) \in Nat /\ I \subseteq 1..Len(q)
    OBVIOUS
<1>2. IsFiniteSet(1..Len(q)) /\ Cardinality(1..Len(q)) = Len(q)
    BY <1>1, Interval
<1>3. IsFiniteSet(I) /\ n <= Len(q)
    BY <1>1, <1>2, FS_Subset
<1>4. n \in Nat
    BY <1>3, FS_CardinalityType
<1>5. \A k \in I : rank(k) \in 1..n
  <2> TAKE k \in I
  <2>1. k \in Int
      BY <1>1
  <2>2. upto(k) \in SUBSET I /\ k \in upto(k)
      BY <2>1
  <2>3. IsFiniteSet(upto(k)) /\ rank(k) <= n
      BY <1>3, <2>2, FS_Subset
  <2>4. rank(k) \in Nat /\ rank(k) # 0
      BY <2>2, <2>3, FS_CardinalityType, FS_EmptySet
  <2> HIDE DEF rank, n
  <2> QED BY <1>4, <2>3, <2>4
<1>6. \A k, l \in I : k < l => rank(k) # rank(l)
  <2> SUFFICES ASSUME NEW k \in I, NEW l \in I, k < l, rank(k) = rank(l)
               PROVE  FALSE
      OBVIOUS
  <2>1. k \in Int /\ l \in Int
      BY <1>1
  <2>2. upto(k) \in SUBSET upto(l) /\ l \in upto(l) /\ l \notin upto(k)
      BY <1>1, <2>1
  <2>3. IsFiniteSet(upto(l))
      BY <1>3, FS_Subset
  <2>4. upto(l) = upto(k)
      BY <2>2, <2>3, FS_Subset
  <2> QED BY <2>2, <2>4
<1>7. \A k, l \in I : rank(k) = rank(l) => k = l
  <2> SUFFICES ASSUME NEW k \in I, NEW l \in I, rank(k) = rank(l), k # l
               PROVE  FALSE
      OBVIOUS
  <2>1. k \in Int /\ l \in Int
      BY <1>1
  <2>2. k < l \/ l < k
      BY <2>1
  <2> HIDE DEF rank
  <2> QED BY <1>6, <2>2
<1> HIDE DEF rank
<1>8. f \in Injection(I, 1..n)
    BY <1>5, <1>7 DEF Injection, IsInjective
<1>9. IsFiniteSet(1..n) /\ Cardinality(1..n) = n
    BY <1>4, Interval
<1>10. f \in Surjection(I, 1..n)
    BY <1>8, <1>9, FS_Injection
<1>11. \A m \in 1..n : \E k \in I : rank(k) = m
    BY <1>10 DEF Surjection
<1>12. \A m \in 1..n : at[m] \in I /\ rank(at[m]) = m
    BY <1>11
<1>13. at \in [1..n -> I]
    BY <1>12
<1>14. \A k \in I : \E m \in 1..n : at[m] = k
  <2> TAKE k \in I
  <2>1. rank(k) \in 1..n
      BY <1>5
  <2>2. at[rank(k)] \in I /\ rank(at[rank(k)]) = rank(k)
      BY <1>12, <2>1
  <2>3. at[rank(k)] = k
      BY <1>7, <2>2
  <2> QED BY <2>1, <2>3
<1>15. \A l, m \in 1..n : at[l] = at[m] => l = m
    BY <1>12
<1>16. Picked(q, I) = [m \in 1..n |-> q[at[m]]]
    BY DEF Picked, rank
<1> QED BY <1>3, <1>4, <1>13, <1>14, <1>15, <1>16

\* A queue within its limit, with no call twice.
CallsOnce(q) == \A k, l \in DOMAIN q : q[k].call = q[l].call => k = l
QueueOK(q) == q \in Seq(PendingActions) /\ Len(q) <= MaxActions /\ CallsOnce(q)

LEMMA PickedQueue ==
    ASSUME NEW q, QueueOK(q), NEW I \in SUBSET LiveAt(q)
    PROVE  /\ QueueOK(Picked(q, I))
           /\ Len(Picked(q, I)) <= Len(q)
           /\ \A k \in I : q[k] \in ToSet(Picked(q, I))
           /\ \A e \in ToSet(Picked(q, I)) : \E k \in I : e = q[k]
<1> DEFINE p == Picked(q, I)
           n == Cardinality(I)
<1>1. q \in Seq(PendingActions) /\ I \subseteq DOMAIN q /\ Len(q) <= MaxActions /\ MaxActions \in Nat
    BY InvokeAssumption DEF QueueOK, LiveAt
<1>2. n \in Nat /\ n <= Len(q)
    BY <1>1, PickedPositions
<1>3. PICK at \in [1..n -> I] :
        /\ p = [m \in 1..n |-> q[at[m]]]
        /\ \A k \in I : \E m \in 1..n : at[m] = k
        /\ \A l, m \in 1..n : at[l] = at[m] => l = m
    BY <1>1, PickedPositions
<1> HIDE DEF p, n
<1>4. \A m \in 1..n : p[m] = q[at[m]] /\ at[m] \in I /\ p[m] \in PendingActions
    BY <1>1, <1>3
<1>5. p \in Seq(PendingActions) /\ Len(p) = n /\ DOMAIN p = 1..n
    BY <1>2, <1>3, <1>4
<1>6. CallsOnce(p)
    BY <1>1, <1>3, <1>4, <1>5 DEF QueueOK, CallsOnce
<1>7. QueueOK(p) /\ Len(p) <= Len(q)
    BY <1>1, <1>2, <1>5, <1>6 DEF QueueOK
<1>8. \A k \in I : q[k] \in ToSet(p)
    BY <1>3, <1>4, <1>5 DEF ToSet
<1>9. \A e \in ToSet(p) : \E k \in I : e = q[k]
    BY <1>4, <1>5 DEF ToSet
<1> QED BY <1>7, <1>8, <1>9 DEF p

LEMMA LiveQueue ==
    ASSUME NEW q, QueueOK(q)
    PROVE  /\ QueueOK(Live(q))
           /\ \A e \in ToSet(q) : ~e.expired => e \in ToSet(Live(q))
           /\ \A e \in ToSet(Live(q)) : e \in ToSet(q) /\ ~e.expired
<1>1. LiveAt(q) \in SUBSET LiveAt(q) /\ LiveAt(q) \subseteq DOMAIN q
    BY DEF LiveAt
<1>2. /\ QueueOK(Live(q)) /\ \A k \in LiveAt(q) : q[k] \in ToSet(Live(q))
      /\ \A e \in ToSet(Live(q)) : \E k \in LiveAt(q) : e = q[k]
    BY <1>1, PickedQueue DEF Live
<1> QED BY <1>1, <1>2 DEF LiveAt, ToSet

\* What may happen to the entries of the queue q when it becomes r.
Only(q, r) == \A f \in ToSet(r) : \E e \in ToSet(q) : e.call = f.call
Loses(q, r) ==
    Len(Live(q)) = MaxActions /\ ~(KeysOf(r) \subseteq KeysOf(Live(q)))
Keeps(q, r) ==
    \A e \in ToSet(q) : \/ \E f \in ToSet(r) : f.call = e.call
                        \/ e.expired \/ e.pulled \/ Loses(q, r)

LEMMA EnqueuedKeeps ==
    ASSUME NEW q, QueueOK(q), NEW i \in Invokes, \A e \in ToSet(q) : e.call # i
    PROVE  /\ QueueOK(Enqueued(q, i)) /\ Keeps(q, Enqueued(q, i))
           /\ \A f \in ToSet(Enqueued(q, i)) : f.call = i \/ f \in ToSet(q)
<1> DEFINE live == Live(q)
           new == [call |-> i, expired |-> FALSE, pulled |-> FALSE]
           all == Append(live, new)
           r == Enqueued(q, i)
<1>1. /\ QueueOK(live) /\ \A e \in ToSet(q) : ~e.expired => e \in ToSet(live)
      /\ \A e \in ToSet(live) : e.call # i /\ e \in ToSet(q)
    BY LiveQueue
<1>2. CASE \E e \in ToSet(live) : Key(e.call) = Key(i)
  <2>1. r = live
      BY <1>2 DEF Enqueued
  <2> QED BY <1>1, <2>1 DEF Keeps
<1>3. CASE ~\E e \in ToSet(live) : Key(e.call) = Key(i)
  <2>1. r = IF Len(all) > MaxActions THEN Tail(all) ELSE all
      BY <1>3 DEF Enqueued
  <2>2. /\ live \in Seq(PendingActions) /\ Len(live) \in Nat /\ Len(live) <= MaxActions
        /\ MaxActions \in Nat \ {0} /\ new \in PendingActions /\ DOMAIN live = 1..Len(live)
      BY <1>1, InvokeAssumption DEF QueueOK, PendingActions
  <2> HIDE DEF live, new
  <2>3. /\ all \in Seq(PendingActions) /\ Len(all) = Len(live) + 1 /\ all[Len(live) + 1] = new
        /\ \A k \in 1..Len(live) : all[k] = live[k]
      BY <2>2
  <2> HIDE DEF all
  <2>4. new.call = i /\ ~new.expired
      BY DEF new
  <2>5. \A k \in 1..Len(live) : live[k] \in ToSet(live)
      BY <2>2 DEF ToSet
  <2>6. \A k, l \in 1..Len(live) : live[k].call = live[l].call => k = l
      BY <1>1, <2>2 DEF QueueOK, CallsOnce
  <2>7. \A k, l \in 1..Len(all) : all[k].call = all[l].call => k = l
      BY <1>1, <2>2, <2>3, <2>4, <2>5, <2>6
  <2>8. CASE Len(all) > MaxActions
    <3>1. Len(live) = MaxActions
      <4>1. Len(live) + 1 > MaxActions
          BY <2>3, <2>8
      <4>2. Len(live) \in Nat /\ MaxActions \in Nat /\ Len(live) <= MaxActions
          BY <2>2
      <4> HIDE DEF r
      <4> QED BY <4>1, <4>2
    <3>2. /\ r \in Seq(PendingActions) /\ Len(r) = Len(live) /\ DOMAIN r = 1..Len(live)
          /\ \A k \in 1..Len(live) : r[k] = all[k + 1]
        BY <2>1, <2>2, <2>3, <2>8
    <3> HIDE DEF r
    <3>3. CallsOnce(r)
      <4> SUFFICES ASSUME NEW k \in 1..Len(live), NEW l \in 1..Len(live),
                          r[k].call = r[l].call
                   PROVE  k = l
          BY <3>2 DEF CallsOnce
      <4>1. k + 1 \in 1..Len(all) /\ l + 1 \in 1..Len(all)
          BY <2>2, <2>3
      <4>2. k + 1 = l + 1
          BY <2>7, <3>2, <4>1
      <4> QED BY <4>2
    <3>4. new \in ToSet(r)
      <4>1. Len(live) \in 1..Len(live) /\ r[Len(live)] = new
          BY <2>2, <2>3, <3>1, <3>2
      <4> QED BY <3>2, <4>1 DEF ToSet
    <3>5. Key(i) \in KeysOf(r) /\ Key(i) \notin KeysOf(live)
        BY <1>3, <2>4, <3>4 DEF KeysOf
    <3>6. Loses(q, r)
        BY <3>1, <3>5 DEF Loses, live
    <3>7. \A k \in 1..Len(live) : r[k] = new \/ r[k] \in ToSet(live)
        BY <2>2, <2>3, <2>5, <3>2
    <3>8. \A f \in ToSet(r) : f.call = i \/ f \in ToSet(q)
        BY <1>1, <2>4, <3>2, <3>7 DEF ToSet
    <3> QED BY <2>2, <3>2, <3>3, <3>6, <3>8 DEF QueueOK, Keeps, r
  <2>9. CASE ~(Len(all) > MaxActions)
    <3>1. r = all /\ Len(all) <= MaxActions
        BY <2>1, <2>2, <2>3, <2>9
    <3>2. CallsOnce(all)
        BY <2>7, <2>3 DEF CallsOnce
    <3>3. \A e \in ToSet(live) : e \in ToSet(all)
        BY <2>2, <2>3 DEF ToSet
    <3>4. \A f \in ToSet(all) : f = new \/ f \in ToSet(live)
        BY <2>2, <2>3, <2>5 DEF ToSet
    <3>5. \A f \in ToSet(all) : f.call = i \/ f \in ToSet(q)
        BY <1>1, <2>4, <3>4
    <3> QED BY <1>1, <2>3, <3>1, <3>2, <3>3, <3>5 DEF QueueOK, Keeps
  <2> QED BY <2>8, <2>9
<1> QED BY <1>2, <1>3

LEMMA PulledKeeps ==
    ASSUME NEW q, QueueOK(q)
    PROVE  QueueOK(Pulled(Live(q))) /\ Keeps(q, Pulled(Live(q))) /\ Only(q, Pulled(Live(q)))
<1> DEFINE live == Live(q)
           r == Pulled(live)
<1>1. /\ QueueOK(live) /\ \A e \in ToSet(q) : ~e.expired => e \in ToSet(live)
      /\ \A e \in ToSet(live) : e \in ToSet(q)
    BY LiveQueue
<1> HIDE DEF live
<1>2. /\ live \in Seq(PendingActions) /\ Len(live) \in Nat /\ DOMAIN live = 1..Len(live)
      /\ Len(live) <= MaxActions
    BY <1>1 DEF QueueOK
<1>3. \A k \in 1..Len(live) : /\ live[k] \in PendingActions
                              /\ r[k] = [live[k] EXCEPT !.pulled = TRUE]
    BY <1>2 DEF Pulled
<1>4. \A k \in 1..Len(live) : /\ r[k] \in PendingActions /\ r[k].call = live[k].call
                              /\ r[k].expired = live[k].expired
    BY <1>3 DEF PendingActions
<1>5. DOMAIN r = 1..Len(live)
    BY <1>2 DEF Pulled
<1>6. r \in Seq(PendingActions) /\ Len(r) = Len(live)
  <2>1. r = [k \in 1..Len(live) |-> r[k]]
      BY <1>2 DEF Pulled
  <2> HIDE DEF r
  <2> QED BY <1>2, <1>4, <2>1
<1> HIDE DEF r
<1>7. CallsOnce(r)
    BY <1>1, <1>2, <1>4, <1>5 DEF QueueOK, CallsOnce
<1>8. \A e \in ToSet(live) : \E f \in ToSet(r) : f.call = e.call
  <2> SUFFICES ASSUME NEW k \in 1..Len(live) PROVE \E f \in ToSet(r) : f.call = live[k].call
      BY <1>2 DEF ToSet
  <2> QED BY <1>4, <1>5 DEF ToSet
<1>9. Only(q, r)
  <2> SUFFICES ASSUME NEW k \in 1..Len(live) PROVE \E e \in ToSet(q) : e.call = r[k].call
      BY <1>5 DEF Only, ToSet
  <2>1. live[k] \in ToSet(live)
      BY <1>2 DEF ToSet
  <2> QED BY <1>1, <1>4, <2>1
<1> QED BY <1>1, <1>2, <1>6, <1>7, <1>8, <1>9 DEF QueueOK, Keeps, live, r

LEMMA WithoutKeeps ==
    ASSUME NEW q, QueueOK(q), NEW i \in Invokes, \E e \in ToSet(q) : e.call = i /\ e.pulled
    PROVE  QueueOK(Without(q, i)) /\ Keeps(q, Without(q, i)) /\ Only(q, Without(q, i))
<1> DEFINE I == {k \in LiveAt(q) : q[k].call # i}
<1>1. /\ QueueOK(Picked(q, I)) /\ \A k \in I : q[k] \in ToSet(Picked(q, I))
      /\ \A e \in ToSet(Picked(q, I)) : \E k \in I : e = q[k]
    BY PickedQueue
<1>2. \A e \in ToSet(q) : e.call = i => e.pulled
    BY DEF QueueOK, CallsOnce, ToSet
<1>3. \A e \in ToSet(q) : e.call # i /\ ~e.expired => e \in ToSet(Picked(q, I))
    BY <1>1 DEF LiveAt, ToSet
<1>4. Only(q, Picked(q, I))
    BY <1>1 DEF Only, LiveAt, ToSet
<1> QED BY <1>1, <1>2, <1>3, <1>4 DEF Without, Keeps

LEMMA ExpiryKeeps ==
    ASSUME NEW q, QueueOK(q), NEW k \in DOMAIN q
    PROVE  /\ QueueOK([q EXCEPT ![k].expired = TRUE])
           /\ Keeps(q, [q EXCEPT ![k].expired = TRUE])
           /\ Only(q, [q EXCEPT ![k].expired = TRUE])
<1> DEFINE r == [q EXCEPT ![k].expired = TRUE]
<1>1. q \in Seq(PendingActions) /\ DOMAIN q = 1..Len(q) /\ Len(q) \in Nat /\ Len(q) <= MaxActions
    BY DEF QueueOK
<1>2. \A l \in DOMAIN q : q[l] \in PendingActions
    BY <1>1
<1>3. r = [q EXCEPT ![k] = [q[k] EXCEPT !.expired = TRUE]]
    OBVIOUS
<1>4. [q[k] EXCEPT !.expired = TRUE] \in PendingActions
    BY <1>2 DEF PendingActions
<1>5. r \in Seq(PendingActions) /\ Len(r) = Len(q) /\ DOMAIN r = DOMAIN q
    BY <1>1, <1>3, <1>4
<1>6. \A l \in DOMAIN q : r[l].call = q[l].call
    BY <1>1, <1>2 DEF PendingActions
<1> HIDE DEF r
<1>8. CallsOnce(r)
    BY <1>5, <1>6 DEF QueueOK, CallsOnce
<1>9. \A e \in ToSet(q) : \E f \in ToSet(r) : f.call = e.call
    BY <1>5, <1>6 DEF ToSet
<1>10. Only(q, r)
    BY <1>5, <1>6 DEF Only, ToSet
<1> QED BY <1>1, <1>5, <1>8, <1>9, <1>10 DEF QueueOK, Keeps, r

\* In every reachable state a queue is within its limit, and the calls in it
\* wait for the phone, or for the push that tells it.
ForForeground == {"queued", "deferred"}
ActionsOK ==
    /\ actions \in [Nodes -> Seq(PendingActions)]
    /\ \A n \in Nodes : /\ QueueOK(actions[n])
                         /\ \A e \in ToSet(actions[n]) : invoke[e.call] \in ForForeground

\* The queue of n becomes r, of the calls that were in it and perhaps i.
LEMMA QueueStep ==
    ASSUME ActionsOK, NEW n \in Nodes, NEW r, QueueOK(r), Keeps(actions[n], r),
           actions' = [actions EXCEPT ![n] = r], command' = command,
           \A m \in Nodes : \A e \in ToSet(actions[m]) : invoke'[e.call] \in ForForeground,
           \A e \in ToSet(r) : invoke'[e.call] \in ForForeground
    PROVE  ActionsOK' /\ \A m \in Nodes : Keeps(actions[m], actions'[m])
<1>1. r \in Seq(PendingActions)
    BY DEF QueueOK
<1>2. /\ actions' \in [Nodes -> Seq(PendingActions)] /\ actions'[n] = r
      /\ \A m \in Nodes : m # n => actions'[m] = actions[m]
    BY <1>1 DEF ActionsOK
<1>3. \A m \in Nodes : (QueueOK(actions[m]))'
    BY <1>2 DEF ActionsOK, QueueOK, CallsOnce
<1>4. \A m \in Nodes : \A e \in ToSet(actions'[m]) : invoke'[e.call] \in ForForeground
    BY <1>2
<1>5. ActionsOK'
    BY <1>2, <1>3, <1>4 DEF ActionsOK
<1>6. \A m \in Nodes : Keeps(actions[m], actions[m])
    BY DEF Keeps
<1> QED BY <1>2, <1>5, <1>6

LEMMA CallTyped ==
    ASSUME ActionsOK, NEW n \in Nodes, NEW e \in ToSet(actions[n])
    PROVE  e.call \in Invokes /\ invoke[e.call] \in ForForeground
<1>1. actions[n] \in Seq(PendingActions)
    BY DEF ActionsOK
<1>2. e \in PendingActions
    BY <1>1 DEF ToSet
<1> QED BY <1>2 DEF ActionsOK, PendingActions

\* A call that waits for the foreground is left alone, but for its push.
LEMMA ForegroundStays ==
    ASSUME NInv, [Next]_vars, NEW j \in Invokes, invoke[j] \in ForForeground
    PROVE  invoke'[j] \in ForForeground
<1> USE DEF ForForeground
<1>1. /\ j \notin pendingInvokes /\ invoke[j] # "sent" /\ invoke[j] \notin Searching
      /\ invoke[j] # "nudge" /\ invoke \in [Invokes -> Stages \cup Outcomes]
    BY DEF NInv, NodeTyped, WaitsForConnectedNode, Searching
<1>2. CASE invoke' = invoke
    BY <1>2
<1>3. CASE \E c \in Conns : Close(c)
    BY <1>1, <1>3 DEF Close
<1>4. CASE \E i \in Invokes : \/ WakeFirst(i) \/ WakeAgain(i) \/ Nudge(i) \/ GiveUp(i)
                              \/ Refuse(i) \/ Send(i) \/ SendFails(i)
  <2> PICK i \in Invokes : \/ WakeFirst(i) \/ WakeAgain(i) \/ Nudge(i) \/ GiveUp(i)
                           \/ Refuse(i) \/ Send(i) \/ SendFails(i)
      BY <1>4
  <2>1. invoke[i] \in Searching \cup {"nudge"}
      BY DEF WakeFirst, WakeAgain, Nudge, GiveUp, Refuse, Send, SendFails, Ready, Searching
  <2>2. CASE WakeFirst(i)
      BY <1>1, <2>1, <2>2 DEF WakeFirst, Wake
  <2>3. CASE WakeAgain(i)
      BY <1>1, <2>1, <2>3 DEF WakeAgain, Wake
  <2>4. CASE Nudge(i) \/ GiveUp(i) \/ Refuse(i)
      BY <1>1, <2>1, <2>4 DEF Nudge, GiveUp, Refuse
  <2>5. CASE Send(i) \/ SendFails(i)
      BY <1>1, <2>1, <2>5 DEF Send, SendFails
  <2> QED BY <2>2, <2>3, <2>4, <2>5
<1>5. CASE \E i \in Invokes : Timeout(i) \/ \E r \in {"ok", "error", "background"} : Result(i, r)
  <2> PICK i \in Invokes : Timeout(i) \/ \E r \in {"ok", "error", "background"} : Result(i, r)
      BY <1>5
  <2>1. i \in pendingInvokes
      BY DEF Timeout, Result
  <2>2. CASE Timeout(i)
      BY <1>1, <2>1, <2>2 DEF Timeout
  <2>3. CASE \E r \in {"ok", "error", "background"} : Result(i, r)
      BY <1>1, <2>1, <2>3 DEF Result, Wake
  <2> QED BY <2>2, <2>3
<1>6. CASE \E n \in Nodes, sent \in BOOLEAN : EndPush(n, sent)
    BY <1>6 DEF EndPush, AfterPush, Waking
<1> QED BY <1>2, <1>3, <1>4, <1>5, <1>6 DEF Next, NodeStep, vars, nvars, Vanish, Connect, Pull, Ack,
       Others, ThrottleEnds, ActionExpires, LateResult

LEMMA ResultActions ==
    ASSUME NInv, ActionsOK, NEW i \in Invokes, Result(i, "background"), [Next]_vars
    PROVE  ActionsOK' /\ \A m \in Nodes : Keeps(actions[m], actions'[m])
<1> DEFINE n == Target[i]
           q == actions[n]
<1>1. /\ n \in Nodes /\ invoke[i] = "sent" /\ command' = command
      /\ actions' = [actions EXCEPT ![n] = Enqueued(q, i)]
      /\ Wake(i, FALSE, "queued", "deferred")
    BY InvokeAssumption DEF Result, NInv, WaitsForConnectedNode
<1>2. QueueOK(q) /\ \A e \in ToSet(q) : e.call # i
    BY <1>1, CallTyped DEF ActionsOK, ForForeground
<1>3. /\ QueueOK(Enqueued(q, i)) /\ Keeps(q, Enqueued(q, i))
      /\ \A f \in ToSet(Enqueued(q, i)) : f.call = i \/ f \in ToSet(q)
    BY <1>2, EnqueuedKeeps
<1>4. invoke'[i] \in ForForeground
    BY <1>1 DEF Wake, NInv, NodeTyped, ForForeground
<1>5. \A m \in Nodes : \A e \in ToSet(actions[m]) : invoke'[e.call] \in ForForeground
    BY CallTyped, ForegroundStays
<1>6. \A e \in ToSet(Enqueued(q, i)) : invoke'[e.call] \in ForForeground
    BY <1>1, <1>3, <1>4, <1>5
<1> QED BY <1>1, <1>3, <1>5, <1>6, QueueStep

\* Pulling, acknowledging and expiring leave the calls as they are.
LEMMA OtherActions ==
    ASSUME NInv, ActionsOK, NEW n \in Nodes, NEW r, QueueOK(r), Keeps(actions[n], r),
           Only(actions[n], r), actions' = [actions EXCEPT ![n] = r], Others
    PROVE  ActionsOK' /\ \A m \in Nodes : Keeps(actions[m], actions'[m])
<1>1. command' = command /\ invoke' = invoke
    BY DEF Others
<1>2. \A m \in Nodes : \A e \in ToSet(actions[m]) : invoke'[e.call] \in ForForeground
    BY <1>1, CallTyped
<1>3. \A e \in ToSet(r) : invoke'[e.call] \in ForForeground
    BY <1>2 DEF Only
<1> QED BY <1>1, <1>2, <1>3, QueueStep

LEMMA ActionStep ==
    ASSUME NInv, ActionsOK, [Next]_vars
    PROVE  ActionsOK' /\ \A m \in Nodes : Keeps(actions[m], actions'[m])
<1>1. CASE actions' = actions
  <2>1. \A m \in Nodes : \A e \in ToSet(actions'[m]) : invoke'[e.call] \in ForForeground
      BY <1>1, CallTyped, ForegroundStays
  <2>2. ActionsOK'
      BY <1>1, <2>1 DEF ActionsOK, QueueOK, CallsOnce
  <2> QED BY <1>1, <2>2 DEF Keeps
<1>2. CASE \E c \in Conns : Pull(c)
  <2> PICK c \in Conns : Pull(c)
      BY <1>2
  <2>1. /\ NodeOf[c] \in Nodes /\ Others
        /\ actions' = [actions EXCEPT ![NodeOf[c]] = Pulled(Live(actions[NodeOf[c]]))]
      BY InvokeAssumption DEF Pull
  <2> QED BY <2>1, PulledKeeps, OtherActions DEF ActionsOK
<1>3. CASE \E c \in Conns, i \in Invokes : Ack(c, i)
  <2> PICK c \in Conns, i \in Invokes : Ack(c, i)
      BY <1>3
  <2>1. /\ NodeOf[c] \in Nodes /\ Others
        /\ \E e \in ToSet(actions[NodeOf[c]]) : e.call = i /\ e.pulled
        /\ actions' = [actions EXCEPT ![NodeOf[c]] = Without(actions[NodeOf[c]], i)]
      BY InvokeAssumption DEF Ack
  <2> QED BY <2>1, WithoutKeeps, OtherActions DEF ActionsOK
<1>4. CASE \E n \in Nodes : ActionExpires(n)
  <2> PICK n \in Nodes : ActionExpires(n)
      BY <1>4
  <2>1. PICK k \in DOMAIN actions[n] : actions' = [actions EXCEPT ![n][k].expired = TRUE]
      BY DEF ActionExpires
  <2>2. actions' = [actions EXCEPT ![n] = [actions[n] EXCEPT ![k].expired = TRUE]] /\ Others
      BY <2>1 DEF ActionExpires
  <2> QED BY <2>1, <2>2, ExpiryKeeps, OtherActions DEF ActionsOK
<1>5. CASE \E i \in Invokes : Result(i, "background")
    BY <1>5, ResultActions
<1> QED BY <1>1, <1>2, <1>3, <1>4, <1>5 DEF Next, NodeStep, vars, nvars, Connect, Vanish, Close,
       ThrottleEnds, EndPush, WakeFirst, WakeAgain, Nudge, GiveUp, Refuse, Send, SendFails, Idle,
       LateResult, Timeout, Result

LEMMA ActionsInit == Init => ActionsOK
<1> SUFFICES ASSUME Init PROVE ActionsOK
    OBVIOUS
<1>1. actions = [n \in Nodes |-> <<>>] /\ <<>> \in Seq(PendingActions)
    BY DEF Init, NodeInit
<1>2. DOMAIN <<>> = {} /\ Len(<<>>) = 0
    OBVIOUS
<1>3. QueueOK(<<>>) /\ ToSet(<<>>) = {}
    BY <1>1, <1>2, InvokeAssumption DEF QueueOK, CallsOnce, ToSet
<1> QED BY <1>1, <1>3 DEF ActionsOK

\* An action accepted for a phone in the background is not lost to a retry, to
\* the acknowledgement of another or to any order of connects, pulls and
\* answers: it leaves the queue pulled, expired, or displaced by another key.
THEOREM ActionsStay == Spec => ActionsAreKept
<1>1. Init => NInv /\ ActionsOK
    BY NodeInitInv, ActionsInit DEF Init
<1>2. NInv /\ ActionsOK /\ [Next]_vars => (NInv /\ ActionsOK)'
    BY StepNInv, ActionStep
<1>3. NInv /\ ActionsOK /\ [Next]_vars =>
          [\A n \in Nodes : \A e \in ToSet(actions[n]) :
              \/ \E f \in ToSet(actions'[n]) : f.call = e.call
              \/ e.expired \/ e.pulled \/ Displaced(n)]_vars
    BY ActionStep DEF Keeps, Loses, Displaced
<1> QED BY <1>1, <1>2, <1>3, PTL DEF Spec, ActionsAreKept
===============================================================================
