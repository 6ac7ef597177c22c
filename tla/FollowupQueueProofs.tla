------------------------- MODULE FollowupQueueProofs -------------------------
(* Theorems about the followup queue, for any messages and targets, any      *)
(* settings, and any number of queue objects, deliveries and failures: what  *)
(* a turn shows the agent, what it takes off the queue, and what the queue   *)
(* lost between the two.                                                     *)
EXTENDS FollowupQueue, FiniteSetTheorems, SequenceTheorems, TLAPS

-----------------------------------------------------------------------------
(* Sequences of messages.                                                    *)

LEMMA Numbers ==
    /\ MaxQueues \in Nat \ {0} /\ MaxDeliveries \in Nat /\ MaxFailures \in Nat
    /\ 0 \notin Slots /\ Slots \subseteq Nat
    BY FollowupAssumption DEF Slots

LEMMA Ranges ==
    ASSUME NEW S, NEW s \in Seq(S)
    PROVE  /\ Range1(s) \subseteq S
           /\ Len(s) \in Nat
           /\ s # <<>> => Len(s) > 0 /\ Head(s) = s[1] /\ s[1] \in Range1(s)
<1>1. Len(s) \in Nat /\ \A i \in 1..Len(s) : s[i] \in S
    OBVIOUS
<1>2. s # <<>> => Len(s) > 0 /\ Head(s) = s[1]
    OBVIOUS
<1> QED BY <1>1, <1>2 DEF Range1

LEMMA Empty ==
    ASSUME NEW S
    PROVE  <<>> \in Seq(S) /\ Len(<<>>) = 0 /\ Range1(<<>>) = {}
    BY DEF Range1

LEMMA RemoveFacts ==
    ASSUME NEW S, NEW s \in Seq(S), NEW n \in Nat
    PROVE  /\ Remove(s, n) \in Seq(S)
           /\ Len(Remove(s, n)) = IF n <= Len(s) THEN Len(s) - n ELSE 0
           /\ \A i \in 1..Len(Remove(s, n)) : i + n \in 1..Len(s) /\ Remove(s, n)[i] = s[i + n]
           /\ \A i \in 1..Len(s) : i > n => s[i] \in Range1(Remove(s, n))
           /\ Range1(Remove(s, n)) \subseteq Range1(s)
<1> DEFINE t == SubSeq(s, n + 1, Len(s))
<1>1. CASE n < Len(s)
    <2>1. n + 1 \in 1..Len(s) + 1 /\ Len(s) \in 0..Len(s) /\ Len(s) \in Nat
        BY <1>1
    <2>2. t \in Seq(S) /\ Len(t) = Len(s) - n /\ \A i \in 1..(Len(s) - n) : t[i] = s[i + n]
        BY <1>1, <2>1, SubSeqProperties
    <2>3. \A i \in 1..Len(t) : i + n \in 1..Len(s) /\ t[i] = s[i + n]
        BY <1>1, <2>1, <2>2
    <2>4. ASSUME NEW i \in 1..Len(s), i > n
          PROVE  s[i] \in Range1(t)
        <3>1. i - n \in 1..Len(t) /\ t[i - n] = s[i]
            BY <1>1, <2>1, <2>2, <2>4
        <3> QED BY <3>1 DEF Range1
    <2>5. Range1(t) \subseteq Range1(s)
        BY <2>3 DEF Range1
    <2> QED BY <1>1, <2>2, <2>3, <2>4, <2>5 DEF Remove
<1>2. CASE n >= Len(s)
    <2>1. n + 1 \in Int /\ Len(s) \in Int /\ Len(s) < n + 1
        BY <1>2
    <2>2. t = <<>>
        BY <2>1, SubSeqEmpty
    <2> QED BY <1>2, <2>2, Empty DEF Remove, Range1
<1> QED BY <1>1, <1>2

LEMMA PrefixFacts ==
    ASSUME NEW S, NEW s \in Seq(S), NEW n \in 0..Len(s)
    PROVE  /\ SubSeq(s, 1, n) \in Seq(S)
           /\ Len(SubSeq(s, 1, n)) = n
           /\ \A i \in 1..n : SubSeq(s, 1, n)[i] = s[i]
           /\ Range1(SubSeq(s, 1, n)) \subseteq Range1(s)
           /\ Range1(s) = Range1(SubSeq(s, 1, n)) \cup Range1(Remove(s, n))
<1> DEFINE t == SubSeq(s, 1, n)
<1>1. t \in Seq(S) /\ Len(t) = n /\ \A i \in 1..n : t[i] = s[i]
    BY SubSeqProperties
<1>2. \A i \in 1..n : i \in 1..Len(s)
    OBVIOUS
<1>3. Range1(t) \subseteq Range1(s)
    BY <1>1, <1>2 DEF Range1
<1>4. ASSUME NEW i \in 1..Len(s)
      PROVE  s[i] \in Range1(t) \cup Range1(Remove(s, n))
    <2>1. CASE i <= n
        <3>1. i \in 1..Len(t) /\ t[i] = s[i]
            BY <1>1, <2>1
        <3> QED BY <3>1 DEF Range1
    <2>2. CASE i > n
        BY <2>2, RemoveFacts
    <2> QED BY <2>1, <2>2
<1>5. Range1(Remove(s, n)) \subseteq Range1(s)
    BY RemoveFacts
<1> QED BY <1>1, <1>3, <1>4, <1>5 DEF Range1

LEMMA AppendFacts ==
    ASSUME NEW S, NEW s \in Seq(S), NEW m \in S
    PROVE  /\ Append(s, m) \in Seq(S)
           /\ Len(Append(s, m)) = Len(s) + 1
           /\ \A i \in 1..Len(s) : Append(s, m)[i] = s[i]
           /\ Append(s, m)[Len(s) + 1] = m
           /\ Range1(Append(s, m)) = Range1(s) \cup {m}
<1>1. /\ Append(s, m) \in Seq(S) /\ Len(Append(s, m)) = Len(s) + 1 /\ Len(s) \in Nat
      /\ \A i \in 1..Len(s) : Append(s, m)[i] = s[i]
      /\ Append(s, m)[Len(s) + 1] = m
    OBVIOUS
<1>2. Range1(Append(s, m)) = Range1(s) \cup {m}
    BY <1>1 DEF Range1
<1> QED BY <1>1, <1>2

LEMMA JoinFacts ==
    ASSUME NEW S, NEW s \in Seq(S), NEW t \in Seq(S)
    PROVE  /\ s \o t \in Seq(S)
           /\ Len(s \o t) = Len(s) + Len(t)
           /\ Range1(s \o t) = Range1(s) \cup Range1(t)
<1>1. /\ s \o t \in Seq(S) /\ Len(s \o t) = Len(s) + Len(t) /\ Len(s) \in Nat /\ Len(t) \in Nat
      /\ \A i \in 1..Len(s) : (s \o t)[i] = s[i]
      /\ \A i \in 1..Len(t) : (s \o t)[Len(s) + i] = t[i]
    OBVIOUS
<1>2. ASSUME NEW i \in 1..Len(s \o t)
      PROVE  (s \o t)[i] \in Range1(s) \cup Range1(t)
    <2>1. CASE i <= Len(s)
        BY <1>1, <2>1 DEF Range1
    <2>2. CASE i > Len(s)
        <3>1. i - Len(s) \in 1..Len(t) /\ (s \o t)[i] = t[i - Len(s)]
            BY <1>1, <2>2
        <3> QED BY <3>1 DEF Range1
    <2> QED BY <2>1, <2>2
<1>3. Range1(s) \subseteq Range1(s \o t)
    BY <1>1 DEF Range1
<1>4. ASSUME NEW i \in 1..Len(t)
      PROVE  t[i] \in Range1(s \o t)
    <2>1. Len(s) + i \in 1..Len(s \o t)
        BY <1>1
    <2> QED BY <1>1, <2>1 DEF Range1
<1> QED BY <1>1, <1>2, <1>3, <1>4 DEF Range1

-----------------------------------------------------------------------------
(* What a drain does to a queue object: it moves the phase, and gives the    *)
(* object the batch, the preview and the number to take of its next turn,    *)
(* or takes them back; the items and the summary state stay as they are.     *)

SameContent(p, q) ==
    /\ q.settings = p.settings /\ q.items = p.items /\ q.dropped = p.dropped
    /\ q.summaryLines = p.summaryLines /\ q.lastRun = p.lastRun

NoTurn(q) == q.batch = <<>> /\ q.preview = <<>> /\ q.take = 0

Kept(p, q) ==
    /\ SameContent(p, q) /\ q.batch = p.batch /\ q.preview = p.preview /\ q.take = p.take
    /\ q.phase = p.phase \/ (p.phase = "idle" /\ q.phase = "debounce")
    /\ q.phase = "idle" => (q.forced <=> p.forced)
Rested(p, q) ==
    /\ SameContent(p, q) /\ NoTurn(q)
    /\ q.phase = "debounce" \/ (q.phase = "idle" /\ ~q.forced)
Checked(p, q) ==
    SameContent(p, q) /\ NoTurn(q) /\ q.phase = "checked" /\ ~CrossChannel(p.items)
TurnsOne(p, q) ==
    /\ SameContent(p, q) /\ q.phase = "turn" /\ p.items # <<>>
    /\ q.batch = <<Head(p.items)>> /\ q.preview = <<>> /\ q.take = 1
TurnsAll(p, q) ==
    /\ SameContent(p, q) /\ q.phase = "turn" /\ p.phase = "checked"
    /\ q.batch = p.items /\ q.preview = Preview(p) /\ q.take = Len(p.items)
TurnsSummary(p, q) ==
    /\ SameContent(p, q) /\ q.phase = "turn" /\ p.settings.mode # "collect"
    /\ q.batch = <<>> /\ Preview(p) # <<>> /\ q.preview = Preview(p) /\ q.take = 1

Moved(p, q) ==
    \/ Kept(p, q) \/ Rested(p, q) \/ Checked(p, q)
    \/ TurnsOne(p, q) \/ TurnsAll(p, q) \/ TurnsSummary(p, q)

\* The part of TypeOK about one object.
DrainOK(q) ==
    /\ q.settings \in case.settings
    /\ q.phase = "turn" \/ NoTurn(q)
    /\ q.phase = "idle" => ~q.forced

Triples == [reg : 0..MaxQueues, objs : [Slots -> Queues], cb : BOOLEAN]

\* From r to t the drain of o has moved, and another one may have started.
Moves(r, t, o) ==
    /\ t \in Triples /\ t.reg \in {0, r.reg}
    /\ Moved(r.objs[o], t.objs[o])
    /\ \A p \in Slots : p # o => Kept(r.objs[p], t.objs[p])

LEMMA QueueFields ==
    ASSUME NEW q \in Queues
    PROVE  /\ q.settings \in Settings /\ q.items \in Seq(Messages) /\ q.dropped \in Nat
           /\ q.summaryLines \in Seq(Messages) /\ q.phase \in Phases /\ q.take \in Nat
           /\ q.batch \in Seq(Messages) /\ q.preview \in Seq(Messages)
           /\ q.lastRun \in BOOLEAN /\ q.forced \in BOOLEAN
           /\ Len(q.items) \in Nat
    BY DEF Queues

LEMMA IdleRests ==
    ASSUME NEW q \in Queues
    PROVE  Idle(q) \in Queues /\ Rested(q, Idle(q)) /\ Idle(q).phase = "idle"
<1>1. <<>> \in Seq(Messages)
    BY Empty
<1> QED BY <1>1 DEF Queues, Idle, Rested, SameContent, NoTurn, Phases

LEMMA DebounceKeeps ==
    ASSUME NEW q \in Queues, q.phase = "idle"
    PROVE  /\ [q EXCEPT !.phase = "debounce"] \in Queues
           /\ Kept(q, [q EXCEPT !.phase = "debounce"])
    BY DEF Queues, Kept, SameContent, Phases

LEMMA ScheduleMoves ==
    ASSUME NEW r \in Triples
    PROVE  /\ Schedule(r) \in Triples /\ Schedule(r).reg \in {0, r.reg}
           /\ \A p \in Slots : Kept(r.objs[p], Schedule(r).objs[p])
<1>1. \A p \in Slots : Kept(r.objs[p], r.objs[p])
    BY DEF Kept, SameContent
<1>2. /\ r.reg \in 0..MaxQueues /\ r.objs \in [Slots -> Queues] /\ r.cb \in BOOLEAN
      /\ 0 \in 0..MaxQueues
    BY Numbers DEF Triples
<1>3. CASE r.reg = 0 \/ r.objs[r.reg].phase # "idle"
    BY <1>1, <1>3 DEF Schedule
<1>4. CASE r.reg # 0 /\ r.objs[r.reg].phase = "idle" /\ Pending(r.objs[r.reg])
    <2> DEFINE q == [r.objs[r.reg] EXCEPT !.phase = "debounce"]
               t == [r EXCEPT !.objs[r.reg].phase = "debounce", !.cb = TRUE]
    <2>1. r.reg \in Slots /\ r.objs[r.reg] \in Queues
        BY <1>2, <1>4, Numbers DEF Slots
    <2>2. q \in Queues /\ Kept(r.objs[r.reg], q)
        BY <1>4, <2>1, DebounceKeeps
    <2>3. t.objs = [r.objs EXCEPT ![r.reg] = q] /\ t.reg = r.reg /\ t.cb = TRUE
        BY <1>2 DEF Triples
    <2>4. t \in Triples
        BY <1>2, <2>2, <2>3 DEF Triples
    <2>5. \A p \in Slots : Kept(r.objs[p], t.objs[p])
        <3> HIDE DEF q, t
        <3> QED BY <1>1, <1>2, <2>1, <2>2, <2>3
    <2>6. Schedule(r) = t
        BY <1>4 DEF Schedule
    <2> QED BY <2>3, <2>4, <2>5, <2>6
<1>5. CASE r.reg # 0 /\ r.objs[r.reg].phase = "idle" /\ ~Pending(r.objs[r.reg])
    <2> DEFINE t == [r EXCEPT !.reg = 0, !.cb = TRUE]
    <2>1. t \in Triples /\ t.reg = 0 /\ t.objs = r.objs
        BY <1>2 DEF Triples
    <2>2. Schedule(r) = t
        BY <1>5 DEF Schedule
    <2> QED BY <1>1, <2>1, <2>2
<1> QED BY <1>3, <1>4, <1>5

\* One object of a triple replaced.
LEMMA Replaced ==
    ASSUME NEW r \in Triples, NEW o \in Slots, NEW q \in Queues
    PROVE  LET t == [r EXCEPT !.objs[o] = q]
           IN  /\ t \in Triples /\ t.reg = r.reg /\ t.objs[o] = q /\ t.cb = r.cb
               /\ t.objs = [r.objs EXCEPT ![o] = q]
               /\ \A p \in Slots : p # o => t.objs[p] = r.objs[p]
    BY DEF Triples

LEMMA LoopEndMoves ==
    ASSUME NEW r \in Triples, NEW o \in Slots
    PROVE  /\ Moves(r, LoopEnd(r, o), o)
           /\ Rested(r.objs[o], LoopEnd(r, o).objs[o])
<1> DEFINE s == [r EXCEPT !.objs[o] = Idle(r.objs[o])]
<1>1. r.objs[o] \in Queues
    BY DEF Triples
<1>2. /\ Idle(r.objs[o]) \in Queues /\ Rested(r.objs[o], Idle(r.objs[o]))
      /\ Idle(r.objs[o]).phase = "idle"
    BY <1>1, IdleRests
<1>3. /\ s \in Triples /\ s.reg = r.reg /\ s.objs[o] = Idle(r.objs[o])
      /\ \A p \in Slots : p # o => s.objs[p] = r.objs[p]
    BY <1>2, Replaced
<1>4. LoopEnd(r, o) = IF Pending(s.objs[o]) THEN Schedule(s) ELSE [s EXCEPT !.reg = 0]
    BY DEF LoopEnd
<1> HIDE DEF s
<1>5. \A p \in Slots : Kept(r.objs[p], r.objs[p])
    BY DEF Kept, SameContent
<1>6. CASE Pending(s.objs[o])
    <2>1. /\ Schedule(s) \in Triples /\ Schedule(s).reg \in {0, s.reg}
          /\ \A p \in Slots : Kept(s.objs[p], Schedule(s).objs[p])
        BY <1>3, ScheduleMoves
    <2>2. Rested(r.objs[o], Schedule(s).objs[o])
        <3>1. Kept(Idle(r.objs[o]), Schedule(s).objs[o])
            BY <1>3, <2>1
        <3> QED BY <1>2, <3>1 DEF Rested, Kept, SameContent, NoTurn
    <2> QED BY <1>3, <1>4, <1>6, <2>1, <2>2 DEF Moves, Moved
<1>7. CASE ~Pending(s.objs[o])
    <2> DEFINE t == [s EXCEPT !.reg = 0]
    <2>1. t \in Triples /\ t.reg = 0 /\ t.objs = s.objs
        BY <1>3, Numbers DEF Triples
    <2>2. LoopEnd(r, o) = t
        BY <1>4, <1>7
    <2> HIDE DEF t
    <2> QED BY <1>2, <1>3, <1>5, <2>1, <2>2 DEF Moves, Moved
<1> QED BY <1>6, <1>7

LEMMA LoopTopMoves ==
    ASSUME NEW r \in Triples, NEW o \in Slots
    PROVE  /\ Moves(r, LoopTop(r, o), o)
           /\ Rested(r.objs[o], LoopTop(r, o).objs[o])
<1>1. CASE ~Pending(r.objs[o])
    BY <1>1, LoopEndMoves DEF LoopTop
<1>2. CASE Pending(r.objs[o])
    <2> DEFINE q == [r.objs[o] EXCEPT !.phase = "debounce", !.batch = <<>>,
                                      !.preview = <<>>, !.take = 0]
               t == [r EXCEPT !.objs[o] = q]
    <2>1. r.objs[o] \in Queues /\ <<>> \in Seq(Messages)
        BY Empty DEF Triples
    <2>2. q \in Queues /\ Rested(r.objs[o], q)
        BY <2>1 DEF Queues, Phases, Rested, SameContent, NoTurn
    <2>3. t = [r EXCEPT !.objs[o] = q]
        OBVIOUS
    <2>4. LoopTop(r, o) = t
        BY <1>2 DEF LoopTop
    <2> HIDE DEF q, t
    <2>5. /\ t \in Triples /\ t.reg = r.reg /\ t.objs[o] = q
          /\ \A p \in Slots : p # o => t.objs[p] = r.objs[p]
        BY <2>2, <2>3, Replaced
    <2>6. \A p \in Slots : Kept(r.objs[p], r.objs[p])
        BY DEF Kept, SameContent
    <2> QED BY <2>2, <2>4, <2>5, <2>6 DEF Moves, Moved
<1> QED BY <1>1, <1>2

\* From r to t a turn of o has begun.
Begun(r, t, o, b, v, n) ==
    /\ t \in Triples /\ t.reg = r.reg
    /\ SameContent(r.objs[o], t.objs[o]) /\ t.objs[o].phase = "turn"
    /\ t.objs[o].batch = b /\ t.objs[o].preview = v /\ t.objs[o].take = n
    /\ \A p \in Slots : p # o => Kept(r.objs[p], t.objs[p])

LEMMA StartTurnMoves ==
    ASSUME NEW r \in Triples, NEW o \in Slots, NEW b \in Seq(Messages),
           NEW v \in Seq(Messages), NEW n \in Nat
    PROVE  Begun(r, StartTurn(r, o, b, v, n), o, b, v, n)
<1> DEFINE q == [r.objs[o] EXCEPT !.phase = "turn", !.batch = b, !.preview = v, !.take = n]
           t == StartTurn(r, o, b, v, n)
<1>1. r.objs[o] \in Queues
    BY DEF Triples
<1>2. /\ q \in Queues /\ SameContent(r.objs[o], q) /\ q.phase = "turn"
      /\ q.batch = b /\ q.preview = v /\ q.take = n
    BY <1>1 DEF Queues, Phases, SameContent
<1>3. t = [r EXCEPT !.objs[o] = q]
    BY DEF StartTurn
<1> HIDE DEF q
<1>4. /\ t \in Triples /\ t.reg = r.reg /\ t.objs[o] = q
      /\ \A p \in Slots : p # o => t.objs[p] = r.objs[p]
    BY <1>2, <1>3, Replaced
<1> HIDE DEF t
<1>5. \A p \in Slots : Kept(r.objs[p], r.objs[p])
    BY DEF Kept, SameContent
<1>6. Begun(r, t, o, b, v, n)
    BY <1>2, <1>4, <1>5 DEF Begun
<1> QED BY <1>6 DEF t

LEMMA NextItemMoves ==
    ASSUME NEW r \in Triples, NEW o \in Slots
    PROVE  Moves(r, NextItem(r, o), o)
<1>1. CASE r.objs[o].items = <<>>
    BY <1>1, LoopEndMoves DEF NextItem
<1>2. CASE r.objs[o].items # <<>>
    <2> DEFINE b == <<Head(r.objs[o].items)>>
               t == StartTurn(r, o, b, <<>>, 1)
    <2>1. r.objs[o].items \in Seq(Messages) /\ <<>> \in Seq(Messages)
        BY Empty, QueueFields DEF Triples
    <2>2. b \in Seq(Messages)
        BY <1>2, <2>1
    <2> HIDE DEF b
    <2>3. Begun(r, t, o, b, <<>>, 1)
        BY <2>1, <2>2, StartTurnMoves
    <2>4. NextItem(r, o) = t
        BY <1>2 DEF NextItem, b
    <2> HIDE DEF t
    <2> QED BY <1>2, <2>3, <2>4 DEF Begun, Moves, Moved, TurnsOne, b
<1> QED BY <1>1, <1>2

LEMMA PreviewLines ==
    ASSUME NEW q \in Queues
    PROVE  /\ Preview(q) \in Seq(Messages)
           /\ Range1(Preview(q)) \subseteq Range1(q.summaryLines)
           /\ Preview(q) # <<>> =>
                  q.settings.dropPolicy = "summarize" /\ Preview(q) = q.summaryLines
    BY Empty, QueueFields DEF Preview

LEMMA MovedDrainOK ==
    ASSUME NEW p \in Queues, NEW q \in Queues, Moved(p, q), DrainOK(p)
    PROVE  DrainOK(q)
    BY QueueFields DEF Moved, Kept, Rested, Checked, TurnsOne, TurnsAll, TurnsSummary,
       SameContent, NoTurn, DrainOK, Phases

-----------------------------------------------------------------------------
(* The actions in these terms.                                               *)

QueuesOK ==
    /\ registry \in 0..MaxQueues /\ callback \in BOOLEAN
    /\ objects \in [Slots -> Queues]
    /\ \A o \in Slots : DrainOK(objects[o])

RestOK ==
    /\ case \in Cases /\ mainActive \in BOOLEAN /\ inbound \subseteq Messages
    /\ deliveries \in [Messages -> 0..MaxDeliveries] /\ failures \in 0..MaxFailures
    /\ recent \subseteq Messages /\ shown \subseteq Messages /\ discarded \subseteq Messages
    /\ shifted \in BOOLEAN

LEMMA TypeParts == TypeOK <=> QueuesOK /\ RestOK
    BY DEF TypeOK, QueuesOK, RestOK, DrainOK, NoTurn

LEMMA TypePartsNext == TypeOK' <=> QueuesOK' /\ RestOK'
    BY DEF TypeOK, QueuesOK, RestOK, DrainOK, NoTurn

\* The drain of o has moved in this step, and another one may have started.
Drains(o) ==
    /\ registry' \in {0, registry}
    /\ Moved(objects[o], objects'[o])
    /\ \A p \in Slots : p # o => Kept(objects[p], objects'[p])

LEMMA HereTriple ==
    ASSUME QueuesOK
    PROVE  /\ Here \in Triples
           /\ Here.reg = registry /\ Here.objs = objects /\ Here.cb = callback
    BY DEF QueuesOK, Here, Triples

LEMMA AllMovedOK ==
    ASSUME QueuesOK, case' = case, NEW t \in Triples, Become(t),
           \A o \in Slots : Moved(objects[o], t.objs[o])
    PROVE  QueuesOK'
<1>1. /\ registry' \in 0..MaxQueues /\ callback' \in BOOLEAN /\ objects' \in [Slots -> Queues]
      /\ objects' = t.objs
    BY DEF Become, Triples
<1>2. ASSUME NEW o \in Slots
      PROVE  (DrainOK(objects[o]))'
    <2>1. /\ objects[o] \in Queues /\ objects'[o] \in Queues /\ DrainOK(objects[o])
          /\ Moved(objects[o], objects'[o])
        BY <1>1 DEF QueuesOK
    <2>2. DrainOK(objects'[o])
        BY <2>1, MovedDrainOK
    <2> QED BY <2>2 DEF DrainOK
<1> QED BY <1>1, <1>2 DEF QueuesOK

LEMMA BecomeDrains ==
    ASSUME QueuesOK, case' = case, NEW o \in Slots, NEW t, Moves(Here, t, o), Become(t)
    PROVE  QueuesOK' /\ Drains(o)
<1>1. /\ t \in Triples /\ t.reg \in {0, registry} /\ Moved(objects[o], t.objs[o])
      /\ \A p \in Slots : p # o => Kept(objects[p], t.objs[p])
    BY HereTriple DEF Moves
<1>2. \A p \in Slots : Moved(objects[p], t.objs[p])
    BY <1>1 DEF Moved
<1>3. QueuesOK'
    BY <1>1, <1>2, AllMovedOK
<1> QED BY <1>1, <1>3 DEF Become, Drains

LEMMA EndMainDrains ==
    ASSUME QueuesOK, EndMain
    PROVE  QueuesOK' /\ \A o \in Slots : Drains(o)
<1>1. /\ Schedule(Here) \in Triples /\ Schedule(Here).reg \in {0, registry}
      /\ \A p \in Slots : Kept(objects[p], Schedule(Here).objs[p])
    BY HereTriple, ScheduleMoves
<1>2. Become(Schedule(Here)) /\ case' = case
    BY DEF EndMain
<1>3. \A o \in Slots : Moved(objects[o], Schedule(Here).objs[o])
    BY <1>1 DEF Moved
<1>4. QueuesOK'
    BY <1>1, <1>2, <1>3, AllMovedOK
<1> QED BY <1>1, <1>2, <1>3, <1>4 DEF Become, Drains

LEMMA CheckCollectDrains ==
    ASSUME QueuesOK, NEW o \in Slots, CheckCollect(o)
    PROVE  QueuesOK' /\ Drains(o)
<1> DEFINE q == objects[o]
           forced == q.forced \/ CrossChannel(q.items)
           p == [q EXCEPT !.forced = forced]
           r == [Here EXCEPT !.objs[o].forced = forced]
           c == [r EXCEPT !.objs[o].phase = "checked"]
           s == [p EXCEPT !.phase = "checked"]
<1>1. /\ q.phase = "debounce" /\ case' = case
      /\ Become(IF forced THEN NextItem(r, o) ELSE c)
    BY DEF CheckCollect, DrainStep
<1>2. q \in Queues /\ Here \in Triples /\ Here.objs = objects /\ Here.reg = registry /\ NoTurn(q)
    BY <1>1, HereTriple DEF QueuesOK, DrainOK
<1>3. \E b \in BOOLEAN : b <=> forced
    OBVIOUS
<1>4. /\ p \in Queues /\ SameContent(q, p) /\ p.phase = "debounce" /\ p.batch = q.batch
      /\ p.preview = q.preview /\ p.take = q.take
    <2> HIDE DEF forced
    <2>1. forced \in BOOLEAN
        BY QueueFields, <1>2 DEF forced
    <2> QED BY <1>1, <1>2, <2>1 DEF Queues, SameContent
<1>5. r = [Here EXCEPT !.objs[o] = p]
    BY <1>2 DEF Triples
<1> HIDE DEF p, r
<1>6. /\ r \in Triples /\ r.reg = registry /\ r.objs[o] = p
      /\ \A x \in Slots : x # o => r.objs[x] = objects[x]
    BY <1>2, <1>4, <1>5, Replaced
<1>7. CASE forced
    <2> DEFINE t == NextItem(r, o)
    <2>1. Become(t)
        BY <1>1, <1>7
    <2>2. Moves(r, t, o)
        BY <1>6, NextItemMoves
    <2> HIDE DEF t
    <2>3. Moved(p, t.objs[o])
        BY <1>6, <2>2 DEF Moves
    <2>4. Moved(q, t.objs[o])
        BY <2>3, <1>1, <1>4 DEF Moved, Kept, Rested, Checked, TurnsOne, TurnsAll,
           TurnsSummary, SameContent, NoTurn, Preview
    <2>5. Moves(Here, t, o)
        BY <1>2, <1>6, <2>2, <2>4 DEF Moves
    <2> QED BY <1>1, <2>1, <2>5, BecomeDrains
<1>8. CASE ~forced
    <2>1. Become(c)
        BY <1>1, <1>8
    <2>2. s \in Queues /\ Checked(q, s)
        BY <1>2, <1>4, <1>8 DEF Queues, Phases, Checked, SameContent, NoTurn
    <2>3. c = [r EXCEPT !.objs[o] = s]
        BY <1>6 DEF Triples
    <2> HIDE DEF c, s
    <2>4. /\ c \in Triples /\ c.reg = r.reg /\ c.objs[o] = s
          /\ \A x \in Slots : x # o => c.objs[x] = r.objs[x]
        BY <1>6, <2>2, <2>3, Replaced
    <2>5. \A x \in Slots : Kept(objects[x], objects[x])
        BY DEF Kept, SameContent
    <2>6. Moves(Here, c, o)
        BY <1>2, <1>6, <2>2, <2>4, <2>5 DEF Moves, Moved
    <2> QED BY <1>1, <2>1, <2>6, BecomeDrains
<1> QED BY <1>7, <1>8

LEMMA CollectBatchDrains ==
    ASSUME QueuesOK, NEW o \in Slots, CollectBatch(o)
    PROVE  QueuesOK' /\ Drains(o)
<1> DEFINE q == objects[o]
           ends == q.items = <<>> /\ ~q.lastRun
           t == StartTurn(Here, o, q.items, Preview(q), Len(q.items))
<1>1. /\ q.phase = "checked" /\ case' = case
      /\ Become(IF ends THEN LoopEnd(Here, o) ELSE t)
    BY DEF CollectBatch, DrainStep
<1>2. Here \in Triples /\ Here.objs = objects /\ Here.reg = registry /\ q \in Queues
    BY HereTriple DEF QueuesOK
<1>3. CASE ends
    <2>1. Become(LoopEnd(Here, o)) /\ Moves(Here, LoopEnd(Here, o), o)
        BY <1>1, <1>2, <1>3, LoopEndMoves
    <2> QED BY <1>1, <2>1, BecomeDrains
<1>4. CASE ~ends
    <2>1. Become(t)
        BY <1>1, <1>4
    <2>2. q.items \in Seq(Messages) /\ Preview(q) \in Seq(Messages) /\ Len(q.items) \in Nat
        BY <1>2, QueueFields, PreviewLines
    <2>3. Begun(Here, t, o, q.items, Preview(q), Len(q.items))
        BY <1>2, <2>2, StartTurnMoves
    <2> HIDE DEF t
    <2>4. Moves(Here, t, o)
        BY <1>1, <1>2, <2>3 DEF Begun, Moves, Moved, TurnsAll
    <2> QED BY <1>1, <2>1, <2>4, BecomeDrains
<1> QED BY <1>3, <1>4

LEMMA NextFollowupDrains ==
    ASSUME QueuesOK, NEW o \in Slots, NextFollowup(o)
    PROVE  QueuesOK' /\ Drains(o)
<1> DEFINE q == objects[o]
           ends == q.items = <<>> \/ ~q.lastRun
           t == StartTurn(Here, o, <<>>, Preview(q), 1)
<1>1. /\ q.settings.mode # "collect" /\ case' = case
      /\ Become(IF Preview(q) = <<>> THEN NextItem(Here, o)
                ELSE IF ends THEN LoopEnd(Here, o) ELSE t)
    BY DEF NextFollowup, DrainStep
<1>2. Here \in Triples /\ Here.objs = objects /\ Here.reg = registry /\ q \in Queues
    BY HereTriple DEF QueuesOK
<1>3. CASE Preview(q) = <<>>
    <2>1. Become(NextItem(Here, o)) /\ Moves(Here, NextItem(Here, o), o)
        BY <1>1, <1>2, <1>3, NextItemMoves
    <2> QED BY <1>1, <2>1, BecomeDrains
<1>4. CASE Preview(q) # <<>> /\ ends
    <2>1. Become(LoopEnd(Here, o)) /\ Moves(Here, LoopEnd(Here, o), o)
        BY <1>1, <1>2, <1>4, LoopEndMoves
    <2> QED BY <1>1, <2>1, BecomeDrains
<1>5. CASE Preview(q) # <<>> /\ ~ends
    <2>1. Become(t)
        BY <1>1, <1>5
    <2>2. <<>> \in Seq(Messages) /\ Preview(q) \in Seq(Messages)
        BY <1>2, Empty, PreviewLines
    <2>3. Begun(Here, t, o, <<>>, Preview(q), 1)
        BY <1>2, <2>2, StartTurnMoves
    <2> HIDE DEF t
    <2>4. Moves(Here, t, o)
        BY <1>1, <1>2, <1>5, <2>3 DEF Begun, Moves, Moved, TurnsSummary
    <2> QED BY <1>1, <2>1, <2>4, BecomeDrains
<1> QED BY <1>3, <1>4, <1>5

LEMMA FailTurnDrains ==
    ASSUME QueuesOK, NEW o \in Slots, FailTurn(o)
    PROVE  QueuesOK' /\ Drains(o)
<1>1. Become(LoopEnd(Here, o)) /\ Moves(Here, LoopEnd(Here, o), o) /\ case' = case
    BY HereTriple, LoopEndMoves DEF FailTurn, DrainStep
<1> QED BY <1>1, BecomeDrains

\* What a finished turn leaves of its queue object.
Finished(p, q) ==
    /\ NoTurn(q) /\ q.settings = p.settings /\ q.items = Taken(p)
    /\ q.phase = "debounce" \/ (q.phase = "idle" /\ ~q.forced)
    /\ q.summaryLines = IF p.preview = <<>> THEN p.summaryLines ELSE <<>>
    /\ q.dropped = IF p.preview = <<>> THEN p.dropped ELSE 0

LEMMA FinishTurnShape ==
    ASSUME QueuesOK, NEW o \in Slots, FinishTurn(o)
    PROVE  /\ QueuesOK' /\ registry' \in {0, registry}
           /\ objects[o].phase = "turn" /\ Finished(objects[o], objects'[o])
           /\ \A p \in Slots : p # o => Kept(objects[p], objects'[p])
<1> DEFINE q == objects[o]
           left == [q EXCEPT !.items = Taken(q),
                             !.dropped = IF q.preview = <<>> THEN @ ELSE 0,
                             !.summaryLines = IF q.preview = <<>> THEN @ ELSE <<>>]
           r == [Here EXCEPT !.objs[o] = left]
           t == LoopTop(r, o)
<1>1. q.phase = "turn" /\ Become(t) /\ case' = case
    BY DEF FinishTurn, DrainStep
<1>2. /\ Here \in Triples /\ Here.objs = objects /\ Here.reg = registry /\ q \in Queues
      /\ <<>> \in Seq(Messages)
    BY HereTriple, Empty DEF QueuesOK
<1>3. Taken(q) \in Seq(Messages)
    BY <1>2, QueueFields, RemoveFacts DEF Taken
<1>4. /\ left \in Queues /\ left.settings = q.settings /\ left.items = Taken(q)
      /\ left.summaryLines = IF q.preview = <<>> THEN q.summaryLines ELSE <<>>
      /\ left.dropped = IF q.preview = <<>> THEN q.dropped ELSE 0
    BY <1>2, <1>3 DEF Queues
<1> HIDE DEF left
<1>5. /\ r \in Triples /\ r.reg = registry /\ r.objs[o] = left
      /\ \A p \in Slots : p # o => r.objs[p] = objects[p]
    BY <1>2, <1>4, Replaced
<1> HIDE DEF r
<1>6. Moves(r, t, o) /\ Rested(r.objs[o], t.objs[o])
    BY <1>5, LoopTopMoves
<1> HIDE DEF t
<1>7. /\ t \in Triples /\ t.reg \in {0, registry}
      /\ \A p \in Slots : p # o => Kept(objects[p], t.objs[p])
    BY <1>5, <1>6 DEF Moves
<1>8. Finished(q, t.objs[o])
    BY <1>4, <1>5, <1>6 DEF Rested, Finished, SameContent, NoTurn
<1>9. registry' = t.reg /\ objects' = t.objs /\ callback' = t.cb
    BY <1>1 DEF Become
<1>10. QueuesOK'
    <2>1. ASSUME NEW p \in Slots
          PROVE  (DrainOK(objects[p]))'
        <3>1. CASE p = o
            BY <1>1, <1>8, <1>9, <3>1 DEF QueuesOK, DrainOK, Finished, NoTurn
        <3>2. CASE p # o
            <4>1. /\ objects[p] \in Queues /\ objects'[p] \in Queues
                  /\ DrainOK(objects[p]) /\ Moved(objects[p], objects'[p])
                BY <1>7, <1>9, <3>2 DEF QueuesOK, Triples, Moved
            <4>2. DrainOK(objects'[p])
                BY <4>1, MovedDrainOK
            <4> QED BY <1>1, <4>2 DEF DrainOK
        <3> QED BY <3>1, <3>2
    <2> QED BY <1>7, <1>9, <2>1 DEF QueuesOK, Triples
<1> QED BY <1>1, <1>7, <1>8, <1>9, <1>10

-----------------------------------------------------------------------------
(* Queueing a message.                                                       *)

LEMMA SlotForFacts ==
    ASSUME QueuesOK, registry # 0 \/ FreeSlots # {}
    PROVE  /\ SlotFor \in Slots
           /\ registry # 0 => SlotFor = registry
           /\ registry = 0 => SlotFor \in FreeSlots
<1>1. CASE registry # 0
    BY <1>1, Numbers DEF QueuesOK, SlotFor, Slots
<1>2. CASE registry = 0
    <2>1. FreeSlots \subseteq Slots /\ FreeSlots \subseteq Nat /\ FreeSlots # {}
        BY <1>2, Numbers DEF FreeSlots
    <2>2. PICK x \in FreeSlots : \A y \in FreeSlots : ~(<<y, x>> \in OpToRel(<, Nat))
        BY <2>1, NatLessThanWellFounded, WFMin
    <2>3. ASSUME NEW y \in FreeSlots
          PROVE  x <= y
        <3>1. x \in Nat /\ y \in Nat
            BY <2>1, <2>2
        <3>2. ~(y < x)
            BY <2>2, <3>1 DEF OpToRel
        <3> QED BY <3>1, <3>2
    <2>4. SlotFor \in FreeSlots
        BY <1>2, <2>3 DEF SlotFor
    <2> QED BY <1>2, <2>1, <2>4
<1> QED BY <1>1, <1>2

LEMMA NewQueueFacts ==
    ASSUME NEW s \in case.settings, case \in Cases
    PROVE  NewQueue(s) \in Queues /\ DrainOK(NewQueue(s)) /\ s \in Settings
<1>1. s \in Settings
    BY DEF Settings
<1>2. <<>> \in Seq(Messages)
    BY Empty
<1> QED BY <1>1, <1>2 DEF Queues, NewQueue, DrainOK, NoTurn, Phases

\* getFollowupQueue gives the registered object, or an empty one in the place
\* of an object with nothing in it.
LEMMA ObjectForFacts ==
    ASSUME QueuesOK, case \in Cases, NEW s \in case.settings, registry # 0 \/ FreeSlots # {}
    PROVE  LET q == ObjectFor(s)
               p == objects[SlotFor]
           IN  /\ q \in Queues /\ DrainOK(q)
               /\ q.items = p.items /\ q.dropped = p.dropped /\ q.phase = p.phase
               /\ q.batch = p.batch /\ q.preview = p.preview /\ q.take = p.take
               /\ q.summaryLines = p.summaryLines \/ (q.summaryLines = <<>> /\ q.dropped = 0)
<1>1. SlotFor \in Slots /\ objects[SlotFor] \in Queues /\ DrainOK(objects[SlotFor])
    BY SlotForFacts DEF QueuesOK
<1>2. CASE registry # 0
    <2>1. SlotFor = registry /\ s \in Settings
        BY <1>2, SlotForFacts, NewQueueFacts
    <2>2. ObjectFor(s) = [objects[SlotFor] EXCEPT !.settings = s]
        BY <1>2, <2>1 DEF ObjectFor
    <2> QED BY <1>1, <2>1, <2>2 DEF Queues, DrainOK, NoTurn
<1>3. CASE registry = 0
    <2>1. /\ objects[SlotFor].phase = "idle" /\ ~Pending(objects[SlotFor])
        BY <1>3, SlotForFacts DEF FreeSlots
    <2>2. objects[SlotFor].items = <<>> /\ objects[SlotFor].dropped = 0
        BY <1>1, <2>1, QueueFields DEF Pending
    <2>3. NoTurn(objects[SlotFor])
        BY <1>1, <2>1 DEF DrainOK
    <2>4. ObjectFor(s) = NewQueue(s)
        BY <1>3 DEF ObjectFor
    <2>5. NewQueue(s) \in Queues /\ DrainOK(NewQueue(s))
        BY NewQueueFacts
    <2> QED BY <2>1, <2>2, <2>3, <2>4, <2>5 DEF NewQueue, NoTurn
<1> QED BY <1>2, <1>3

\* applyQueueDropPolicy, at the cap or below it.
Room(q) == IF Full(q) THEN Overflow(q) ELSE [queue |-> q, lost |-> {}]

SameTurn(p, q) ==
    /\ q.settings = p.settings /\ q.phase = p.phase /\ q.forced = p.forced
    /\ q.batch = p.batch /\ q.preview = p.preview /\ q.take = p.take

\* The first n items have left the queue: for the summary lines, or for good.
Shortened(p, q, n, lost) ==
    /\ q \in Queues /\ SameTurn(p, q) /\ lost \subseteq Messages
    /\ q.items = Remove(p.items, n)
    /\ Range1(p.items) \cup Range1(p.summaryLines)
           \subseteq Range1(q.items) \cup Range1(q.summaryLines) \cup lost
    /\ Range1(q.summaryLines) \subseteq Range1(p.summaryLines) \cup Range1(SubSeq(p.items, 1, n))
    /\ q.summaryLines # <<>> => q.dropped > 0 \/ (q.dropped = p.dropped /\ q.summaryLines = p.summaryLines)

LEMMA OverflowFacts ==
    ASSUME NEW q \in Queues, Full(q)
    PROVE  \E n \in 0..Len(q.items) : Shortened(q, Overflow(q).queue, n, Overflow(q).lost)
<1> DEFINE n     == Len(q.items) - q.settings.cap + 1
           gone  == SubSeq(q.items, 1, n)
           lines == q.summaryLines \o gone
           keep  == IF Len(lines) > q.settings.cap THEN Len(lines) - q.settings.cap ELSE 0
           rest  == Remove(q.items, n)
           lost  == SubSeq(lines, 1, keep)
           left  == Remove(lines, keep)
<1>1. /\ q.items \in Seq(Messages) /\ q.summaryLines \in Seq(Messages) /\ q.dropped \in Nat
      /\ Len(q.items) \in Nat /\ q.settings \in Settings
    BY QueueFields
<1>2. q.settings.cap \in Nat \ {0}
    BY <1>1, FollowupAssumption
<1>3. n \in 0..Len(q.items) /\ n > 0 /\ n \in Nat
    BY <1>1, <1>2 DEF Full
<1> HIDE DEF n
<1>4. /\ rest \in Seq(Messages) /\ gone \in Seq(Messages) /\ Range1(gone) \subseteq Messages
      /\ Range1(q.items) = Range1(gone) \cup Range1(rest)
    BY <1>1, <1>3, RemoveFacts, PrefixFacts, Ranges
<1> HIDE DEF gone
<1>5. lines \in Seq(Messages) /\ Range1(lines) = Range1(q.summaryLines) \cup Range1(gone)
    BY <1>1, <1>4, JoinFacts
<1> HIDE DEF lines
<1>6. keep \in 0..Len(lines) /\ keep \in Nat
    BY <1>2, <1>5
<1> HIDE DEF keep
<1>7. /\ lost \in Seq(Messages) /\ left \in Seq(Messages) /\ Range1(lost) \subseteq Messages
      /\ Range1(lines) = Range1(lost) \cup Range1(left)
    BY <1>5, <1>6, RemoveFacts, PrefixFacts, Ranges
<1> HIDE DEF rest, lost, left
<1>8. CASE q.settings.dropPolicy = "summarize"
    <2> DEFINE p == [q EXCEPT !.items = rest, !.dropped = q.dropped + n, !.summaryLines = left]
    <2>1. Overflow(q) = [queue |-> p, lost |-> Range1(lost)]
        BY <1>8 DEF Overflow, n, gone, lines, keep, rest, lost, left
    <2>2. q.dropped + n \in Nat /\ q.dropped + n > 0
        BY <1>1, <1>3
    <2>3. /\ p \in Queues /\ SameTurn(q, p) /\ p.items = rest /\ p.summaryLines = left
          /\ p.dropped > 0
        BY <1>4, <1>7, <2>2 DEF Queues, SameTurn
    <2> HIDE DEF p
    <2>4. Overflow(q).queue = p /\ Overflow(q).lost = Range1(lost)
        BY <2>1
    <2>5. Shortened(q, p, n, Range1(lost))
        BY <1>4, <1>5, <1>7, <2>3 DEF Shortened, rest, gone
    <2> QED BY <1>3, <2>4, <2>5
<1>9. CASE q.settings.dropPolicy # "summarize"
    <2> DEFINE p == [q EXCEPT !.items = rest]
    <2>1. Overflow(q) = [queue |-> p, lost |-> Range1(gone)]
        BY <1>9 DEF Overflow, n, gone, rest
    <2>2. /\ p \in Queues /\ SameTurn(q, p) /\ p.items = rest
          /\ p.summaryLines = q.summaryLines /\ p.dropped = q.dropped
        BY <1>4 DEF Queues, SameTurn
    <2> HIDE DEF p
    <2>3. Overflow(q).queue = p /\ Overflow(q).lost = Range1(gone)
        BY <2>1
    <2>4. Shortened(q, p, n, Range1(gone))
        BY <1>4, <2>2 DEF Shortened, rest
    <2> QED BY <1>3, <2>3, <2>4
<1> QED BY <1>8, <1>9

LEMMA RoomFacts ==
    ASSUME NEW q \in Queues
    PROVE  /\ \E n \in 0..Len(q.items) : Shortened(q, Room(q).queue, n, Room(q).lost)
           /\ ~Full(q) => Room(q).queue = q /\ Room(q).lost = {}
<1>1. CASE Full(q)
    BY <1>1, OverflowFacts DEF Room
<1>2. CASE ~Full(q)
    <2>1. Room(q).queue = q /\ Room(q).lost = {}
        BY <1>2 DEF Room
    <2>2. q.items \in Seq(Messages) /\ Len(q.items) \in Nat
        BY QueueFields
    <2>3. SubSeq(q.items, 1, Len(q.items)) = q.items
        BY <2>2
    <2>4. Shortened(q, q, 0, {})
        BY <2>2, <2>3 DEF Shortened, SameTurn, Remove
    <2> QED BY <1>2, <2>1, <2>2, <2>4
<1> QED BY <1>1, <1>2

\* p is the object before the message m, v the object with room for it, q after.
Queued(v, q, m) ==
    /\ q.settings = v.settings /\ q.items = Append(v.items, m) /\ q.dropped = v.dropped
    /\ q.summaryLines = v.summaryLines /\ q.batch = v.batch
    /\ q.preview = v.preview /\ q.take = v.take
    /\ q.phase = v.phase \/ (v.phase = "idle" /\ q.phase = "debounce")

LEMMA EnqueueShape ==
    ASSUME QueuesOK, case \in Cases, NEW m \in Messages, NEW s \in case.settings, Enqueue(m, s)
    PROVE  /\ QueuesOK' /\ registry' \in {0, SlotFor}
           /\ Queued(Room(ObjectFor(s)).queue, objects'[SlotFor], m)
           /\ \A p \in Slots : p # SlotFor => Kept(objects[p], objects'[p])
           /\ discarded' = (discarded \cup Room(ObjectFor(s)).lost) \ {m}
           /\ shifted' = (shifted \/ (Full(ObjectFor(s)) /\ ObjectFor(s).phase = "turn"))
<1> DEFINE q == ObjectFor(s)
           o == SlotFor
           v == Room(q).queue
           new == [v EXCEPT !.items = Append(@, m), !.lastRun = TRUE]
           r == [Here EXCEPT !.reg = o, !.objs[o] = new]
           t == IF callback THEN Schedule(r) ELSE r
<1>1. registry # 0 \/ FreeSlots # {}
    BY DEF Enqueue, MayEnqueue
<1>2. o \in Slots /\ q \in Queues /\ DrainOK(q)
    BY <1>1, SlotForFacts, ObjectForFacts
<1>3. /\ Become(t) /\ case' = case
      /\ discarded' = (discarded \cup Room(q).lost) \ {m}
      /\ shifted' = (shifted \/ (Full(q) /\ q.phase = "turn"))
    BY DEF Enqueue, Room
<1> HIDE DEF q, o
<1>4. v \in Queues /\ SameTurn(q, v)
    BY <1>2, RoomFacts DEF Shortened
<1> HIDE DEF v
<1>5. Append(v.items, m) \in Seq(Messages)
    BY <1>4, QueueFields, AppendFacts
<1>6. /\ new \in Queues /\ Queued(v, new, m) /\ DrainOK(new)
    BY <1>2, <1>4, <1>5 DEF Queues, Queued, DrainOK, NoTurn, SameTurn
<1> HIDE DEF new
<1>7. Here \in Triples /\ Here.reg = registry /\ Here.objs = objects
    BY HereTriple
<1>8. /\ r \in Triples /\ r.reg = o /\ r.objs[o] = new /\ o \in 0..MaxQueues
      /\ \A p \in Slots : p # o => r.objs[p] = objects[p]
    <2>1. o \in 0..MaxQueues
        BY <1>2, Numbers DEF Slots
    <2> QED BY <1>2, <1>6, <1>7, <2>1 DEF Triples
<1> HIDE DEF r
<1>9. /\ t \in Triples /\ t.reg \in {0, o} /\ \A p \in Slots : Kept(r.objs[p], t.objs[p])
    <2>1. \A p \in Slots : Kept(r.objs[p], r.objs[p])
        BY DEF Kept, SameContent
    <2> QED BY <1>8, <2>1, ScheduleMoves
<1> HIDE DEF t
<1>10. registry' = t.reg /\ objects' = t.objs /\ callback' = t.cb
    BY <1>3 DEF Become
<1>11. Queued(v, objects'[o], m)
    <2>1. Kept(new, objects'[o])
        BY <1>2, <1>8, <1>9, <1>10
    <2> QED BY <1>6, <2>1 DEF Kept, SameContent, Queued
<1>12. \A p \in Slots : p # o => Kept(objects[p], objects'[p])
    BY <1>8, <1>9, <1>10
<1>13. QueuesOK'
    <2>1. ASSUME NEW p \in Slots
          PROVE  (DrainOK(objects[p]))'
        <3>1. /\ r.objs[p] \in Queues /\ objects'[p] \in Queues
              /\ DrainOK(r.objs[p]) /\ Moved(r.objs[p], objects'[p])
            BY <1>6, <1>8, <1>9, <1>10 DEF QueuesOK, Triples, Moved
        <3>2. DrainOK(objects'[p])
            BY <3>1, MovedDrainOK
        <3> QED BY <1>3, <3>2 DEF DrainOK
    <2> QED BY <1>9, <1>10, <2>1 DEF QueuesOK, Triples
<1> QED BY <1>3, <1>9, <1>10, <1>11, <1>12, <1>13 DEF q, o, v

LEMMA EnqueueSkippedShape ==
    ASSUME QueuesOK, case \in Cases, NEW m \in Messages, NEW s \in case.settings,
           EnqueueSkipped(m, s)
    PROVE  /\ QueuesOK' /\ registry' = SlotFor
           /\ \E b \in BOOLEAN :
                objects' = [objects EXCEPT ![SlotFor] = [ObjectFor(s) EXCEPT !.lastRun = b]]
<1> DEFINE q == ObjectFor(s)
           o == SlotFor
<1>1. registry # 0 \/ FreeSlots # {}
    BY DEF EnqueueSkipped, MayEnqueue
<1>2. o \in Slots /\ q \in Queues /\ DrainOK(q)
    BY <1>1, SlotForFacts, ObjectForFacts
<1>3. /\ registry' = o /\ case' = case /\ callback' = callback
      /\ \/ objects' = [objects EXCEPT ![o] = q]
         \/ objects' = [objects EXCEPT ![o] = [q EXCEPT !.lastRun = TRUE]]
    BY DEF EnqueueSkipped
<1> HIDE DEF q, o
<1>4. q = [q EXCEPT !.lastRun = q.lastRun] /\ q.lastRun \in BOOLEAN
    BY <1>2 DEF Queues
<1>5. PICK b \in BOOLEAN : objects' = [objects EXCEPT ![o] = [q EXCEPT !.lastRun = b]]
    BY <1>3, <1>4
<1>6. [q EXCEPT !.lastRun = b] \in Queues /\ DrainOK([q EXCEPT !.lastRun = b])
    BY <1>2 DEF Queues, DrainOK, NoTurn
<1>7. QueuesOK'
    <2>1. registry' \in 0..MaxQueues
        BY <1>2, <1>3, Numbers DEF Slots
    <2>2. objects' \in [Slots -> Queues] /\ \A p \in Slots : DrainOK(objects'[p])
        BY <1>2, <1>5, <1>6 DEF QueuesOK
    <2> QED BY <1>3, <2>1, <2>2 DEF QueuesOK, DrainOK
<1> QED BY <1>3, <1>5, <1>7 DEF q, o

LEMMA ClearShape ==
    ASSUME QueuesOK, ClearSessionQueues
    PROVE  /\ QueuesOK' /\ registry' = 0
           /\ \/ objects' = objects /\ discarded' = discarded
              \/ /\ registry \in Slots
                 /\ objects' = [objects EXCEPT ![registry] =
                        [objects[registry] EXCEPT !.items = <<>>, !.dropped = 0,
                                                  !.summaryLines = <<>>, !.lastRun = FALSE]]
                 /\ discarded' = discarded \cup Range1(objects[registry].items)
                                           \cup Range1(objects[registry].summaryLines)
<1> DEFINE q == objects[registry]
           p == [q EXCEPT !.items = <<>>, !.dropped = 0, !.summaryLines = <<>>, !.lastRun = FALSE]
<1>1. registry' = 0 /\ callback' \in BOOLEAN /\ case' = case
    BY DEF ClearSessionQueues
<1>2. CASE registry = 0
    BY <1>1, <1>2 DEF ClearSessionQueues, QueuesOK, DrainOK
<1>3. CASE registry # 0
    <2>1. registry \in Slots /\ q \in Queues /\ DrainOK(q) /\ <<>> \in Seq(Messages)
        BY <1>3, Empty, Numbers DEF QueuesOK, Slots
    <2>2. /\ objects' = [objects EXCEPT ![registry] = p]
          /\ discarded' = discarded \cup Range1(q.items) \cup Range1(q.summaryLines)
        BY <1>3 DEF ClearSessionQueues
    <2>3. p \in Queues /\ DrainOK(p)
        BY <2>1 DEF Queues, DrainOK, NoTurn
    <2>4. objects' \in [Slots -> Queues] /\ \A x \in Slots : DrainOK(objects'[x])
        <3> HIDE DEF p
        <3> QED BY <2>1, <2>2, <2>3 DEF QueuesOK
    <2>5. registry' \in 0..MaxQueues
        BY <1>1, Numbers
    <2>6. \A x \in Slots : (DrainOK(objects[x]))'
        BY <1>1, <2>4 DEF DrainOK
    <2>7. QueuesOK'
        BY <1>1, <2>4, <2>5, <2>6 DEF QueuesOK
    <2> QED BY <1>1, <2>1, <2>2, <2>7
<1> QED BY <1>2, <1>3

LEMMA ClearedObject ==
    ASSUME QueuesOK, ClearSessionQueues, NEW p \in Slots, objects'[p] # objects[p]
    PROVE  /\ p = registry
           /\ objects'[p].items = <<>> /\ objects'[p].dropped = 0
           /\ objects'[p].summaryLines = <<>> /\ SameTurn(objects[p], objects'[p])
           /\ discarded' = discarded \cup Range1(objects[p].items) \cup Range1(objects[p].summaryLines)
<1> DEFINE q == [objects[registry] EXCEPT !.items = <<>>, !.dropped = 0,
                                          !.summaryLines = <<>>, !.lastRun = FALSE]
<1>1. /\ registry \in Slots /\ objects' = [objects EXCEPT ![registry] = q]
      /\ discarded' = discarded \cup Range1(objects[registry].items)
                                \cup Range1(objects[registry].summaryLines)
    BY ClearShape
<1>2. objects[registry] \in Queues
    BY <1>1 DEF QueuesOK
<1>3. /\ q.items = <<>> /\ q.dropped = 0 /\ q.summaryLines = <<>>
      /\ SameTurn(objects[registry], q)
    BY <1>2 DEF Queues, SameTurn
<1> HIDE DEF q
<1>4. p = registry /\ objects'[p] = q
    BY <1>1 DEF QueuesOK
<1> QED BY <1>1, <1>3, <1>4

-----------------------------------------------------------------------------
(* Types, and the kinds of step.                                             *)

\* The drain of o has moved, or another one has started, and nothing else.
QuietDrain(o) ==
    /\ QueuesOK' /\ Drains(o)
    /\ UNCHANGED <<case, shifted, inbound, deliveries, recent, shown, discarded>>

\* A step outside the queues.
Outside ==
    /\ UNCHANGED <<case, shifted, queueVars, shown, discarded>>
    /\ \/ UNCHANGED <<inbound, deliveries, recent>>
       \/ \E m \in Messages : Arrive(m) \/ RecentExpires(m)

LEMMA StepKinds ==
    ASSUME QueuesOK, [Next]_vars
    PROVE  \/ Outside
           \/ \E o \in Slots : QuietDrain(o)
           \/ \E o \in Slots : FinishTurn(o)
           \/ ClearSessionQueues
           \/ \E m \in Messages, s \in case.settings : Enqueue(m, s)
           \/ \E m \in Messages, s \in case.settings : EnqueueSkipped(m, s)
<1>1. CASE UNCHANGED vars
    BY <1>1 DEF vars, queueVars, Outside
<1>2. CASE StartMain
    BY <1>2 DEF StartMain, Outside
<1>3. CASE EndMain
    <2>1. 1 \in Slots
        BY Numbers DEF Slots
    <2> QED BY <1>3, <2>1, EndMainDrains DEF EndMain, QuietDrain
<1>4. ASSUME NEW m \in Messages, Arrive(m) \/ RecentExpires(m)
      PROVE  Outside
    BY <1>4 DEF Arrive, RecentExpires, Outside
<1>5. ASSUME NEW o \in Slots, CheckCollect(o) \/ CollectBatch(o) \/ NextFollowup(o) \/ FailTurn(o)
      PROVE  QuietDrain(o)
    <2>1. QueuesOK' /\ Drains(o)
        BY <1>5, CheckCollectDrains, CollectBatchDrains, NextFollowupDrains, FailTurnDrains
    <2> QED BY <1>5, <2>1 DEF CheckCollect, CollectBatch, NextFollowup, FailTurn, DrainStep, QuietDrain
<1> QED BY <1>1, <1>2, <1>3, <1>4, <1>5 DEF Next

LEMMA QueuesStep ==
    ASSUME QueuesOK, case \in Cases, [Next]_vars
    PROVE  QueuesOK'
<1>1. CASE Outside
    BY <1>1 DEF Outside, queueVars, QueuesOK, DrainOK
<1>2. CASE \E o \in Slots : QuietDrain(o)
    BY <1>2 DEF QuietDrain
<1>3. CASE \E o \in Slots : FinishTurn(o)
    BY <1>3, FinishTurnShape
<1>4. CASE ClearSessionQueues
    BY <1>4, ClearShape
<1>5. CASE \E m \in Messages, s \in case.settings : Enqueue(m, s)
    BY <1>5, EnqueueShape
<1>6. CASE \E m \in Messages, s \in case.settings : EnqueueSkipped(m, s)
    BY <1>6, EnqueueSkippedShape
<1> QED BY <1>1, <1>2, <1>3, <1>4, <1>5, <1>6, StepKinds

LEMMA CaseStays ==
    ASSUME QueuesOK, case \in Cases, [Next]_vars
    PROVE  QueuesOK' /\ case' = case
<1>1. case' = case
    BY DEF Next, vars, queueVars, StartMain, EndMain, ClearSessionQueues, Arrive, RecentExpires,
       Enqueue, EnqueueSkipped, CheckCollect, CollectBatch, NextFollowup, FinishTurn,
       FailTurn, DrainStep
<1> QED BY <1>1, QueuesStep

LEMMA RestStep ==
    ASSUME QueuesOK, RestOK, [Next]_vars
    PROVE  RestOK'
<1>1. CASE UNCHANGED vars
    BY <1>1 DEF vars, RestOK
<1>2. CASE StartMain
    BY <1>2 DEF StartMain, RestOK
<1>3. CASE EndMain
    BY <1>3 DEF EndMain, RestOK
<1>4. ASSUME NEW m \in Messages, Arrive(m)
      PROVE  RestOK'
    <2>1. deliveries[m] + 1 \in 0..MaxDeliveries
        BY <1>4, Numbers DEF Arrive, RestOK
    <2> QED BY <1>4, <2>1 DEF Arrive, RestOK
<1>5. ASSUME NEW m \in Messages, RecentExpires(m)
      PROVE  RestOK'
    BY <1>5 DEF RecentExpires, RestOK
<1>6. CASE ClearSessionQueues
    <2>1. ASSUME NEW q \in Queues
          PROVE  Range1(q.items) \subseteq Messages /\ Range1(q.summaryLines) \subseteq Messages
        BY QueueFields, Ranges
    <2>2. discarded' \subseteq Messages
        BY <1>6, <2>1, ClearShape DEF QueuesOK, RestOK
    <2> QED BY <1>6, <2>2 DEF ClearSessionQueues, RestOK
<1>7. ASSUME NEW m \in Messages, NEW s \in case.settings, Enqueue(m, s)
      PROVE  RestOK'
    <2>1. registry # 0 \/ FreeSlots # {}
        BY <1>7 DEF Enqueue, MayEnqueue
    <2>2. ObjectFor(s) \in Queues
        BY <2>1, ObjectForFacts DEF RestOK
    <2>3. Room(ObjectFor(s)).lost \subseteq Messages
        BY <2>2, RoomFacts DEF Shortened
    <2>4. discarded' \subseteq Messages
        BY <1>7, <2>3, EnqueueShape DEF RestOK
    <2>5. shifted' \in BOOLEAN
        BY <1>7, ZenonT(30) DEF Enqueue
    <2> QED BY <1>7, <2>4, <2>5 DEF Enqueue, RestOK
<1>8. ASSUME NEW m \in Messages, NEW s \in case.settings, EnqueueSkipped(m, s)
      PROVE  RestOK'
    BY <1>8 DEF EnqueueSkipped, RestOK
<1>9. ASSUME NEW o \in Slots, CheckCollect(o) \/ CollectBatch(o) \/ NextFollowup(o)
      PROVE  RestOK'
    BY <1>9 DEF CheckCollect, CollectBatch, NextFollowup, DrainStep, RestOK
<1>10. ASSUME NEW o \in Slots, FailTurn(o)
       PROVE  RestOK'
    <2>1. failures' \in 0..MaxFailures
        BY <1>10, Numbers DEF FailTurn, RestOK
    <2> QED BY <1>10, <2>1 DEF FailTurn, DrainStep, RestOK
<1>11. ASSUME NEW o \in Slots, FinishTurn(o)
       PROVE  RestOK'
    <2>1. /\ Range1(objects[o].batch) \subseteq Messages
          /\ Range1(objects[o].preview) \subseteq Messages
        BY QueueFields, Ranges DEF QueuesOK
    <2>2. shown' \subseteq Messages
        BY <1>11, <2>1 DEF FinishTurn, RestOK
    <2> QED BY <1>11, <2>2 DEF FinishTurn, DrainStep, RestOK
<1> QED BY <1>1, <1>2, <1>3, <1>4, <1>5, <1>6, <1>7, <1>8, <1>9, <1>10, <1>11 DEF Next

LEMMA InitQueues ==
    ASSUME Init
    PROVE  /\ QueuesOK
           /\ \E s \in case.settings : \A o \in Slots : objects[o] = NewQueue(s)
<1>1. case \in Cases /\ case.settings # {}
    BY FollowupAssumption DEF Init
<1> DEFINE c == CHOOSE s \in case.settings : TRUE
<1>2. c \in case.settings /\ objects = [o \in Slots |-> NewQueue(c)]
    BY <1>1 DEF Init
<1> HIDE DEF c
<1>3. NewQueue(c) \in Queues /\ DrainOK(NewQueue(c))
    BY <1>1, <1>2, NewQueueFacts
<1>4. registry \in 0..MaxQueues
    BY Numbers DEF Init
<1>5. callback \in BOOLEAN
    BY ZenonT(30) DEF Init
<1> QED BY <1>2, <1>3, <1>4, <1>5 DEF QueuesOK

LEMMA InitType == Init => TypeOK
<1> SUFFICES ASSUME Init PROVE TypeOK
    OBVIOUS
<1>1. mainActive \in BOOLEAN /\ shifted \in BOOLEAN
    BY ZenonT(30) DEF Init
<1>2. RestOK
    BY <1>1, Numbers DEF Init, RestOK
<1> QED BY <1>2, InitQueues, TypeParts

\* Types: every object is a well-formed queue, its settings are among those in
\* use, and a drain that is not at work holds no batch (types.ts, state.ts).
THEOREM TypeCorrect == Spec => []TypeOK
<1>1. TypeOK /\ [Next]_vars => TypeOK'
    BY QueuesStep, RestStep, TypeParts, TypePartsNext DEF RestOK
<1> QED BY <1>1, InitType, PTL DEF Spec

-----------------------------------------------------------------------------
(* Routing.                                                                  *)

OneTarget(batch) ==
    Len(batch) > 1 => \A i \in 1..Len(batch) :
        TargetOf[batch[i]] # "cross" /\ TargetOf[batch[i]] = TargetOf[batch[1]]

LEMMA OneTargetInEach == RoutingPreserved <=> \A o \in Slots : OneTarget(objects[o].batch)
    BY DEF RoutingPreserved, OneTarget

\* hasCrossChannelItems is right: items it does not find mixed have one target.
LEMMA UnmixedItems ==
    ASSUME NEW items \in Seq(Messages), ~CrossChannel(items)
    PROVE  OneTarget(items)
<1> DEFINE targets == {TargetOf[items[i]] : i \in 1..Len(items)}
           keys    == targets \ {"unkeyed", "cross"}
           f       == [i \in 1..Len(items) |-> TargetOf[items[i]]]
<1>1. /\ "cross" \notin targets /\ ~(Cardinality(keys) > 1)
      /\ keys = {} \/ "unkeyed" \notin targets
    BY DEF CrossChannel
<1>2. IsFiniteSet(keys) /\ Cardinality(keys) \in Nat
    <2>1. Len(items) \in Int /\ IsFiniteSet(1..Len(items))
        BY FS_Interval
    <2>2. f \in Surjection(1..Len(items), targets)
        BY DEF Surjection
    <2> HIDE DEF f, targets
    <2>3. IsFiniteSet(targets)
        BY <2>1, <2>2, FS_Surjection
    <2>4. keys \in SUBSET targets
        OBVIOUS
    <2>5. IsFiniteSet(keys)
        BY <2>3, <2>4, FS_Subset
    <2> QED BY <2>5, FS_CardinalityType
<1>3. Cardinality(keys) = 0 \/ Cardinality(keys) = 1
    BY <1>1, <1>2
<1>4. \A i \in 1..Len(items) : TargetOf[items[i]] \in targets
    OBVIOUS
<1> HIDE DEF targets
<1>5. \E x : targets \subseteq {x}
    <2>1. CASE keys = {}
        <3>1. targets \subseteq {"unkeyed"}
            BY <1>1, <2>1
        <3> QED BY <3>1
    <2>2. CASE keys # {}
        <3>1. Cardinality(keys) = 1
            BY <1>2, <1>3, <2>2, FS_EmptySet
        <3>2. PICK x : keys = {x}
            BY <1>2, <3>1, FS_Singleton
        <3>3. targets \subseteq {x}
            BY <1>1, <2>2, <3>2
        <3> QED BY <3>3
    <2> QED BY <2>1, <2>2
<1>6. ASSUME NEW i \in 1..Len(items), Len(items) > 1
      PROVE  TargetOf[items[i]] # "cross" /\ TargetOf[items[i]] = TargetOf[items[1]]
    <2>1. 1 \in 1..Len(items)
        BY <1>6
    <2> QED BY <1>1, <1>4, <1>5, <2>1
<1> QED BY <1>6 DEF OneTarget

LEMMA NoItemsUnmixed ==
    ASSUME NEW items, items = <<>>
    PROVE  ~CrossChannel(items)
<1> DEFINE targets == {TargetOf[items[i]] : i \in 1..Len(items)}
           keys    == targets \ {"unkeyed", "cross"}
<1>1. 1..Len(items) = {}
    BY Empty
<1>2. targets = {} /\ keys = {}
    BY <1>1
<1>3. "cross" \notin targets /\ ~(keys # {} /\ "unkeyed" \in targets)
    BY <1>2
<1>4. Cardinality(keys) = 0
    BY <1>2, FS_EmptySet
<1>5. ~(Cardinality(keys) > 1)
    <2> HIDE DEF keys
    <2> QED BY <1>4
<1> QED BY <1>3, <1>5 DEF CrossChannel

\* A drain between the check and the snapshot has seen the items as they are.
RouteOK(q) ==
    /\ q.phase = "checked" => ~CrossChannel(q.items)
    /\ OneTarget(q.batch)

RoutingInvariant == QueuesOK /\ case \in Cases /\ \A o \in Slots : RouteOK(objects[o])

LEMMA ShortBatch ==
    ASSUME NEW b, Len(b) = 0 \/ Len(b) = 1
    PROVE  OneTarget(b)
<1> DEFINE n == Len(b)
<1>1. n \in Nat /\ (n = 0 \/ n = 1)
    OBVIOUS
<1> HIDE DEF n
<1>2. ~(n > 1)
    BY <1>1
<1> QED BY <1>2 DEF OneTarget, n

LEMMA MovedRouteOK ==
    ASSUME NEW p \in Queues, NEW q \in Queues, Moved(p, q), RouteOK(p)
    PROVE  RouteOK(q)
<1>1. CASE Kept(p, q)
    BY <1>1 DEF Kept, SameContent, RouteOK
<1>2. CASE Rested(p, q) \/ Checked(p, q)
    <2>1. OneTarget(q.batch)
        BY <1>2, Empty, ShortBatch DEF Rested, Checked, NoTurn
    <2> QED BY <1>2, <2>1 DEF Rested, Checked, SameContent, RouteOK
<1>3. CASE TurnsOne(p, q)
    <2>1. Len(q.batch) = 1
        BY <1>3 DEF TurnsOne
    <2> QED BY <1>3, <2>1, ShortBatch DEF TurnsOne, RouteOK
<1>4. CASE TurnsAll(p, q)
    <2>1. OneTarget(p.items)
        BY <1>4, QueueFields, UnmixedItems DEF TurnsAll, RouteOK
    <2> QED BY <1>4, <2>1 DEF TurnsAll, RouteOK
<1>5. CASE TurnsSummary(p, q)
    <2>1. OneTarget(q.batch)
        BY <1>5, Empty, ShortBatch DEF TurnsSummary
    <2> QED BY <1>5, <2>1 DEF TurnsSummary, RouteOK
<1> QED BY <1>1, <1>2, <1>3, <1>4, <1>5 DEF Moved

LEMMA RoutingStep ==
    ASSUME ~EnqueueInGap, RoutingInvariant, [Next]_vars
    PROVE  RoutingInvariant'
<1> USE DEF RoutingInvariant
<1>1. QueuesOK' /\ case' \in Cases
    BY CaseStays
<1>2. \A o \in Slots : objects[o] \in Queues /\ objects'[o] \in Queues
    BY <1>1 DEF QueuesOK
<1>3. ASSUME NEW p \in Slots, Kept(objects[p], objects'[p])
      PROVE  RouteOK(objects'[p])
    BY <1>2, <1>3, MovedRouteOK DEF Moved
<1>4. CASE Outside
    BY <1>1, <1>4 DEF Outside, queueVars
<1>5. ASSUME NEW o \in Slots, QuietDrain(o)
      PROVE  \A p \in Slots : RouteOK(objects'[p])
    BY <1>2, <1>3, <1>5, MovedRouteOK DEF QuietDrain, Drains
<1>6. ASSUME NEW o \in Slots, FinishTurn(o)
      PROVE  \A p \in Slots : RouteOK(objects'[p])
    <2>1. /\ Finished(objects[o], objects'[o])
          /\ \A p \in Slots : p # o => Kept(objects[p], objects'[p])
        BY <1>6, FinishTurnShape
    <2>2. OneTarget(objects'[o].batch)
        BY <2>1, Empty, ShortBatch DEF Finished, NoTurn
    <2>3. RouteOK(objects'[o])
        BY <2>1, <2>2 DEF Finished, RouteOK
    <2> QED BY <1>3, <2>1, <2>3
<1>7. ASSUME ClearSessionQueues, NEW p \in Slots
      PROVE  RouteOK(objects'[p])
    <2>1. CASE objects'[p] = objects[p]
        BY <2>1
    <2>2. CASE objects'[p] # objects[p]
        <3>1. objects'[p].items = <<>> /\ objects'[p].batch = objects[p].batch
            BY <1>7, <2>2, ClearedObject DEF SameTurn
        <3> QED BY <3>1, NoItemsUnmixed DEF RouteOK
    <2> QED BY <2>1, <2>2
<1>8. ASSUME NEW m \in Messages, NEW s \in case.settings, MayEnqueue(m)
      PROVE  /\ ObjectFor(s) \in Queues /\ ObjectFor(s).batch = objects[SlotFor].batch
             /\ ObjectFor(s).phase # "checked"
    <2>1. registry # 0 \/ FreeSlots # {}
        BY <1>8 DEF MayEnqueue
    <2>2. SlotFor \in Slots /\ \A p \in Slots : objects[p].phase # "checked"
        BY <1>8, <2>1, SlotForFacts DEF MayEnqueue
    <2> QED BY <2>1, <2>2, ObjectForFacts
<1>9. ASSUME NEW m \in Messages, NEW s \in case.settings, Enqueue(m, s)
      PROVE  \A p \in Slots : RouteOK(objects'[p])
    <2> DEFINE q == ObjectFor(s)
    <2>1. MayEnqueue(m)
        BY <1>9 DEF Enqueue
    <2>2. q \in Queues /\ q.batch = objects[SlotFor].batch /\ q.phase # "checked"
        BY <1>8, <2>1
    <2>3. /\ Queued(Room(q).queue, objects'[SlotFor], m)
          /\ \A p \in Slots : p # SlotFor => Kept(objects[p], objects'[p])
        BY <1>9, EnqueueShape
    <2>4. SameTurn(q, Room(q).queue)
        BY <2>2, RoomFacts DEF Shortened
    <2>5. SlotFor \in Slots
        BY <2>1, SlotForFacts DEF MayEnqueue
    <2> HIDE DEF q
    <2>6. RouteOK(objects'[SlotFor])
        BY <2>2, <2>3, <2>4, <2>5 DEF Queued, SameTurn, RouteOK
    <2> QED BY <1>3, <2>3, <2>6
<1>10. ASSUME NEW m \in Messages, NEW s \in case.settings, EnqueueSkipped(m, s)
       PROVE  \A p \in Slots : RouteOK(objects'[p])
    <2> DEFINE q == ObjectFor(s)
    <2>1. MayEnqueue(m)
        BY <1>10 DEF EnqueueSkipped
    <2>2. q \in Queues /\ q.batch = objects[SlotFor].batch /\ q.phase # "checked"
        BY <1>8, <2>1
    <2>3. PICK b \in BOOLEAN : objects' = [objects EXCEPT ![SlotFor] = [q EXCEPT !.lastRun = b]]
        BY <1>10, EnqueueSkippedShape
    <2>4. SlotFor \in Slots
        BY <2>1, SlotForFacts DEF MayEnqueue
    <2> DEFINE n == [q EXCEPT !.lastRun = b]
    <2>5. n.phase = q.phase /\ n.batch = q.batch
        BY <2>2 DEF Queues
    <2> HIDE DEF q, n
    <2>6. RouteOK(n)
        BY <2>2, <2>4, <2>5 DEF RouteOK
    <2>7. objects' = [objects EXCEPT ![SlotFor] = n]
        BY <2>3 DEF n
    <2>8. \A p \in Slots : objects'[p] = IF p = SlotFor THEN n ELSE objects[p]
        BY <2>4, <2>7 DEF QueuesOK
    <2> QED BY <2>6, <2>8
<1>11. \A p \in Slots : RouteOK(objects'[p])
    BY <1>4, <1>5, <1>6, <1>7, <1>9, <1>10, StepKinds DEF Outside, queueVars
<1> QED BY <1>1, <1>11 DEF RouteOK

\* A turn never mixes chats, accounts or threads (hasCrossChannelItems and the
\* collect branch of scheduleFollowupDrain, drain.ts), provided no message is
\* queued in the microtasks between the check and the snapshot: whatever the
\* retries, overflows, clears and overlapping drains do meanwhile.
THEOREM TurnsHaveOneTarget == ~EnqueueInGap /\ Spec => []RoutingPreserved
<1> SUFFICES ASSUME ~EnqueueInGap PROVE Spec => []RoutingPreserved
    OBVIOUS
<1>1. Init => RoutingInvariant
    <2> SUFFICES ASSUME Init PROVE RoutingInvariant
        OBVIOUS
    <2>1. PICK s \in case.settings : \A o \in Slots : objects[o] = NewQueue(s)
        BY InitQueues
    <2>2. NewQueue(s).phase = "idle" /\ NewQueue(s).batch = <<>>
        BY DEF NewQueue
    <2>3. OneTarget(<<>>)
        BY Empty, ShortBatch
    <2>4. \A o \in Slots : RouteOK(objects[o])
        BY <2>1, <2>2, <2>3 DEF RouteOK
    <2> QED BY <2>4, InitQueues DEF RoutingInvariant, Init
<1>2. RoutingInvariant /\ [Next]_vars => RoutingInvariant'
    BY RoutingStep
<1>3. RoutingInvariant => RoutingPreserved
    BY OneTargetInEach DEF RoutingInvariant, RouteOK
<1> QED BY <1>1, <1>2, <1>3, PTL DEF Spec

-----------------------------------------------------------------------------
(* Nothing vanishes.                                                         *)

HeldBy(q) == Range1(q.items) \cup Range1(q.summaryLines)

LEMMA HeldSomewhere == \A m : m \in Held <=> \E o \in Slots : m \in HeldBy(objects[o])
    BY DEF Held, HeldBy

LEMMA HeldSomewhereNext == \A m : m \in Held' <=> \E o \in Slots : m \in HeldBy(objects'[o])
    BY DEF Held, HeldBy

\* Summary lines are counted as dropped.
Counted(q) == q.summaryLines # <<>> => q.dropped > 0

\* What a running turn will take off the queue is what it shows.
TakesWhatItShows(q) ==
    /\ \A i \in 1..Len(q.items) : i <= q.take => q.items[i] \in Range1(q.batch)
    /\ q.preview # <<>> => Range1(q.summaryLines) \subseteq Range1(q.preview)

TakesNoMore(q) == q.take <= Len(q.items)

\* In followup mode the turn that carries the overflow summary takes an item
\* it does not show: the settings in use do not ask for that.
NoSummaryTurns == \A s \in Settings : s.mode = "followup" => s.dropPolicy # "summarize"

VanishInvariant ==
    /\ QueuesOK /\ case \in Cases
    /\ \A o \in Slots : Counted(objects[o])
    /\ ~shifted => /\ \A o \in Slots : TakesWhatItShows(objects[o])
                   /\ registry # 0 => TakesNoMore(objects[registry])
                   /\ recent \subseteq Held \cup shown \cup discarded

LEMMA NoSummaryTurn ==
    ASSUME NoSummaryTurns, NEW p \in Queues, NEW q
    PROVE  ~TurnsSummary(p, q)
<1>1. p.settings \in Settings
    BY QueueFields
<1>2. p.settings.mode = "followup" \/ p.settings.mode = "collect"
    BY <1>1, FollowupAssumption
<1> QED BY <1>1, <1>2, PreviewLines DEF NoSummaryTurns, TurnsSummary

LEMMA MovedTakes ==
    ASSUME NoSummaryTurns, NEW p \in Queues, NEW q \in Queues, Moved(p, q)
    PROVE  /\ HeldBy(q) = HeldBy(p)
           /\ Counted(p) => Counted(q)
           /\ TakesWhatItShows(p) => TakesWhatItShows(q)
           /\ TakesNoMore(p) => TakesNoMore(q)
<1>1. SameContent(p, q)
    BY DEF Moved, Kept, Rested, Checked, TurnsOne, TurnsAll, TurnsSummary
<1>2. HeldBy(q) = HeldBy(p) /\ (Counted(p) => Counted(q))
    BY <1>1 DEF SameContent, HeldBy, Counted
<1>3. CASE Kept(p, q)
    BY <1>2, <1>3 DEF Kept, SameContent, TakesWhatItShows, TakesNoMore
<1>4. CASE Rested(p, q) \/ Checked(p, q)
    <2>1. q.take = 0 /\ q.preview = <<>> /\ Len(q.items) \in Nat
        BY <1>4, QueueFields DEF Rested, Checked, NoTurn
    <2> QED BY <1>2, <2>1 DEF TakesWhatItShows, TakesNoMore
<1>5. CASE TurnsOne(p, q)
    <2>1. /\ p.items \in Seq(Messages) /\ Len(p.items) > 0 /\ Len(p.items) \in Nat
          /\ Head(p.items) = p.items[1]
        BY <1>5, QueueFields, Ranges DEF TurnsOne
    <2>2. q.items = p.items /\ q.batch = <<Head(p.items)>> /\ q.preview = <<>> /\ q.take = 1
        BY <1>5 DEF TurnsOne, SameContent
    <2>3. p.items[1] \in Range1(q.batch)
        BY <2>1, <2>2 DEF Range1
    <2> QED BY <1>2, <2>1, <2>2, <2>3 DEF TakesWhatItShows, TakesNoMore
<1>6. CASE TurnsAll(p, q)
    <2>1. /\ q.items = p.items /\ q.batch = p.items /\ q.take = Len(p.items)
          /\ q.preview = Preview(p) /\ q.summaryLines = p.summaryLines
        BY <1>6 DEF TurnsAll, SameContent
    <2>2. \A i \in 1..Len(p.items) : p.items[i] \in Range1(p.items)
        BY DEF Range1
    <2>3. Len(p.items) \in Nat
        BY QueueFields
    <2> QED BY <1>2, <2>1, <2>2, <2>3, PreviewLines DEF TakesWhatItShows, TakesNoMore
<1>7. ~TurnsSummary(p, q)
    BY NoSummaryTurn
<1> QED BY <1>3, <1>4, <1>5, <1>6, <1>7 DEF Moved

LEMMA FinishedTakes ==
    ASSUME NEW p \in Queues, NEW q \in Queues, Finished(p, q)
    PROVE  /\ Counted(p) => Counted(q)
           /\ TakesWhatItShows(p) => HeldBy(p) \subseteq HeldBy(q) \cup Range1(p.batch) \cup Range1(p.preview)
           /\ TakesWhatItShows(q) /\ TakesNoMore(q)
<1>1. q.take = 0 /\ q.preview = <<>> /\ Len(q.items) \in Nat
    BY QueueFields DEF Finished, NoTurn
<1>2. Counted(p) => Counted(q)
    BY DEF Finished, Counted
<1>3. p.items \in Seq(Messages) /\ p.take \in Nat /\ Len(p.items) \in Nat
    BY QueueFields
<1>4. \A i \in 1..Len(p.items) : i > p.take => p.items[i] \in Range1(q.items)
    BY <1>3, RemoveFacts DEF Finished, Taken
<1>5. ASSUME TakesWhatItShows(p)
      PROVE  Range1(p.items) \subseteq Range1(q.items) \cup Range1(p.batch)
    <2>1. ASSUME NEW i \in 1..Len(p.items)
          PROVE  p.items[i] \in Range1(q.items) \cup Range1(p.batch)
        <3>1. i <= p.take \/ i > p.take
            BY <1>3
        <3> QED BY <1>4, <1>5, <3>1 DEF TakesWhatItShows
    <2>2. \A x \in Range1(p.items) : \E i \in 1..Len(p.items) : x = p.items[i]
        BY DEF Range1
    <2> QED BY <2>1, <2>2
<1>6. ASSUME TakesWhatItShows(p)
      PROVE  Range1(p.summaryLines) \subseteq Range1(q.summaryLines) \cup Range1(p.preview)
    BY <1>6 DEF Finished, TakesWhatItShows
<1>7. TakesWhatItShows(q) /\ TakesNoMore(q)
    BY <1>1 DEF TakesWhatItShows, TakesNoMore
<1> QED BY <1>2, <1>5, <1>6, <1>7 DEF HeldBy

\* What queueing does, for the object q it queues to, v with room, n after it.
LEMMA QueuedTakes ==
    ASSUME NEW q \in Queues, NEW n \in Queues, NEW m \in Messages,
           Queued(Room(q).queue, n, m), Counted(q)
    PROVE  /\ Counted(n) /\ m \in HeldBy(n)
           /\ HeldBy(q) \subseteq HeldBy(n) \cup Room(q).lost
           /\ ~Full(q) /\ TakesNoMore(q) /\ TakesWhatItShows(q) => TakesWhatItShows(n) /\ TakesNoMore(n)
           /\ q.take = 0 /\ q.preview = <<>> => TakesWhatItShows(n) /\ TakesNoMore(n)
<1> DEFINE v == Room(q).queue
<1>1. PICK k \in 0..Len(q.items) : Shortened(q, v, k, Room(q).lost)
    BY RoomFacts
<1>2. ~Full(q) => v = q
    BY RoomFacts
<1> HIDE DEF v
<1>3. /\ v \in Queues /\ SameTurn(q, v)
      /\ HeldBy(q) \subseteq HeldBy(v) \cup Room(q).lost
      /\ v.summaryLines # <<>> => v.dropped > 0 \/ (v.dropped = q.dropped /\ v.summaryLines = q.summaryLines)
    BY <1>1 DEF Shortened, HeldBy
<1>4. /\ n.items = Append(v.items, m) /\ n.summaryLines = v.summaryLines /\ n.dropped = v.dropped
      /\ n.batch = v.batch /\ n.preview = v.preview /\ n.take = v.take
    BY DEF Queued, v
<1>5. v.items \in Seq(Messages) /\ Len(v.items) \in Nat
    BY <1>3, QueueFields
<1>6. /\ Range1(n.items) = Range1(v.items) \cup {m} /\ Len(n.items) = Len(v.items) + 1
      /\ \A i \in 1..Len(v.items) : n.items[i] = v.items[i]
    BY <1>4, <1>5, AppendFacts
<1>7. Counted(n)
    BY <1>3, <1>4 DEF Counted
<1>8. m \in HeldBy(n) /\ HeldBy(q) \subseteq HeldBy(n) \cup Room(q).lost
    BY <1>3, <1>4, <1>6 DEF HeldBy
<1>9. ASSUME ~Full(q), TakesNoMore(q), TakesWhatItShows(q)
      PROVE  TakesWhatItShows(n) /\ TakesNoMore(n)
    <2>1. /\ v = q /\ q.take \in Nat /\ q.take <= Len(q.items)
        BY <1>2, <1>9, QueueFields DEF TakesNoMore
    <2>2. ASSUME NEW i \in 1..Len(n.items), i <= n.take
          PROVE  n.items[i] \in Range1(n.batch)
        <3>1. i \in 1..Len(q.items) /\ i <= q.take /\ n.items[i] = q.items[i]
            BY <1>4, <1>5, <1>6, <2>1, <2>2
        <3> QED BY <1>4, <1>9, <2>1, <3>1 DEF TakesWhatItShows
    <2>3. n.take <= Len(n.items)
        BY <1>4, <1>5, <1>6, <2>1
    <2> QED BY <1>4, <1>9, <2>1, <2>2, <2>3 DEF TakesWhatItShows, TakesNoMore
<1>10. ASSUME q.take = 0, q.preview = <<>>
       PROVE  TakesWhatItShows(n) /\ TakesNoMore(n)
    <2>1. n.take = 0 /\ n.preview = <<>> /\ Len(n.items) \in Nat
        BY <1>3, <1>4, <1>5, <1>6, <1>10 DEF SameTurn
    <2> QED BY <2>1 DEF TakesWhatItShows, TakesNoMore
<1> QED BY <1>7, <1>8, <1>9, <1>10

\* getFollowupQueue keeps what the object holds and what its drain is doing.
LEMMA ObjectForKeeps ==
    ASSUME QueuesOK, case \in Cases, NEW s \in case.settings, registry # 0 \/ FreeSlots # {},
           Counted(objects[SlotFor])
    PROVE  LET q == ObjectFor(s)
               p == objects[SlotFor]
           IN  /\ q \in Queues /\ q.items = p.items /\ q.dropped = p.dropped
               /\ q.summaryLines = p.summaryLines /\ q.phase = p.phase
               /\ q.batch = p.batch /\ q.preview = p.preview /\ q.take = p.take
               /\ q.phase = "turn" \/ (q.take = 0 /\ q.preview = <<>>)
               /\ registry = 0 => q.take = 0 /\ q.preview = <<>>
<1> DEFINE q == ObjectFor(s)
           p == objects[SlotFor]
<1>1. /\ q \in Queues /\ DrainOK(q)
      /\ q.items = p.items /\ q.dropped = p.dropped /\ q.phase = p.phase
      /\ q.batch = p.batch /\ q.preview = p.preview /\ q.take = p.take
      /\ q.summaryLines = p.summaryLines \/ (q.summaryLines = <<>> /\ q.dropped = 0)
    BY ObjectForFacts
<1>2. registry = 0 => p.phase = "idle"
    BY SlotForFacts DEF FreeSlots
<1> HIDE DEF q
<1>3. q.summaryLines = p.summaryLines
    BY <1>1 DEF Counted
<1> QED BY <1>1, <1>2, <1>3 DEF DrainOK, NoTurn, q

LEMMA KeptIsMoved ==
    ASSUME NEW p, NEW q, Kept(p, q)
    PROVE  Moved(p, q)
    BY DEF Moved

\* Each kind of step, for the invariant's queue part and for what is held.
VanishParts ==
    /\ \A o \in Slots : Counted(objects[o])
    /\ ~shifted => /\ \A o \in Slots : TakesWhatItShows(objects[o])
                   /\ registry # 0 => TakesNoMore(objects[registry])
                   /\ recent \subseteq Held \cup shown \cup discarded

LEMMA VanishMoves ==
    ASSUME NoSummaryTurns, VanishInvariant, QueuesOK',
           \A o \in Slots : Moved(objects[o], objects'[o]),
           registry' \in {0, registry},
           UNCHANGED <<shifted, recent, shown, discarded>>
    PROVE  VanishParts'
<1> USE DEF VanishInvariant
<1>1. \A o \in Slots : objects[o] \in Queues /\ objects'[o] \in Queues
    BY DEF QueuesOK
<1>2. \A o \in Slots :
        /\ HeldBy(objects'[o]) = HeldBy(objects[o]) /\ Counted(objects'[o])
        /\ TakesWhatItShows(objects[o]) => TakesWhatItShows(objects'[o])
        /\ TakesNoMore(objects[o]) => TakesNoMore(objects'[o])
    BY <1>1, MovedTakes
<1>3. registry # 0 => registry \in Slots
    BY Numbers DEF QueuesOK, Slots
<1>4. \A o \in Slots : HeldBy(objects'[o]) = HeldBy(objects[o])
    BY <1>2
<1>5. ASSUME NEW x
      PROVE  x \in Held' <=> x \in Held
    BY <1>4, HeldSomewhere, HeldSomewhereNext
<1>6. Held' = Held
    BY <1>5
<1> QED BY <1>2, <1>3, <1>6 DEF VanishParts

LEMMA VanishFinish ==
    ASSUME NoSummaryTurns, VanishInvariant, NEW o \in Slots, FinishTurn(o)
    PROVE  VanishParts'
<1> USE DEF VanishInvariant
<1>1. /\ QueuesOK' /\ registry' \in {0, registry} /\ Finished(objects[o], objects'[o])
      /\ \A p \in Slots : p # o => Kept(objects[p], objects'[p])
    BY FinishTurnShape
<1>2. \A p \in Slots : objects[p] \in Queues /\ objects'[p] \in Queues
    BY <1>1 DEF QueuesOK
<1>3. \A p \in Slots : p # o =>
        /\ HeldBy(objects'[p]) = HeldBy(objects[p]) /\ Counted(objects'[p])
        /\ TakesWhatItShows(objects[p]) => TakesWhatItShows(objects'[p])
        /\ TakesNoMore(objects[p]) => TakesNoMore(objects'[p])
    BY <1>1, <1>2, KeptIsMoved, MovedTakes
<1>4. /\ Counted(objects'[o]) /\ TakesWhatItShows(objects'[o]) /\ TakesNoMore(objects'[o])
      /\ TakesWhatItShows(objects[o]) => HeldBy(objects[o]) \subseteq
             HeldBy(objects'[o]) \cup Range1(objects[o].batch) \cup Range1(objects[o].preview)
    BY <1>1, <1>2, FinishedTakes
<1>5. /\ shown' = shown \cup Range1(objects[o].batch) \cup Range1(objects[o].preview)
      /\ UNCHANGED <<shifted, recent, discarded>>
    BY DEF FinishTurn, DrainStep
<1>6. registry # 0 => registry \in Slots
    BY Numbers DEF QueuesOK, Slots
<1>7. ASSUME ~shifted
      PROVE  recent' \subseteq (Held \cup shown \cup discarded)'
    <2>1. ASSUME NEW m \in Held
          PROVE  m \in Held' \cup shown'
        <3>1. PICK p \in Slots : m \in HeldBy(objects[p])
            BY HeldSomewhere
        <3>2. CASE p = o
            BY <1>4, <1>5, <1>7, <3>1, <3>2, HeldSomewhereNext
        <3>3. CASE p # o
            BY <1>3, <3>1, <3>3, HeldSomewhereNext
        <3> QED BY <3>2, <3>3
    <2> QED BY <1>5, <1>7, <2>1
<1> QED BY <1>1, <1>3, <1>4, <1>5, <1>6, <1>7 DEF VanishParts

LEMMA VanishClear ==
    ASSUME VanishInvariant, ClearSessionQueues
    PROVE  VanishParts'
<1> USE DEF VanishInvariant
<1>1. QueuesOK' /\ registry' = 0 /\ UNCHANGED <<shifted, recent, shown>>
    BY ClearShape DEF ClearSessionQueues
<1>2. discarded \subseteq discarded'
    BY ClearShape
<1>3. ASSUME NEW o \in Slots
      PROVE  /\ Counted(objects'[o])
             /\ TakesWhatItShows(objects[o]) => TakesWhatItShows(objects'[o])
             /\ HeldBy(objects[o]) \subseteq HeldBy(objects'[o]) \cup discarded'
    <2>1. CASE objects'[o] = objects[o]
        BY <2>1
    <2>2. CASE objects'[o] # objects[o]
        <3>1. /\ objects'[o].items = <<>> /\ objects'[o].summaryLines = <<>>
              /\ SameTurn(objects[o], objects'[o])
              /\ discarded' = discarded \cup Range1(objects[o].items) \cup Range1(objects[o].summaryLines)
            BY <2>2, ClearedObject
        <3>2. Len(objects'[o].items) = 0 /\ Range1(objects'[o].summaryLines) = {}
            BY <3>1, Empty
        <3>3. 1..Len(objects'[o].items) = {}
            BY <3>2
        <3>4. TakesWhatItShows(objects'[o])
            BY <3>2, <3>3 DEF TakesWhatItShows
        <3> QED BY <3>1, <3>4 DEF Counted, HeldBy
    <2> QED BY <2>1, <2>2
<1>4. Held \subseteq Held' \cup discarded'
    BY <1>3, HeldSomewhere, HeldSomewhereNext
<1> QED BY <1>1, <1>2, <1>3, <1>4 DEF VanishParts

LEMMA VanishEnqueue ==
    ASSUME NoSummaryTurns, VanishInvariant, NEW m \in Messages, NEW s \in case.settings, Enqueue(m, s)
    PROVE  VanishParts'
<1> USE DEF VanishInvariant
<1> DEFINE q == ObjectFor(s)
           o == SlotFor
<1>1. registry # 0 \/ FreeSlots # {}
    BY DEF Enqueue, MayEnqueue
<1>2. o \in Slots /\ (registry # 0 => o = registry)
    BY <1>1, SlotForFacts
<1>3. /\ q \in Queues /\ q.items = objects[o].items /\ q.dropped = objects[o].dropped
      /\ q.summaryLines = objects[o].summaryLines /\ q.phase = objects[o].phase
      /\ q.batch = objects[o].batch /\ q.preview = objects[o].preview /\ q.take = objects[o].take
      /\ q.phase = "turn" \/ (q.take = 0 /\ q.preview = <<>>)
      /\ registry = 0 => q.take = 0 /\ q.preview = <<>>
    BY <1>1, <1>2, ObjectForKeeps
<1>4. /\ QueuesOK' /\ registry' \in {0, o} /\ Queued(Room(q).queue, objects'[o], m)
      /\ \A p \in Slots : p # o => Kept(objects[p], objects'[p])
      /\ discarded' = (discarded \cup Room(q).lost) \ {m}
      /\ shifted' = (shifted \/ (Full(q) /\ q.phase = "turn"))
    BY EnqueueShape
<1>5. shown' = shown \ {m} /\ recent' = recent \cup {m}
    BY DEF Enqueue
<1> HIDE DEF q, o
<1>6. \A p \in Slots : objects[p] \in Queues /\ objects'[p] \in Queues
    BY <1>4 DEF QueuesOK
<1>7. \A p \in Slots : p # o =>
        /\ HeldBy(objects'[p]) = HeldBy(objects[p]) /\ Counted(objects'[p])
        /\ TakesWhatItShows(objects[p]) => TakesWhatItShows(objects'[p])
    BY <1>4, <1>6, KeptIsMoved, MovedTakes
<1>8. Counted(q) /\ HeldBy(q) = HeldBy(objects[o])
    BY <1>2, <1>3 DEF Counted, HeldBy
<1>9. /\ Counted(objects'[o]) /\ m \in HeldBy(objects'[o])
      /\ HeldBy(q) \subseteq HeldBy(objects'[o]) \cup Room(q).lost
      /\ ~Full(q) /\ TakesNoMore(q) /\ TakesWhatItShows(q)
             => TakesWhatItShows(objects'[o]) /\ TakesNoMore(objects'[o])
      /\ q.take = 0 /\ q.preview = <<>>
             => TakesWhatItShows(objects'[o]) /\ TakesNoMore(objects'[o])
    BY <1>2, <1>3, <1>4, <1>6, <1>8, QueuedTakes
<1>10. ASSUME ~shifted'
       PROVE  /\ ~shifted
              /\ TakesWhatItShows(objects'[o]) /\ TakesNoMore(objects'[o])
    <2>1. ~shifted /\ ~(Full(q) /\ q.phase = "turn")
        BY <1>4, <1>10
    <2>2. CASE q.take = 0 /\ q.preview = <<>>
        BY <1>9, <2>1, <2>2
    <2>3. CASE ~(q.take = 0 /\ q.preview = <<>>)
        <3>1. q.phase = "turn" /\ registry # 0
            BY <1>3, <2>3
        <3>2. TakesNoMore(q) /\ TakesWhatItShows(q)
            BY <1>2, <1>3, <2>1, <3>1 DEF TakesNoMore, TakesWhatItShows
        <3> QED BY <1>9, <2>1, <3>1, <3>2
    <2> QED BY <2>2, <2>3
<1>11. m \in Held'
    BY <1>2, <1>9, HeldSomewhereNext
<1>12. ASSUME NEW x \in Held
       PROVE  x \in Held' \cup Room(q).lost
    <2>1. PICK p \in Slots : x \in HeldBy(objects[p])
        BY HeldSomewhere
    <2>2. CASE p = o
        BY <1>2, <1>8, <1>9, <2>1, <2>2, HeldSomewhereNext
    <2>3. CASE p # o
        BY <1>7, <2>1, <2>3, HeldSomewhereNext
    <2> QED BY <2>2, <2>3
<1>13. ASSUME ~shifted
       PROVE  recent' \subseteq Held' \cup shown' \cup discarded'
    BY <1>4, <1>5, <1>11, <1>12, <1>13
<1>14. \A p \in Slots : Counted(objects'[p])
    BY <1>7, <1>9
<1> QED BY <1>2, <1>4, <1>7, <1>10, <1>13, <1>14 DEF VanishParts

LEMMA VanishSkipped ==
    ASSUME VanishInvariant, NEW m \in Messages, NEW s \in case.settings, EnqueueSkipped(m, s)
    PROVE  VanishParts'
<1> USE DEF VanishInvariant
<1> DEFINE q == ObjectFor(s)
           o == SlotFor
<1>1. registry # 0 \/ FreeSlots # {}
    BY DEF EnqueueSkipped, MayEnqueue
<1>2. o \in Slots /\ (registry # 0 => o = registry)
    BY <1>1, SlotForFacts
<1>3. /\ q \in Queues /\ q.items = objects[o].items /\ q.dropped = objects[o].dropped
      /\ q.summaryLines = objects[o].summaryLines
      /\ q.batch = objects[o].batch /\ q.preview = objects[o].preview /\ q.take = objects[o].take
      /\ registry = 0 => q.take = 0 /\ q.preview = <<>>
    BY <1>1, <1>2, ObjectForKeeps
<1>4. /\ QueuesOK' /\ registry' = o
      /\ \E b \in BOOLEAN : objects' = [objects EXCEPT ![o] = [q EXCEPT !.lastRun = b]]
    BY EnqueueSkippedShape
<1>5. UNCHANGED <<shifted, recent, shown, discarded>>
    BY DEF EnqueueSkipped
<1> HIDE DEF q, o
<1>6. PICK b \in BOOLEAN : objects' = [objects EXCEPT ![o] = [q EXCEPT !.lastRun = b]]
    BY <1>4
<1> DEFINE n == [q EXCEPT !.lastRun = b]
<1>7. /\ n.items = q.items /\ n.dropped = q.dropped /\ n.summaryLines = q.summaryLines
      /\ n.batch = q.batch /\ n.preview = q.preview /\ n.take = q.take
    BY <1>3 DEF Queues
<1> HIDE DEF n
<1>8. objects'[o] = n /\ \A p \in Slots : p # o => objects'[p] = objects[p]
    BY <1>2, <1>6 DEF QueuesOK, n
<1>9. /\ Counted(n) /\ HeldBy(n) = HeldBy(objects[o])
      /\ TakesWhatItShows(objects[o]) => TakesWhatItShows(n)
      /\ TakesNoMore(objects[o]) => TakesNoMore(n)
    BY <1>2, <1>3, <1>7 DEF Counted, HeldBy, TakesWhatItShows, TakesNoMore
<1>10. registry = 0 => TakesNoMore(n)
    <2>1. Len(n.items) \in Nat
        BY <1>3, <1>7, QueueFields
    <2> QED BY <1>3, <1>7, <2>1 DEF TakesNoMore
<1>11. Held' = Held
    BY <1>8, <1>9, HeldSomewhere, HeldSomewhereNext
<1> QED BY <1>2, <1>4, <1>5, <1>8, <1>9, <1>10, <1>11 DEF VanishParts

LEMMA VanishStep ==
    ASSUME NoSummaryTurns, VanishInvariant, [Next]_vars
    PROVE  VanishInvariant'
<1> USE DEF VanishInvariant
<1>1. QueuesOK' /\ case' \in Cases
    BY CaseStays
<1>2. CASE Outside
    <2>1. UNCHANGED <<shifted, objects, registry, shown, discarded>> /\ recent' \subseteq recent
        BY <1>2 DEF Outside, queueVars, Arrive, RecentExpires
    <2>2. Held' = Held
        BY <2>1 DEF Held
    <2> QED BY <1>1, <2>1, <2>2
<1>3. ASSUME NEW o \in Slots, QuietDrain(o)
      PROVE  VanishParts'
    <2>1. \A p \in Slots : Moved(objects[p], objects'[p])
        BY <1>3, KeptIsMoved DEF QuietDrain, Drains
    <2> QED BY <1>1, <1>3, <2>1, VanishMoves DEF QuietDrain, Drains
<1>4. (\E o \in Slots : QuietDrain(o)) \/ (\E o \in Slots : FinishTurn(o)) \/ ClearSessionQueues
      \/ (\E m \in Messages, s \in case.settings : Enqueue(m, s) \/ EnqueueSkipped(m, s))
      => VanishParts'
    BY <1>3, VanishFinish, VanishClear, VanishEnqueue, VanishSkipped
<1>5. VanishParts' => VanishInvariant'
    BY <1>1 DEF VanishParts
<1> QED BY <1>2, <1>4, <1>5, StepKinds

\* Unless an overflow moves the items under a running turn, and with settings
\* in use that do not ask for summary turns in followup mode, no message that
\* was accepted vanishes: it is held, shown by a completed turn, or discarded
\* by the drop policy or a clear (drain.ts, enqueue.ts, queue-helpers.ts).
THEOREM AcceptedStays == NoSummaryTurns /\ Spec => []NothingVanishes
<1> SUFFICES ASSUME NoSummaryTurns PROVE Spec => []NothingVanishes
    OBVIOUS
<1>1. Init => VanishInvariant
    <2> SUFFICES ASSUME Init PROVE VanishInvariant
        OBVIOUS
    <2>1. PICK s \in case.settings : \A o \in Slots : objects[o] = NewQueue(s)
        BY InitQueues
    <2> DEFINE q == NewQueue(s)
    <2>2. q.items = <<>> /\ q.summaryLines = <<>> /\ q.preview = <<>> /\ q.take = 0
        BY DEF NewQueue
    <2>3. 1..Len(<<>>) = {}
        BY Empty
    <2> HIDE DEF q
    <2>4. Counted(q) /\ TakesWhatItShows(q)
        BY <2>2, <2>3 DEF Counted, TakesWhatItShows
    <2>5. \A o \in Slots : Counted(objects[o]) /\ TakesWhatItShows(objects[o])
        BY <2>1, <2>4 DEF q
    <2>6. recent = {} /\ registry = 0 /\ case \in Cases
        BY DEF Init
    <2> QED BY <2>5, <2>6, InitQueues DEF VanishInvariant
<1>2. VanishInvariant /\ [Next]_vars => VanishInvariant'
    BY VanishStep
<1>3. VanishInvariant => NothingVanishes
    BY DEF VanishInvariant, NothingVanishes
<1> QED BY <1>1, <1>2, <1>3, PTL DEF Spec

-----------------------------------------------------------------------------
(* Nothing is answered twice.                                                *)

Everything(q) == HeldBy(q) \cup Range1(q.batch) \cup Range1(q.preview)

\* Within one object: no item twice, the items beyond those a turn will take
\* are not in its batch, and no item is a summary line.
ItemsOnce(q) ==
    /\ \A i, k \in 1..Len(q.items) : q.items[i] = q.items[k] => i = k
    /\ \A i \in 1..Len(q.items) : i > q.take => q.items[i] \notin Range1(q.batch)
    /\ (Range1(q.summaryLines) \cup Range1(q.preview)) \cap Range1(q.items) = {}

\* The messages that will not be queued again: enqueueFollowupRun has their
\* ids, or the channel will not deliver them any more.
Known == {m \in Messages : m \in recent \/ (deliveries[m] = MaxDeliveries /\ m \notin inbound)}

OnceParts ==
    /\ \A o \in Slots : /\ ItemsOnce(objects[o])
                        /\ Range1(objects[o].items) \cap shown = {}
                        /\ Everything(objects[o]) \subseteq Known
    /\ \A o, p \in Slots : o # p => Everything(objects[o]) \cap Range1(objects[p].items) = {}
    /\ shown \subseteq Known

OnceInvariant == QueuesOK /\ RestOK /\ OnceParts

\* The id of a message is forgotten only after its last delivery.
ForgottenInTime ==
    \A m \in Messages : RecentExpires(m) => deliveries[m] = MaxDeliveries /\ m \notin inbound

\* q has nothing p does not have, and keeps its items in order.
Less(p, q) ==
    /\ Range1(q.items) \subseteq Range1(p.items) /\ Everything(q) \subseteq Everything(p)
    /\ ItemsOnce(q)

\* A turn that begins shows items of the queue.
Shows(p, q) == q.phase = "turn" /\ p.phase # "turn" => Range1(q.batch) \subseteq Range1(p.items)

LEMMA LessTurn ==
    ASSUME NEW p, NEW q, ItemsOnce(p), SameContent(p, q),
           Range1(q.batch) \subseteq Range1(p.items) \cup Range1(p.batch),
           Range1(q.preview) \subseteq Range1(p.summaryLines) \cup Range1(p.preview),
           \A i \in 1..Len(p.items) : i > q.take => p.items[i] \notin Range1(q.batch)
    PROVE  Less(p, q)
    BY DEF SameContent, ItemsOnce, Less, Everything, HeldBy

LEMMA MovedLess ==
    ASSUME NEW p \in Queues, NEW q \in Queues, Moved(p, q), ItemsOnce(p)
    PROVE  Less(p, q) /\ Shows(p, q)
<1>1. CASE Kept(p, q)
    BY <1>1, LessTurn DEF Kept, ItemsOnce, Shows
<1>2. CASE Rested(p, q) \/ Checked(p, q)
    <2>1. Range1(q.batch) = {} /\ Range1(q.preview) = {} /\ SameContent(p, q) /\ q.phase # "turn"
        BY <1>2, Empty DEF Rested, Checked, NoTurn
    <2> QED BY <2>1, LessTurn DEF Shows
<1>3. CASE TurnsOne(p, q)
    <2>1. /\ p.items \in Seq(Messages) /\ p.items # <<>> /\ q.batch = <<Head(p.items)>>
          /\ q.take = 1 /\ SameContent(p, q) /\ q.preview = <<>>
        BY <1>3, QueueFields DEF TurnsOne
    <2>2. Head(p.items) = p.items[1] /\ p.items[1] \in Range1(p.items) /\ 1 \in 1..Len(p.items)
        BY <2>1, Ranges
    <2>3. Range1(q.batch) = {p.items[1]}
        BY <2>1, <2>2 DEF Range1
    <2>4. Range1(q.preview) = {}
        BY <2>1, Empty
    <2>5. \A i \in 1..Len(p.items) : i > q.take => p.items[i] \notin Range1(q.batch)
        BY <2>1, <2>2, <2>3 DEF ItemsOnce
    <2> QED BY <2>1, <2>2, <2>3, <2>4, <2>5, LessTurn DEF Shows
<1>4. CASE TurnsAll(p, q)
    <2>1. /\ q.batch = p.items /\ q.preview = Preview(p) /\ q.take = Len(p.items)
          /\ SameContent(p, q) /\ Len(p.items) \in Nat
        BY <1>4, QueueFields DEF TurnsAll
    <2>2. Range1(q.preview) \subseteq Range1(p.summaryLines)
        BY <2>1, PreviewLines
    <2>3. \A i \in 1..Len(p.items) : ~(i > q.take)
        BY <2>1
    <2> QED BY <2>1, <2>2, <2>3, LessTurn DEF Shows
<1>5. CASE TurnsSummary(p, q)
    <2>1. q.batch = <<>> /\ q.preview = Preview(p) /\ SameContent(p, q)
        BY <1>5 DEF TurnsSummary
    <2>2. Range1(q.batch) = {} /\ Range1(q.preview) \subseteq Range1(p.summaryLines)
        BY <2>1, Empty, PreviewLines
    <2> QED BY <2>1, <2>2, LessTurn DEF Shows
<1> QED BY <1>1, <1>2, <1>3, <1>4, <1>5 DEF Moved

\* Items removed from the front leave the others once.
LEMMA RemoveOnce ==
    ASSUME NEW s \in Seq(Messages), NEW n \in Nat,
           \A i, k \in 1..Len(s) : s[i] = s[k] => i = k
    PROVE  /\ \A i, k \in 1..Len(Remove(s, n)) : Remove(s, n)[i] = Remove(s, n)[k] => i = k
           /\ \A i \in 1..Len(s) : i <= n => s[i] \notin Range1(Remove(s, n))
<1> DEFINE t == Remove(s, n)
<1>1. \A i \in 1..Len(t) : i + n \in 1..Len(s) /\ t[i] = s[i + n]
    BY RemoveFacts
<1>2. \A x \in Range1(t) : \E i \in 1..Len(t) : x = t[i]
    BY DEF Range1
<1>3. Len(t) \in Nat
    BY RemoveFacts
<1> HIDE DEF t
<1>4. ASSUME NEW i \in 1..Len(t), NEW k \in 1..Len(t), t[i] = t[k]
      PROVE  i = k
    <2>1. i + n = k + n
        BY <1>1, <1>4
    <2> QED BY <1>3, <2>1
<1>5. ASSUME NEW i \in 1..Len(s), i <= n, s[i] \in Range1(t)
      PROVE  FALSE
    <2>1. PICK k \in 1..Len(t) : s[i] = t[k]
        BY <1>2, <1>5
    <2>2. i = k + n
        BY <1>1, <2>1
    <2> QED BY <1>3, <1>5, <2>2
<1> QED BY <1>4, <1>5 DEF t

LEMMA FinishedLess ==
    ASSUME NEW p \in Queues, NEW q \in Queues, Finished(p, q), ItemsOnce(p)
    PROVE  /\ Less(p, q) /\ Shows(p, q)
           /\ Range1(q.items) \cap (Range1(p.batch) \cup Range1(p.preview)) = {}
<1>1. p.items \in Seq(Messages) /\ p.take \in Nat /\ q.items = Remove(p.items, p.take)
    BY QueueFields DEF Finished, Taken
<1>2. /\ Range1(q.items) \subseteq Range1(p.items) /\ Len(q.items) \in Nat
      /\ \A i \in 1..Len(q.items) : i + p.take \in 1..Len(p.items) /\ q.items[i] = p.items[i + p.take]
    BY <1>1, RemoveFacts
<1>3. \A i, k \in 1..Len(q.items) : q.items[i] = q.items[k] => i = k
    BY <1>1, RemoveOnce DEF ItemsOnce
<1>4. Range1(q.batch) = {} /\ Range1(q.preview) = {} /\ q.phase # "turn"
    BY Empty DEF Finished, NoTurn
<1>5. Range1(q.summaryLines) \subseteq Range1(p.summaryLines)
    BY Empty DEF Finished
<1>6. ASSUME NEW i \in 1..Len(q.items)
      PROVE  q.items[i] \notin Range1(p.batch)
    <2>1. i + p.take > p.take
        BY <1>1, <1>2
    <2> QED BY <1>2, <2>1 DEF ItemsOnce
<1>7. Range1(q.items) \cap Range1(p.batch) = {}
    BY <1>6 DEF Range1
<1>8. Less(p, q)
    BY <1>2, <1>3, <1>4, <1>5 DEF Less, ItemsOnce, Everything, HeldBy
<1> QED BY <1>2, <1>4, <1>7, <1>8 DEF ItemsOnce, Shows

LEMMA ShortenedLess ==
    ASSUME NEW p \in Queues, NEW q, NEW n \in 0..Len(p.items), NEW lost,
           Shortened(p, q, n, lost), ItemsOnce(p)
    PROVE  Less(p, q)
<1>1. /\ p.items \in Seq(Messages) /\ n \in Nat /\ q.items = Remove(p.items, n) /\ SameTurn(p, q)
      /\ Len(p.items) \in Nat /\ p.take \in Nat
    BY QueueFields DEF Shortened
<1>2. /\ Range1(q.items) \subseteq Range1(p.items) /\ Len(q.items) \in Nat
      /\ \A i \in 1..Len(q.items) : i + n \in 1..Len(p.items) /\ q.items[i] = p.items[i + n]
    BY <1>1, RemoveFacts
<1>3. /\ \A i, k \in 1..Len(q.items) : q.items[i] = q.items[k] => i = k
      /\ \A i \in 1..Len(p.items) : i <= n => p.items[i] \notin Range1(q.items)
    BY <1>1, RemoveOnce DEF ItemsOnce
<1>4. /\ Range1(SubSeq(p.items, 1, n)) \subseteq Range1(p.items)
      /\ Range1(SubSeq(p.items, 1, n)) \cap Range1(q.items) = {}
    <2>1. /\ Len(SubSeq(p.items, 1, n)) = n
          /\ \A i \in 1..n : SubSeq(p.items, 1, n)[i] = p.items[i] /\ i \in 1..Len(p.items)
          /\ Range1(SubSeq(p.items, 1, n)) \subseteq Range1(p.items)
        BY <1>1, PrefixFacts
    <2>2. \A x \in Range1(SubSeq(p.items, 1, n)) : \E i \in 1..n : x = p.items[i]
        BY <2>1 DEF Range1
    <2> QED BY <1>1, <1>3, <2>1, <2>2
<1>5. Range1(q.summaryLines) \subseteq Range1(p.summaryLines) \cup Range1(SubSeq(p.items, 1, n))
    BY DEF Shortened
<1>6. ASSUME NEW i \in 1..Len(q.items), i > q.take
      PROVE  q.items[i] \notin Range1(q.batch)
    <2>1. i + n \in 1..Len(p.items) /\ i + n > p.take /\ q.items[i] = p.items[i + n]
        BY <1>1, <1>2, <1>6 DEF SameTurn
    <2> QED BY <1>1, <2>1 DEF ItemsOnce, SameTurn
<1>7. (Range1(q.summaryLines) \cup Range1(q.preview)) \cap Range1(q.items) = {}
    BY <1>1, <1>2, <1>4, <1>5 DEF ItemsOnce, SameTurn
<1>8. Everything(q) \subseteq Everything(p)
    BY <1>1, <1>2, <1>4, <1>5 DEF Everything, HeldBy, SameTurn
<1> QED BY <1>2, <1>3, <1>6, <1>7, <1>8 DEF Less, ItemsOnce

LEMMA QueuedOnce ==
    ASSUME NEW v \in Queues, NEW n \in Queues, NEW m \in Messages, Queued(v, n, m),
           ItemsOnce(v), m \notin Everything(v)
    PROVE  /\ ItemsOnce(n) /\ Everything(n) = Everything(v) \cup {m}
           /\ Range1(n.items) = Range1(v.items) \cup {m}
<1>1. /\ v.items \in Seq(Messages) /\ n.items = Append(v.items, m) /\ n.take = v.take
      /\ n.batch = v.batch /\ n.preview = v.preview /\ n.summaryLines = v.summaryLines
      /\ Len(v.items) \in Nat
    BY QueueFields DEF Queued
<1>2. /\ Len(n.items) = Len(v.items) + 1 /\ n.items[Len(v.items) + 1] = m
      /\ \A i \in 1..Len(v.items) : n.items[i] = v.items[i]
      /\ Range1(n.items) = Range1(v.items) \cup {m}
    BY <1>1, AppendFacts
<1>3. \A i \in 1..Len(n.items) : i \in 1..Len(v.items) \/ i = Len(v.items) + 1
    BY <1>1, <1>2
<1>4. \A i \in 1..Len(v.items) : v.items[i] # m
    BY DEF Everything, HeldBy, Range1
<1>5. \A i, k \in 1..Len(n.items) : n.items[i] = n.items[k] => i = k
    BY <1>2, <1>3, <1>4 DEF ItemsOnce
<1>6. \A i \in 1..Len(n.items) : i > n.take => n.items[i] \notin Range1(n.batch)
    BY <1>1, <1>2, <1>3 DEF ItemsOnce, Everything
<1>7. (Range1(n.summaryLines) \cup Range1(n.preview)) \cap Range1(n.items) = {}
    BY <1>1, <1>2 DEF ItemsOnce, Everything, HeldBy
<1>8. Everything(n) = Everything(v) \cup {m}
    BY <1>1, <1>2 DEF Everything, HeldBy
<1> QED BY <1>2, <1>5, <1>6, <1>7, <1>8 DEF ItemsOnce

\* A step in which every object loses messages at most.
LEMMA OnceLess ==
    ASSUME OnceInvariant, \A o \in Slots : Less(objects[o], objects'[o]),
           Known \subseteq Known', shown' \subseteq shown
    PROVE  OnceParts'
<1>1. \A o \in Slots : ItemsOnce(objects'[o])
    BY DEF Less
<1>2. \A o \in Slots : Range1(objects'[o].items) \cap shown' = {}
    BY DEF Less, OnceInvariant, OnceParts
<1>3. \A o \in Slots : Everything(objects'[o]) \subseteq Known'
    BY DEF Less, OnceInvariant, OnceParts
<1>4. \A o, p \in Slots : o # p => Everything(objects'[o]) \cap Range1(objects'[p].items) = {}
    BY DEF Less, OnceInvariant, OnceParts
<1>5. shown' \subseteq Known'
    BY DEF OnceInvariant, OnceParts
<1> QED BY <1>1, <1>2, <1>3, <1>4, <1>5 DEF OnceParts

TurnsShow == \A o \in Slots : Shows(objects[o], objects'[o])

LEMMA SameLess ==
    ASSUME NEW p, ItemsOnce(p)
    PROVE  Less(p, p) /\ Shows(p, p)
    BY DEF Less, Shows

LEMMA OnceQuiet ==
    ASSUME OnceInvariant, NEW o \in Slots, QuietDrain(o)
    PROVE  OnceParts' /\ TurnsShow
<1>1. ASSUME NEW p \in Slots
      PROVE  Less(objects[p], objects'[p]) /\ Shows(objects[p], objects'[p])
    <2>1. Moved(objects[p], objects'[p])
        BY KeptIsMoved DEF QuietDrain, Drains
    <2>2. objects[p] \in Queues /\ objects'[p] \in Queues /\ ItemsOnce(objects[p])
        BY DEF QuietDrain, OnceInvariant, OnceParts, QueuesOK
    <2> QED BY <2>1, <2>2, MovedLess
<1>2. Known' = Known /\ shown' = shown
    BY DEF QuietDrain, Known
<1> QED BY <1>1, <1>2, OnceLess DEF TurnsShow

LEMMA OnceFinish ==
    ASSUME OnceInvariant, NEW o \in Slots, FinishTurn(o)
    PROVE  OnceParts' /\ TurnsShow
<1>1. /\ QueuesOK' /\ Finished(objects[o], objects'[o])
      /\ \A p \in Slots : p # o => Kept(objects[p], objects'[p])
    BY FinishTurnShape DEF OnceInvariant
<1>2. \A p \in Slots : objects[p] \in Queues /\ objects'[p] \in Queues /\ ItemsOnce(objects[p])
    BY <1>1 DEF OnceInvariant, OnceParts, QueuesOK
<1>3. ASSUME NEW p \in Slots
      PROVE  /\ Less(objects[p], objects'[p]) /\ Shows(objects[p], objects'[p])
             /\ Range1(objects'[p].items)
                    \cap (Range1(objects[o].batch) \cup Range1(objects[o].preview)) = {}
    <2>1. CASE p = o
        BY <1>1, <1>2, <2>1, FinishedLess
    <2>2. CASE p # o
        <3>1. Less(objects[p], objects'[p]) /\ Shows(objects[p], objects'[p])
            BY <1>1, <1>2, <2>2, KeptIsMoved, MovedLess
        <3>2. Everything(objects[o]) \cap Range1(objects[p].items) = {}
            BY <2>2 DEF OnceInvariant, OnceParts
        <3> QED BY <3>1, <3>2 DEF Less, Everything
    <2> QED BY <2>1, <2>2
<1>4. /\ shown' = shown \cup Range1(objects[o].batch) \cup Range1(objects[o].preview)
      /\ Known' = Known
    BY DEF FinishTurn, DrainStep, Known
<1>5. \A p \in Slots : ItemsOnce(objects'[p])
    BY <1>3 DEF Less
<1>6. \A p \in Slots : Range1(objects'[p].items) \cap shown' = {}
    BY <1>3, <1>4 DEF Less, OnceInvariant, OnceParts
<1>7. \A p \in Slots : Everything(objects'[p]) \subseteq Known'
    BY <1>3, <1>4 DEF Less, OnceInvariant, OnceParts
<1>8. \A x, p \in Slots : x # p => Everything(objects'[x]) \cap Range1(objects'[p].items) = {}
    BY <1>3 DEF Less, OnceInvariant, OnceParts
<1>9. shown' \subseteq Known'
    <2>1. Range1(objects[o].batch) \cup Range1(objects[o].preview) \subseteq Known
        BY DEF OnceInvariant, OnceParts, Everything
    <2> QED BY <1>4, <2>1 DEF OnceInvariant, OnceParts
<1> QED BY <1>3, <1>5, <1>6, <1>7, <1>8, <1>9 DEF OnceParts, TurnsShow

LEMMA OnceClear ==
    ASSUME OnceInvariant, ClearSessionQueues
    PROVE  OnceParts' /\ TurnsShow
<1>1. ASSUME NEW p \in Slots
      PROVE  Less(objects[p], objects'[p]) /\ Shows(objects[p], objects'[p])
    <2>1. ItemsOnce(objects[p])
        BY DEF OnceInvariant, OnceParts
    <2>2. CASE objects'[p] = objects[p]
        BY <2>1, <2>2, SameLess
    <2>3. CASE objects'[p] # objects[p]
        <3>1. /\ objects'[p].items = <<>> /\ objects'[p].summaryLines = <<>>
              /\ SameTurn(objects[p], objects'[p])
            BY <2>3, ClearedObject DEF OnceInvariant
        <3>2. /\ Range1(objects'[p].items) = {} /\ Range1(objects'[p].summaryLines) = {}
              /\ 1..Len(objects'[p].items) = {}
            BY <3>1, Empty
        <3> QED BY <3>1, <3>2 DEF Less, Shows, ItemsOnce, Everything, HeldBy, SameTurn
    <2> QED BY <2>2, <2>3
<1>2. Known' = Known /\ shown' = shown
    BY DEF ClearSessionQueues, Known
<1> QED BY <1>1, <1>2, OnceLess DEF TurnsShow

LEMMA OnceSkipped ==
    ASSUME OnceInvariant, NEW m \in Messages, NEW s \in case.settings, EnqueueSkipped(m, s)
    PROVE  OnceParts' /\ TurnsShow
<1> DEFINE q == ObjectFor(s)
           o == SlotFor
<1>1. /\ (registry # 0 \/ FreeSlots # {}) /\ QueuesOK /\ case \in Cases
      /\ inbound' = inbound \ {m} /\ UNCHANGED <<recent, shown, deliveries>>
    BY DEF EnqueueSkipped, MayEnqueue, OnceInvariant, RestOK
<1>2. o \in Slots
    BY <1>1, SlotForFacts
<1>3. /\ q \in Queues /\ q.items = objects[o].items /\ q.phase = objects[o].phase
      /\ q.batch = objects[o].batch /\ q.preview = objects[o].preview /\ q.take = objects[o].take
      /\ q.summaryLines = objects[o].summaryLines \/ q.summaryLines = <<>>
    BY <1>1, ObjectForFacts
<1>4. \E b \in BOOLEAN : objects' = [objects EXCEPT ![o] = [q EXCEPT !.lastRun = b]]
    BY <1>1, EnqueueSkippedShape
<1> HIDE DEF q, o
<1>5. PICK b \in BOOLEAN : objects' = [objects EXCEPT ![o] = [q EXCEPT !.lastRun = b]]
    BY <1>4
<1> DEFINE n == [q EXCEPT !.lastRun = b]
<1>6. /\ n.items = q.items /\ n.summaryLines = q.summaryLines /\ n.phase = q.phase
      /\ n.batch = q.batch /\ n.preview = q.preview /\ n.take = q.take
    BY <1>3 DEF Queues
<1> HIDE DEF n
<1>7. objects'[o] = n /\ \A p \in Slots : p # o => objects'[p] = objects[p]
    BY <1>1, <1>2, <1>5 DEF QueuesOK, n
<1>8. Range1(n.summaryLines) \subseteq Range1(objects[o].summaryLines)
    BY <1>3, <1>6, Empty
<1>9. ItemsOnce(objects[o])
    BY <1>2 DEF OnceInvariant, OnceParts
<1>10. Less(objects[o], n) /\ Shows(objects[o], n)
    BY <1>3, <1>6, <1>8, <1>9 DEF Less, Shows, ItemsOnce, Everything, HeldBy
<1>11. \A p \in Slots : Less(objects[p], objects'[p]) /\ Shows(objects[p], objects'[p])
    BY <1>7, <1>10, SameLess DEF OnceInvariant, OnceParts
<1>12. Known \subseteq Known'
    BY <1>1 DEF Known
<1> QED BY <1>1, <1>11, <1>12, OnceLess DEF TurnsShow

LEMMA OnceEnqueue ==
    ASSUME OnceInvariant, NEW m \in Messages, NEW s \in case.settings, Enqueue(m, s)
    PROVE  OnceParts' /\ TurnsShow
<1> DEFINE q == ObjectFor(s)
           o == SlotFor
           v == Room(q).queue
<1>1. /\ (registry # 0 \/ FreeSlots # {}) /\ QueuesOK /\ case \in Cases /\ m \in inbound
      /\ m \notin recent
      /\ inbound' = inbound \ {m} /\ recent' = recent \cup {m} /\ shown' = shown \ {m}
      /\ deliveries' = deliveries
    BY DEF Enqueue, MayEnqueue, AlreadyQueued, OnceInvariant, RestOK
<1>2. o \in Slots
    BY <1>1, SlotForFacts
<1>3. /\ q \in Queues /\ q.items = objects[o].items /\ q.phase = objects[o].phase
      /\ q.batch = objects[o].batch /\ q.preview = objects[o].preview /\ q.take = objects[o].take
      /\ q.summaryLines = objects[o].summaryLines \/ q.summaryLines = <<>>
    BY <1>1, ObjectForFacts
<1>4. /\ QueuesOK' /\ Queued(v, objects'[o], m)
      /\ \A p \in Slots : p # o => Kept(objects[p], objects'[p])
    BY <1>1, EnqueueShape
<1> HIDE DEF q, o
<1>5. PICK k \in 0..Len(q.items) : Shortened(q, v, k, Room(q).lost)
    BY <1>3, RoomFacts
<1> HIDE DEF v
<1>6. Range1(q.summaryLines) \subseteq Range1(objects[o].summaryLines)
    BY <1>3, Empty
<1>7. ItemsOnce(objects[o])
    BY <1>2 DEF OnceInvariant, OnceParts
<1>8. Less(objects[o], q)
    BY <1>3, <1>6, <1>7 DEF Less, ItemsOnce, Everything, HeldBy
<1>9. Less(q, v) /\ v \in Queues /\ SameTurn(q, v)
    BY <1>3, <1>5, <1>8, ShortenedLess DEF Less, Shortened
<1>10. /\ Range1(v.items) \subseteq Range1(objects[o].items)
       /\ Everything(v) \subseteq Everything(objects[o]) /\ ItemsOnce(v)
    BY <1>8, <1>9 DEF Less
<1>11. m \notin Known
    BY <1>1 DEF Known
<1>12. /\ m \notin shown /\ \A p \in Slots : m \notin Everything(objects[p])
    BY <1>11 DEF OnceInvariant, OnceParts
<1>13. \A p \in Slots : objects[p] \in Queues /\ objects'[p] \in Queues /\ ItemsOnce(objects[p])
    BY <1>1, <1>4 DEF OnceInvariant, OnceParts, QueuesOK
<1>14. /\ ItemsOnce(objects'[o]) /\ Everything(objects'[o]) = Everything(v) \cup {m}
       /\ Range1(objects'[o].items) = Range1(v.items) \cup {m}
    BY <1>2, <1>4, <1>9, <1>10, <1>12, <1>13, QueuedOnce
<1>15. \A p \in Slots : p # o => Less(objects[p], objects'[p]) /\ Shows(objects[p], objects'[p])
    BY <1>4, <1>13, KeptIsMoved, MovedLess
<1>16. Known \cup {m} \subseteq Known'
    BY <1>1 DEF Known
<1>17. \A p \in Slots : /\ Range1(objects'[p].items) \subseteq Range1(objects[p].items) \cup {m}
                        /\ Everything(objects'[p]) \subseteq Everything(objects[p]) \cup {m}
                        /\ p # o => /\ Range1(objects'[p].items) \subseteq Range1(objects[p].items)
                                    /\ Everything(objects'[p]) \subseteq Everything(objects[p])
    BY <1>10, <1>14, <1>15 DEF Less
<1>18. \A p \in Slots : ItemsOnce(objects'[p])
    BY <1>14, <1>15 DEF Less
<1>19. \A p \in Slots : Range1(objects'[p].items) \cap shown' = {}
    BY <1>1, <1>17 DEF OnceInvariant, OnceParts
<1>20. \A p \in Slots : Everything(objects'[p]) \subseteq Known'
    BY <1>16, <1>17 DEF OnceInvariant, OnceParts
<1>21. ASSUME NEW x \in Slots, NEW p \in Slots, x # p
       PROVE  Everything(objects'[x]) \cap Range1(objects'[p].items) = {}
    <2>1. Everything(objects[x]) \cap Range1(objects[p].items) = {}
        BY <1>21 DEF OnceInvariant, OnceParts
    <2>2. m \notin Everything(objects[x]) /\ m \notin Range1(objects[p].items)
        BY <1>12 DEF Everything, HeldBy
    <2>3. ~(m \in Everything(objects'[x]) /\ m \in Range1(objects'[p].items))
        BY <1>17, <1>21, <2>2
    <2> QED BY <1>17, <2>1, <2>3
<1>22. shown' \subseteq Known'
    BY <1>1, <1>16 DEF OnceInvariant, OnceParts
<1>23. Shows(objects[o], objects'[o])
    BY <1>3, <1>4, <1>9 DEF Queued, SameTurn, Shows
<1> QED BY <1>15, <1>18, <1>19, <1>20, <1>21, <1>22, <1>23 DEF OnceParts, TurnsShow

LEMMA OnceOutside ==
    ASSUME OnceInvariant, Outside, ForgottenInTime
    PROVE  OnceParts' /\ TurnsShow
<1>1. objects' = objects /\ shown' = shown
    BY DEF Outside, queueVars
<1>2. Known \subseteq Known'
    <2>1. CASE UNCHANGED <<inbound, deliveries, recent>>
        BY <2>1 DEF Known
    <2>2. ASSUME NEW m \in Messages, Arrive(m)
          PROVE  Known \subseteq Known'
        <3>1. /\ deliveries[m] < MaxDeliveries /\ recent' = recent /\ inbound' = inbound \cup {m}
              /\ deliveries[m] \in Nat /\ MaxDeliveries \in Nat
              /\ \A x \in Messages : x # m => deliveries'[x] = deliveries[x]
            BY <2>2, Numbers DEF Arrive, OnceInvariant, RestOK
        <3>2. deliveries[m] # MaxDeliveries
            BY <3>1
        <3> QED BY <3>1, <3>2 DEF Known
    <2>3. ASSUME NEW m \in Messages, RecentExpires(m)
          PROVE  Known \subseteq Known'
        <3>1. deliveries[m] = MaxDeliveries /\ m \notin inbound
            BY <2>3 DEF ForgottenInTime
        <3>2. recent' = recent \ {m} /\ UNCHANGED <<inbound, deliveries>>
            BY <2>3 DEF RecentExpires
        <3> QED BY <3>1, <3>2 DEF Known
    <2> QED BY <2>1, <2>2, <2>3 DEF Outside
<1>3. \A o \in Slots : Less(objects[o], objects'[o]) /\ Shows(objects[o], objects'[o])
    BY <1>1, SameLess DEF OnceInvariant, OnceParts
<1> QED BY <1>1, <1>2, <1>3, OnceLess DEF TurnsShow

LEMMA OnceStep ==
    ASSUME OnceInvariant, [Next]_vars, [ForgottenInTime]_vars
    PROVE  OnceInvariant' /\ TurnsShow
<1>1. QueuesOK' /\ RestOK'
    BY QueuesStep, RestStep DEF OnceInvariant, RestOK
<1>2. ForgottenInTime
    <2>1. CASE UNCHANGED vars
        <3>1. recent' = recent
            BY <2>1 DEF vars
        <3>2. \A m \in Messages : RecentExpires(m) => recent' # recent
            BY DEF RecentExpires
        <3> QED BY <3>1, <3>2 DEF ForgottenInTime
    <2> QED BY <2>1
<1>3. OnceParts' /\ TurnsShow
    BY <1>2, OnceOutside, OnceQuiet, OnceFinish, OnceClear, OnceEnqueue, OnceSkipped, StepKinds
       DEF OnceInvariant, RestOK
<1> QED BY <1>1, <1>3 DEF OnceInvariant

LEMMA InitOnce == Init => OnceInvariant
<1> SUFFICES ASSUME Init PROVE OnceInvariant
    OBVIOUS
<1>1. PICK s \in case.settings : \A o \in Slots : objects[o] = NewQueue(s)
    BY InitQueues
<1> DEFINE q == NewQueue(s)
<1>2. q.items = <<>> /\ q.summaryLines = <<>> /\ q.preview = <<>> /\ q.batch = <<>>
    BY DEF NewQueue
<1> HIDE DEF q
<1>3. /\ 1..Len(q.items) = {} /\ Range1(q.items) = {} /\ Range1(q.summaryLines) = {}
      /\ Range1(q.batch) = {} /\ Range1(q.preview) = {}
    BY <1>2, Empty
<1>4. ItemsOnce(q) /\ Everything(q) = {}
    BY <1>3 DEF ItemsOnce, Everything, HeldBy
<1>5. \A o \in Slots : objects[o] = q
    BY <1>1 DEF q
<1>6. shown = {}
    BY DEF Init
<1>7. OnceParts
    BY <1>3, <1>4, <1>5, <1>6 DEF OnceParts
<1>8. QueuesOK /\ RestOK
    BY InitType, TypeParts
<1> QED BY <1>7, <1>8 DEF OnceInvariant

\* No turn shows the agent an item a completed turn has shown (the drain loop
\* of drain.ts, its retries and overlapping drains, enqueueFollowupRun), as
\* long as the id of a message is not forgotten before its last redelivery.
THEOREM ShownItemsStayShown == Spec /\ [][ForgottenInTime]_vars => AnsweredOnce
<1>1. Init => OnceInvariant
    BY InitOnce
<1>2. OnceInvariant /\ [Next]_vars /\ [ForgottenInTime]_vars => OnceInvariant'
    BY OnceStep
<1>3. OnceInvariant /\ [Next]_vars /\ [ForgottenInTime]_vars
      => [\A o \in Slots : objects'[o].phase = "turn" /\ objects[o].phase # "turn"
              => Range1(objects'[o].batch) \cap shown = {}]_vars
    BY OnceStep DEF TurnsShow, Shows, OnceInvariant, OnceParts
<1> QED BY <1>1, <1>2, <1>3, PTL DEF Spec, AnsweredOnce

\* With one delivery of each message, no message whose id is known is in flight.
DeliveredOnce ==
    /\ RestOK
    /\ \A m \in Messages : /\ m \in recent \cup inbound => deliveries[m] = 1
                           /\ m \in recent => m \notin inbound

LEMMA DeliveredOnceStep ==
    ASSUME MaxDeliveries <= 1, QueuesOK, DeliveredOnce, [Next]_vars
    PROVE  DeliveredOnce' /\ ForgottenInTime
<1>1. RestOK'
    BY RestStep DEF DeliveredOnce
<1>2. \A m \in Messages : deliveries[m] \in 0..MaxDeliveries
    BY DEF DeliveredOnce, RestOK
<1>3. ForgottenInTime
    <2>1. ASSUME NEW m \in Messages, RecentExpires(m)
          PROVE  deliveries[m] = MaxDeliveries /\ m \notin inbound
        <3>1. m \in recent /\ deliveries[m] = 1 /\ m \notin inbound
            BY <2>1 DEF RecentExpires, DeliveredOnce
        <3> QED BY <1>2, <3>1, Numbers
    <2> QED BY <2>1 DEF ForgottenInTime
<1>4. ASSUME NEW m \in Messages, Arrive(m)
      PROVE  DeliveredOnce'
    <2>1. /\ deliveries[m] < MaxDeliveries /\ deliveries' = [deliveries EXCEPT ![m] = @ + 1]
          /\ recent' = recent /\ inbound' = inbound \cup {m}
        BY <1>4 DEF Arrive
    <2>2. deliveries[m] = 0
        BY <1>2, <2>1, Numbers
    <2>3. deliveries'[m] = 1 /\ \A x \in Messages : x # m => deliveries'[x] = deliveries[x]
        BY <2>1, <2>2 DEF DeliveredOnce, RestOK
    <2> QED BY <1>1, <2>1, <2>2, <2>3 DEF DeliveredOnce
<1>5. ASSUME deliveries' = deliveries, inbound' \subseteq inbound,
             \A x \in recent' : x \in recent \/ (x \in inbound /\ x \notin inbound')
      PROVE  DeliveredOnce'
    BY <1>1, <1>5 DEF DeliveredOnce
<1>6. CASE Outside
    BY <1>3, <1>4, <1>5, <1>6 DEF Outside, RecentExpires, DeliveredOnce
<1>7. ASSUME NEW o \in Slots, QuietDrain(o)
      PROVE  DeliveredOnce'
    BY <1>5, <1>7 DEF QuietDrain
<1>8. ASSUME NEW o \in Slots, FinishTurn(o)
      PROVE  DeliveredOnce'
    BY <1>5, <1>8 DEF FinishTurn, DrainStep
<1>9. CASE ClearSessionQueues
    BY <1>3, <1>5, <1>9 DEF ClearSessionQueues
<1>10. ASSUME NEW m \in Messages, NEW s \in case.settings, Enqueue(m, s) \/ EnqueueSkipped(m, s)
       PROVE  DeliveredOnce'
    <2>1. /\ deliveries' = deliveries /\ m \in inbound /\ inbound' = inbound \ {m}
          /\ recent' \subseteq recent \cup {m}
        BY <1>10 DEF Enqueue, EnqueueSkipped, MayEnqueue
    <2> QED BY <1>5, <2>1
<1>11. DeliveredOnce'
    BY <1>6, <1>7, <1>8, <1>9, <1>10, StepKinds
<1> QED BY <1>3, <1>11

\* In particular when the channel delivers each message once.
THEOREM AnsweredOnceEach == MaxDeliveries <= 1 /\ Spec => AnsweredOnce
<1> SUFFICES ASSUME MaxDeliveries <= 1 PROVE Spec => AnsweredOnce
    OBVIOUS
<1>1. Init => QueuesOK /\ DeliveredOnce
    BY InitType, TypeParts DEF Init, DeliveredOnce
<1>2. QueuesOK /\ DeliveredOnce /\ [Next]_vars => (QueuesOK /\ DeliveredOnce)' /\ ForgottenInTime
    BY DeliveredOnceStep, QueuesStep DEF DeliveredOnce, RestOK
<1>3. QueuesOK /\ DeliveredOnce /\ [Next]_vars => [ForgottenInTime]_vars
    BY <1>2
<1>4. Spec => [][ForgottenInTime]_vars
    BY <1>1, <1>2, <1>3, PTL DEF Spec
<1> QED BY <1>4, ShownItemsStayShown, PTL
=============================================================================
