-------------------------- MODULE AuthRefreshProofs --------------------------
(* Theorems about FileLock, for any finite number of tasks and any           *)
(* processes, and about AuthRefresh, whose calls use that lock, for any      *)
(* number of refreshes.                                                      *)
EXTENDS AuthRefresh, FiniteSetTheorems, TLAPS

-----------------------------------------------------------------------------
(* Who is inside, before and after a task moves.                             *)

LEMMA InsidersFinite ==
    ASSUME NEW p \in Processes
    PROVE  /\ IsFiniteSet(Insiders(p)) /\ IsFiniteSet(Insiders(p)')
           /\ Cardinality(Insiders(p)) \in Nat /\ Cardinality(Insiders(p)') \in Nat
           /\ Cardinality(Insiders(p)) <= Cardinality(Tasks)
           /\ Cardinality(Insiders(p)') <= Cardinality(Tasks)
           /\ Cardinality(Tasks) \in Nat
<1>1. Insiders(p) \in SUBSET Tasks /\ Insiders(p)' \in SUBSET Tasks
    BY DEF Insiders, At
<1>2. IsFiniteSet(Tasks)
    BY FileLockAssumption
<1>3. /\ IsFiniteSet(Insiders(p)) /\ Cardinality(Insiders(p)) <= Cardinality(Tasks)
      /\ IsFiniteSet(Insiders(p)') /\ Cardinality(Insiders(p)') <= Cardinality(Tasks)
    BY <1>1, <1>2, FS_Subset
<1> QED BY <1>2, <1>3, FS_CardinalityType

LEMMA StaysOut ==
    ASSUME step \in [Tasks -> Steps], NEW t \in Tasks, NEW s \in Steps, Move(t, s),
           step[t] # "inside", s # "inside"
    PROVE  \A p \in Processes : Insiders(p)' = Insiders(p)
    BY DEF Move, Insiders, At

LEMMA GoesIn ==
    ASSUME step \in [Tasks -> Steps], NEW t \in Tasks, Move(t, "inside"), step[t] # "inside"
    PROVE  /\ Insiders(ProcessOf[t])' = Insiders(ProcessOf[t]) \cup {t}
           /\ \A p \in Processes : p = ProcessOf[t] =>
                  Cardinality(Insiders(p)') = Cardinality(Insiders(p)) + 1
           /\ \A p \in Processes : p # ProcessOf[t] => Insiders(p)' = Insiders(p)
<1>1. Insiders(ProcessOf[t])' = Insiders(ProcessOf[t]) \cup {t}
    BY DEF Move, Insiders, At, Steps
<1>2. ASSUME NEW p \in Processes, p = ProcessOf[t]
      PROVE  Cardinality(Insiders(p)') = Cardinality(Insiders(p)) + 1
  <2>1. Insiders(p)' = Insiders(p) \cup {t} /\ t \notin Insiders(p)
      BY <1>2 DEF Move, Insiders, At, Steps
  <2> QED BY <2>1, InsidersFinite, FS_AddElement
<1>3. \A p \in Processes : p # ProcessOf[t] => Insiders(p)' = Insiders(p)
    BY DEF Move, Insiders, At
<1> QED BY <1>1, <1>2, <1>3

LEMMA GoesOut ==
    ASSUME step \in [Tasks -> Steps], NEW t \in Tasks, NEW s \in Steps, Move(t, s),
           step[t] = "inside", s # "inside"
    PROVE  /\ Insiders(ProcessOf[t])' = Insiders(ProcessOf[t]) \ {t}
           /\ \A p \in Processes : p = ProcessOf[t] =>
                  Cardinality(Insiders(p)') = Cardinality(Insiders(p)) - 1
           /\ \A p \in Processes : p # ProcessOf[t] => Insiders(p)' = Insiders(p)
<1>1. Insiders(ProcessOf[t])' = Insiders(ProcessOf[t]) \ {t}
    BY DEF Move, Insiders, At
<1>2. ASSUME NEW p \in Processes, p = ProcessOf[t]
      PROVE  Cardinality(Insiders(p)') = Cardinality(Insiders(p)) - 1
  <2>1. Insiders(p)' = Insiders(p) \ {t} /\ t \in Insiders(p)
      BY <1>2 DEF Move, Insiders, At, Steps
  <2> QED BY <2>1, InsidersFinite, FS_RemoveElement
<1>3. \A p \in Processes : p # ProcessOf[t] => Insiders(p)' = Insiders(p)
    BY DEF Move, Insiders, At
<1> QED BY <1>1, <1>2, <1>3

-----------------------------------------------------------------------------
(* The inductive invariant.                                                  *)

\* The count never exceeds the number of tasks inside: a second holder starts
\* again at one.
CountBound == \A p \in Processes : held[p] <= Cardinality(Insiders(p))

\* As long as no lock was taken from a process in possession of it: who has
\* created the file is its author until it has written it, who uses or
\* removes it finds the file of its own process, and a process that removes
\* its file has no other task inside.
Possession ==
    ~robbed =>
        /\ \A t \in At("write") : Mine(t) /\ ~file.written
        /\ \A t \in At("inside") \cup At("unlink") :
              file # NoFile /\ file.written /\ ProcessOf[file.by] = ProcessOf[t]
        /\ \A t \in At("unlink") : At("unlink") = {t} /\ At("inside") = {}
        /\ \A p \in Processes : held[p] = Cardinality(Insiders(p))

LInv == LockTypeOK /\ CountBound /\ Possession

LEMMA LockInitInv == LockInit => LInv
<1> SUFFICES ASSUME LockInit PROVE LInv
    OBVIOUS
<1>1. \A p \in Processes : Insiders(p) = {} /\ Cardinality(Insiders(p)) = 0
    BY FS_EmptySet, FileLockAssumption DEF LockInit, Insiders, At
<1>2. LockTypeOK
  <2>1. Cardinality(Tasks) \in Nat
      BY FileLockAssumption, FS_CardinalityType
  <2>2. 0 \in 0..Cardinality(Tasks)
      BY <2>1
  <2>3. held \in [Processes -> 0..Cardinality(Tasks)]
      BY <2>2 DEF LockInit
  <2> QED BY <2>3 DEF LockInit, LockTypeOK, Steps
<1>3. CountBound
    BY <1>1 DEF LockInit, CountBound
<1>4. Possession
    BY <1>1 DEF LockInit, Possession, At
<1> QED BY <1>2, <1>3, <1>4 DEF LInv

\* Where a process is in possession a removal robs it, so that with nobody
\* robbed nobody writes, uses or removes the file that goes.
LEMMA Unpossessed ==
    ASSUME LInv, ~robbed, ~Possessed
    PROVE  At("write") = {} /\ At("inside") = {} /\ At("unlink") = {}
<1> USE FileLockAssumption DEF LInv
<1>1. At("write") = {} /\ At("unlink") = {}
    BY DEF Possession, Possessed, Mine, At
<1>2. ASSUME NEW t \in At("inside") PROVE FALSE
  <2>1. t \in Insiders(ProcessOf[t]) /\ ProcessOf[t] \in Processes
      BY <1>2 DEF Insiders, At
  <2>2. Cardinality(Insiders(ProcessOf[t])) # 0
      BY <2>1, InsidersFinite, FS_EmptySet
  <2>3. held[ProcessOf[t]] > 0
      BY <2>1, <2>2, InsidersFinite DEF Possession
  <2> QED BY <1>2, <2>3 DEF Possession, Possessed
<1> QED BY <1>1, <1>2

-----------------------------------------------------------------------------
(* Every action keeps the invariant.                                         *)

\* A step on the way to the lock, or away from it without a file to remove.
LEMMA PassingInv ==
    ASSUME LInv, NEW t \in Tasks, NEW s \in {"idle", "open", "inspect", "remove"}, Move(t, s),
           step[t] \in {"idle", "open", "inspect", "remove", "write"},
           UNCHANGED <<file, held, robbed>>, alive' \subseteq Processes
    PROVE  LInv'
<1> USE FileLockAssumption DEF LInv
<1>1. step' \in [Tasks -> Steps] /\ s \in Steps /\ step[t] # "inside"
    BY DEF LockTypeOK, Move, Steps
<1>2. \A p \in Processes : Insiders(p)' = Insiders(p)
    BY <1>1, StaysOut DEF LockTypeOK
<1>3. LockTypeOK'
    BY <1>1 DEF LockTypeOK
<1>4. CountBound'
    BY <1>2 DEF CountBound
<1>5. /\ At("write")' \subseteq At("write")
      /\ At("inside")' = At("inside") /\ At("unlink")' = At("unlink")
    BY <1>1 DEF At, Move, LockTypeOK
<1>6. Possession'
    BY <1>2, <1>5 DEF Possession, Mine
<1> QED BY <1>3, <1>4, <1>6

LEMMA JoinInv == ASSUME LInv, NEW t \in Tasks, Join(t) PROVE LInv'
<1> USE FileLockAssumption DEF LInv
<1> DEFINE q == ProcessOf[t]
<1>1. q \in Processes /\ step[t] = "idle" /\ held[q] > 0 /\ Move(t, "inside")
    BY DEF Join
<1>2. /\ \A p \in Processes : p = q => Cardinality(Insiders(p)') = Cardinality(Insiders(p)) + 1
      /\ Insiders(q)' = Insiders(q) \cup {t}
      /\ \A p \in Processes : p # q => Insiders(p)' = Insiders(p)
    BY <1>1, GoesIn DEF LockTypeOK
<1>3. held' = [held EXCEPT ![q] = held[q] + 1] /\ \A p \in Processes : held[p] \in Nat
  <2>1. Cardinality(Tasks) \in Nat
      BY FS_CardinalityType
  <2> QED BY <2>1 DEF Join, LockTypeOK
<1>4. CountBound'
  <2>1. ASSUME NEW p \in Processes PROVE held'[p] <= Cardinality(Insiders(p)')
    <3>1. held[p] \in Nat /\ held[p] <= Cardinality(Insiders(p))
        BY <1>3 DEF CountBound
    <3>2. CASE p = q
        BY <1>1, <1>2, <1>3, <3>1, <3>2, InsidersFinite DEF LockTypeOK
    <3>3. CASE p # q
        BY <1>2, <1>3, <3>1, <3>3 DEF LockTypeOK
    <3> QED BY <3>2, <3>3
  <2> QED BY <2>1 DEF CountBound
<1>5. LockTypeOK'
  <2>1. \A p \in Processes : held'[p] \in 0..Cardinality(Tasks)
      BY <1>1, <1>2, <1>3, <1>4, InsidersFinite DEF CountBound, LockTypeOK
  <2>2. held' \in [Processes -> 0..Cardinality(Tasks)]
      BY <1>3, <2>1 DEF LockTypeOK
  <2>3. step' \in [Tasks -> Steps]
      BY <1>1 DEF LockTypeOK, Move, Steps
  <2> QED BY <2>2, <2>3 DEF LockTypeOK, Join
<1>6. ASSUME ~robbed' PROVE Possession'
  <2>1. ~robbed
      BY <1>6 DEF Join
  <2>2. PICK u \in Insiders(q) : TRUE
    <3>1. Cardinality(Insiders(q)) # 0
        BY <1>1, <1>3, <2>1, InsidersFinite DEF Possession
    <3> QED BY <1>1, <3>1, InsidersFinite, FS_EmptySet
  <2>3. u \in At("inside") /\ ProcessOf[u] = q
      BY <2>2 DEF Insiders
  <2>4. file # NoFile /\ file.written /\ ProcessOf[file.by] = q /\ At("unlink") = {}
      BY <2>1, <2>3 DEF Possession
  <2>5. /\ At("write")' = At("write") /\ At("unlink")' = At("unlink")
        /\ At("inside")' = At("inside") \cup {t}
      BY <1>1 DEF At, Move, LockTypeOK, Steps
  <2>6. \A p \in Processes : held'[p] = Cardinality(Insiders(p)')
      BY <1>1, <1>2, <1>3, <2>1 DEF Possession, LockTypeOK
  <2> QED BY <2>1, <2>4, <2>5, <2>6 DEF Possession, Mine, Join
<1> QED BY <1>4, <1>5, <1>6 DEF Possession

LEMMA CreateInv == ASSUME LInv, NEW t \in Tasks, Create(t) PROVE LInv'
<1> USE FileLockAssumption DEF LInv
<1>1. step[t] = "open" /\ file = NoFile /\ Move(t, "write") /\ "write" \in Steps
    BY DEF Create, Steps
<1>2. \A p \in Processes : Insiders(p)' = Insiders(p)
    BY <1>1, StaysOut DEF LockTypeOK
<1>3. /\ file' \in [by : Tasks, written : BOOLEAN, old : BOOLEAN]
      /\ file' # NoFile /\ file'.by = t /\ ~file'.written
  <2>1. file' = [by |-> t, written |-> FALSE, old |-> FALSE]
      BY DEF Create
  <2>2. [by |-> t, written |-> FALSE, old |-> FALSE]
            \in [by : Tasks, written : BOOLEAN, old : BOOLEAN]
      OBVIOUS
  <2> QED BY <2>1, <2>2
<1>4. LockTypeOK'
    BY <1>1, <1>3 DEF LockTypeOK, Create, Move
<1>5. CountBound'
    BY <1>2 DEF CountBound, Create
<1>6. ASSUME ~robbed' PROVE Possession'
  <2>1. ~robbed
      BY <1>6 DEF Create
  <2>2. At("write") = {} /\ At("inside") = {} /\ At("unlink") = {}
      BY <1>1, <2>1, Unpossessed DEF Possessed
  <2>3. At("write")' = {t} /\ At("inside")' = {} /\ At("unlink")' = {}
      BY <1>1, <2>2 DEF At, Move, LockTypeOK
  <2> QED BY <1>2, <1>3, <2>1, <2>3 DEF Possession, Mine, Create
<1> QED BY <1>4, <1>5, <1>6 DEF Possession

LEMMA WriteInv == ASSUME LInv, NEW t \in Tasks, Write(t) PROVE LInv'
<1> USE FileLockAssumption DEF LInv
<1> DEFINE q == ProcessOf[t]
<1>1. q \in Processes /\ step[t] = "write" /\ Move(t, "inside")
    BY DEF Write
<1>2. /\ \A p \in Processes : p = q => Cardinality(Insiders(p)') = Cardinality(Insiders(p)) + 1
      /\ Insiders(q)' = Insiders(q) \cup {t}
      /\ \A p \in Processes : p # q => Insiders(p)' = Insiders(p)
    BY <1>1, GoesIn DEF LockTypeOK
<1>3. held' = [held EXCEPT ![q] = 1] /\ Cardinality(Tasks) \in Nat
    BY FS_CardinalityType DEF Write
<1>4. CountBound'
  <2>1. ASSUME NEW p \in Processes PROVE held'[p] <= Cardinality(Insiders(p)')
    <3>1. CASE p = q
        BY <1>1, <1>2, <1>3, <3>1, InsidersFinite DEF LockTypeOK
    <3>2. CASE p # q
        BY <1>2, <1>3, <3>2 DEF LockTypeOK, CountBound
    <3> QED BY <3>1, <3>2
  <2> QED BY <2>1 DEF CountBound
<1>5. LockTypeOK'
  <2>1. 1 <= Cardinality(Tasks)
    <3>1. Cardinality(Tasks) # 0
        BY FS_EmptySet
    <3> QED BY <1>3, <3>1
  <2>2. held' \in [Processes -> 0..Cardinality(Tasks)]
      BY <1>3, <2>1 DEF LockTypeOK
  <2>3. step' \in [Tasks -> Steps]
      BY <1>1 DEF LockTypeOK, Move, Steps
  <2>4. file' = NoFile \/ file' \in [by : Tasks, written : BOOLEAN, old : BOOLEAN]
      BY DEF Write, Mine, LockTypeOK
  <2> QED BY <2>2, <2>3, <2>4 DEF LockTypeOK, Write
<1>6. ASSUME ~robbed' PROVE Possession'
  <2>1. ~robbed /\ t \in At("write")
      BY <1>1, <1>6 DEF Write, At
  <2>2. Mine(t) /\ ~file.written
      BY <2>1 DEF Possession
  <2>3. At("write") = {t} /\ At("inside") = {} /\ At("unlink") = {}
      BY <2>1, <2>2 DEF Possession, Mine
  <2>4. /\ file' = [file EXCEPT !.written = TRUE, !.old = FALSE]
        /\ file \in [by : Tasks, written : BOOLEAN, old : BOOLEAN]
      BY <2>2 DEF Write, Mine, LockTypeOK
  <2>5. file' # NoFile /\ file'.written /\ file'.by = t
      BY <2>2, <2>4 DEF Mine
  <2>6. At("write")' = {} /\ At("inside")' = {t} /\ At("unlink")' = {}
      BY <1>1, <2>3 DEF At, Move, LockTypeOK, Steps
  <2>7. \A p \in Processes : Insiders(p) = {}
      BY <2>3 DEF Insiders
  <2>8. \A p \in Processes : held'[p] = Cardinality(Insiders(p)')
    <3>1. \A p \in Processes : Cardinality(Insiders(p)) = 0
        BY <2>7, FS_EmptySet
    <3>2. Cardinality(Insiders(q)') = 1
        BY <1>1, <1>2, <3>1
    <3> QED BY <1>2, <1>3, <2>1, <3>2 DEF Possession, LockTypeOK
  <2> QED BY <2>5, <2>6, <2>8 DEF Possession
<1> QED BY <1>4, <1>5, <1>6 DEF Possession

LEMMA RemoveStaleInv == ASSUME LInv, NEW t \in Tasks, RemoveStale(t) PROVE LInv'
<1> USE FileLockAssumption DEF LInv
<1>1. PICK s \in {"idle", "open"} : Move(t, s)
    BY DEF RemoveStale, Retry
<1>2. step[t] = "remove" /\ s \in Steps /\ step' \in [Tasks -> Steps]
    BY <1>1 DEF RemoveStale, Steps, Move, LockTypeOK
<1>3. \A p \in Processes : Insiders(p)' = Insiders(p)
    BY <1>1, <1>2, StaysOut DEF LockTypeOK
<1>4. LockTypeOK'
    BY <1>2 DEF LockTypeOK, RemoveStale, RemoveFile
<1>5. CountBound'
    BY <1>3 DEF CountBound, RemoveStale
<1>6. ASSUME ~robbed' PROVE Possession'
  <2>1. ~robbed /\ ~Possessed
      BY <1>6 DEF RemoveStale, RemoveFile
  <2>2. At("write") = {} /\ At("inside") = {} /\ At("unlink") = {}
      BY <2>1, Unpossessed
  <2>3. At("write")' = {} /\ At("inside")' = {} /\ At("unlink")' = {}
      BY <1>1, <1>2, <2>2 DEF At, Move, LockTypeOK
  <2> QED BY <1>3, <2>1, <2>3 DEF Possession, RemoveStale
<1> QED BY <1>4, <1>5, <1>6 DEF Possession

LEMMA ReleaseInv == ASSUME LInv, NEW t \in Tasks, Release(t) PROVE LInv'
<1> USE FileLockAssumption DEF LInv
<1> DEFINE q == ProcessOf[t]
           s == IF held[q] = 1 THEN "unlink" ELSE "idle"
<1>1. /\ q \in Processes /\ step[t] = "inside" /\ Move(t, s)
      /\ s \in Steps /\ s # "inside"
    BY DEF Release, Steps
<1>2. /\ \A p \in Processes : p = q => Cardinality(Insiders(p)') = Cardinality(Insiders(p)) - 1
      /\ Insiders(q)' = Insiders(q) \ {t}
      /\ \A p \in Processes : p # q => Insiders(p)' = Insiders(p)
    BY <1>1, GoesOut DEF LockTypeOK
<1>3. /\ held' = [held EXCEPT ![q] = IF held[q] > 0 THEN held[q] - 1 ELSE 0]
      /\ \A p \in Processes : held[p] \in 0..Cardinality(Tasks)
      /\ Cardinality(Tasks) \in Nat
    BY FS_CardinalityType DEF Release, LockTypeOK
<1>4. CountBound'
  <2>1. ASSUME NEW p \in Processes PROVE held'[p] <= Cardinality(Insiders(p)')
    <3>1. held[p] \in Nat /\ held[p] <= Cardinality(Insiders(p))
        BY <1>3 DEF CountBound
    <3>2. CASE p = q
        BY <1>1, <1>2, <1>3, <3>1, <3>2, InsidersFinite DEF LockTypeOK
    <3>3. CASE p # q
        BY <1>2, <1>3, <3>1, <3>3 DEF LockTypeOK
    <3> QED BY <3>2, <3>3
  <2> QED BY <2>1 DEF CountBound
<1>5. LockTypeOK'
  <2>1. held' \in [Processes -> 0..Cardinality(Tasks)]
      BY <1>1, <1>3 DEF LockTypeOK
  <2>2. step' \in [Tasks -> Steps]
      BY <1>1 DEF LockTypeOK, Move
  <2> QED BY <2>1, <2>2 DEF LockTypeOK, Release
<1>6. ASSUME ~robbed' PROVE Possession'
  <2>1. ~robbed /\ t \in At("inside") /\ t \in Insiders(q)
      BY <1>1, <1>6 DEF Release, At, Insiders
  <2>2. file # NoFile /\ file.written /\ ProcessOf[file.by] = q /\ At("unlink") = {}
      BY <2>1 DEF Possession
  <2>3. At("inside") = Insiders(q)
      BY <2>1, <2>2 DEF Possession, Insiders
  <2>4. \A p \in Processes : held'[p] = Cardinality(Insiders(p)')
    <3>1. held[q] = Cardinality(Insiders(q)) /\ Cardinality(Insiders(q)) # 0
        BY <1>1, <2>1, InsidersFinite, FS_EmptySet DEF Possession
    <3> QED BY <1>1, <1>2, <1>3, <2>1, <3>1, InsidersFinite DEF Possession, LockTypeOK
  <2>5. At("write")' = At("write") /\ At("inside")' = Insiders(q) \ {t}
      BY <1>1, <2>3 DEF At, Move, LockTypeOK, Steps
  <2>6. CASE held[q] = 1
    <3>1. Cardinality(Insiders(q)) = 1
        BY <1>1, <2>1, <2>6 DEF Possession
    <3>2. Insiders(q) = {t}
        BY <1>1, <2>1, <3>1, InsidersFinite, FS_Singleton
    <3>3. At("unlink")' = {t} /\ At("inside")' = {}
        BY <1>1, <2>2, <2>5, <2>6, <3>2 DEF At, Move, LockTypeOK, Steps
    <3> QED BY <2>1, <2>2, <2>4, <2>5, <3>3 DEF Possession, Mine, Release
  <2>7. CASE held[q] # 1
    <3>1. At("unlink")' = {}
        BY <1>1, <2>2, <2>7 DEF At, Move, LockTypeOK, Steps
    <3>2. \A u \in At("inside")' : ProcessOf[u] = q
        BY <2>5 DEF Insiders
    <3> QED BY <2>1, <2>2, <2>4, <2>5, <3>1, <3>2 DEF Possession, Mine, Release
  <2> QED BY <2>6, <2>7
<1> QED BY <1>4, <1>5, <1>6 DEF Possession

LEMMA UnlinkInv == ASSUME LInv, NEW t \in Tasks, Unlink(t) PROVE LInv'
<1> USE FileLockAssumption DEF LInv
<1>1. step[t] = "unlink" /\ Move(t, "idle") /\ "idle" \in Steps
    BY DEF Unlink, Steps
<1>2. \A p \in Processes : Insiders(p)' = Insiders(p)
    BY <1>1, StaysOut DEF LockTypeOK
<1>3. LockTypeOK'
    BY <1>1 DEF LockTypeOK, Unlink, Move
<1>4. CountBound'
    BY <1>2 DEF CountBound, Unlink
<1>5. ASSUME ~robbed' PROVE Possession'
  <2>1. ~robbed /\ t \in At("unlink")
      BY <1>1, <1>5 DEF Unlink, At
  <2>2. At("unlink") = {t} /\ At("inside") = {} /\ At("write") = {}
      BY <2>1 DEF Possession, Mine
  <2>3. At("unlink")' = {} /\ At("inside")' = {} /\ At("write")' = {}
      BY <1>1, <2>2 DEF At, Move, LockTypeOK
  <2> QED BY <1>2, <2>1, <2>3 DEF Possession, Unlink
<1> QED BY <1>3, <1>4, <1>5 DEF Possession

LEMMA AgeInv == ASSUME LInv, Age PROVE LInv'
<1> USE DEF LInv
<1>1. /\ file # NoFile /\ file \in [by : Tasks, written : BOOLEAN, old : BOOLEAN]
      /\ file' = [file EXCEPT !.old = TRUE]
    BY DEF Age, LockTypeOK
<1>2. /\ file' \in [by : Tasks, written : BOOLEAN, old : BOOLEAN] /\ file' # NoFile
      /\ file'.by = file.by /\ file'.written = file.written
    BY <1>1, FileLockAssumption
<1>3. LockTypeOK'
    BY <1>2 DEF Age, LockTypeOK
<1>4. /\ \A s : At(s)' = At(s)
      /\ \A p \in Processes : Insiders(p)' = Insiders(p)
    BY DEF Age, At, Insiders
<1>5. CountBound'
    BY <1>4 DEF CountBound, Age
<1>6. Possession'
    BY <1>1, <1>2, <1>4 DEF Possession, Mine, Age
<1> QED BY <1>3, <1>5, <1>6

LEMMA CrashInv == ASSUME LInv, NEW q \in Processes, Crash(q) PROVE LInv'
<1> USE FileLockAssumption DEF LInv
<1>1. /\ step' = [t \in Tasks |-> IF ProcessOf[t] = q THEN "gone" ELSE step[t]]
      /\ held' = [held EXCEPT ![q] = 0] /\ UNCHANGED <<file, robbed>>
    BY DEF Crash
<1>2. /\ \A p \in Processes : p = q => Cardinality(Insiders(p)') = 0
      /\ \A p \in Processes : p # q => Insiders(p)' = Insiders(p)
  <2>1. ASSUME NEW p \in Processes, p = q PROVE Cardinality(Insiders(p)') = 0
    <3>1. Insiders(p)' = {}
        BY <1>1, <2>1 DEF Insiders, At, LockTypeOK
    <3> QED BY <3>1, FS_EmptySet
  <2>2. ASSUME NEW p \in Processes, p # q PROVE Insiders(p)' = Insiders(p)
      BY <1>1, <2>2 DEF Insiders, At, LockTypeOK
  <2> QED BY <2>1, <2>2
<1>3. LockTypeOK'
  <2>1. Cardinality(Tasks) \in Nat
      BY FS_CardinalityType
  <2>2. held' \in [Processes -> 0..Cardinality(Tasks)]
      BY <1>1, <2>1 DEF LockTypeOK
  <2>3. step' \in [Tasks -> Steps]
      BY <1>1 DEF LockTypeOK, Steps
  <2> QED BY <1>1, <2>2, <2>3 DEF LockTypeOK, Crash
<1>4. CountBound'
  <2>1. ASSUME NEW p \in Processes PROVE held'[p] <= Cardinality(Insiders(p)')
    <3>1. CASE p = q
        BY <1>1, <1>2, <3>1 DEF LockTypeOK
    <3>2. CASE p # q
        BY <1>1, <1>2, <3>2 DEF LockTypeOK, CountBound
    <3> QED BY <3>1, <3>2
  <2> QED BY <2>1 DEF CountBound
<1>5. /\ At("write")' \subseteq At("write")
      /\ At("inside")' \subseteq At("inside") /\ At("unlink")' \subseteq At("unlink")
    BY <1>1 DEF At, LockTypeOK
<1>6. ASSUME ~robbed' PROVE Possession'
  <2>1. ~robbed
      BY <1>1, <1>6
  <2>2. \A p \in Processes : held'[p] = Cardinality(Insiders(p)')
    <3>1. ASSUME NEW p \in Processes, p = q
          PROVE  held'[p] = 0 /\ Cardinality(Insiders(p)') = 0
        BY <1>1, <1>2, <3>1 DEF LockTypeOK
    <3>2. ASSUME NEW p \in Processes, p # q
          PROVE  held'[p] = Cardinality(Insiders(p)')
        BY <1>1, <1>2, <2>1, <3>2 DEF Possession, LockTypeOK
    <3> QED BY <3>1, <3>2
  <2>3. \A t \in At("write")' : Mine(t)' /\ ~file'.written
      BY <1>1, <1>5, <2>1 DEF Possession, Mine
  <2>4. \A t \in At("inside")' \cup At("unlink")' :
            file' # NoFile /\ file'.written /\ ProcessOf[file'.by] = ProcessOf[t]
      BY <1>1, <1>5, <2>1 DEF Possession
  <2>5. \A t \in At("unlink")' : At("unlink")' = {t} /\ At("inside")' = {}
      BY <1>1, <1>5, <2>1 DEF Possession
  <2> QED BY <2>2, <2>3, <2>4, <2>5 DEF Possession
<1> QED BY <1>3, <1>4, <1>6 DEF Possession

LEMMA LockNextInv == ASSUME LInv, LockNext PROVE LInv'
<1>1. ASSUME NEW t \in Tasks, LockStep(t) PROVE LInv'
  <2>1. CASE Approach(t) \/ Exists(t) \/ WriteFails(t) \/ Inspect(t)
    <3>1. \E s \in {"idle", "open", "inspect", "remove"} : Move(t, s)
        BY <2>1 DEF Approach, Exists, WriteFails, Inspect, Retry
    <3>2. /\ step[t] \in {"idle", "open", "inspect", "remove", "write"}
          /\ UNCHANGED <<file, held, robbed, alive>>
        BY <2>1 DEF Approach, Exists, WriteFails, Inspect
    <3> QED BY <3>1, <3>2, PassingInv DEF LInv, LockTypeOK
  <2> QED BY <1>1, <2>1, JoinInv, CreateInv, WriteInv, RemoveStaleInv, ReleaseInv, UnlinkInv
          DEF LockStep
<1> QED BY <1>1, AgeInv, CrashInv DEF LockNext

-----------------------------------------------------------------------------
(* The theorems.                                                             *)

\* The strengthening is an invariant of the lock.
THEOREM LockInvariant == LockSpec => []LInv
<1>1. LInv /\ [LockNext]_lockVars => LInv'
  <2>1. ASSUME LInv, UNCHANGED lockVars PROVE LInv'
      BY <2>1 DEF LInv, LockTypeOK, CountBound, Possession, Mine, At, Insiders, lockVars
  <2> QED BY <2>1, LockNextInv
<1> QED BY <1>1, LockInitInv, PTL DEF LockSpec

\* The lock excludes: as long as no process was robbed of its file, the tasks
\* inside are of one process and find its file.
THEOREM LockExcludes == LockSpec => []LockExclusive
<1>1. LInv => LockExclusive
    BY FileLockAssumption DEF LInv, Possession, LockExclusive, At, Insiders
<1> QED BY <1>1, LockInvariant, PTL

-----------------------------------------------------------------------------
(* The calls use the lock and nothing else of it.                            *)

\* Every behaviour of the calls is, for the lock, one of its own.
THEOREM ImplementsLock == Spec => LockSpec
<1>1. Init => LockInit
    BY DEF Init
<1>2. [Next]_vars => [LockNext]_lockVars
  <2> SUFFICES ASSUME [Next]_vars PROVE [LockNext]_lockVars
      OBVIOUS
  <2>1. CASE UNCHANGED vars
      BY <2>1 DEF vars, lockVars
  <2>2. CASE Aging
      BY <2>2 DEF Aging, LockNext
  <2>3. ASSUME NEW t \in Tasks, Continue(t) PROVE [LockNext]_lockVars
    <3>1. CASE Acquiring(t)
        BY <3>1 DEF Acquiring, Acquire, LockNext, LockStep
    <3>2. CASE Load(t) \/ Grant(t) \/ Reject(t) \/ Save(t) \/ Update(t)
        BY <3>2 DEF Load, Grant, Reject, Save, Update
    <3>3. CASE End(t) \/ Unlink(t)
        BY <3>3 DEF End, LockNext, LockStep
    <3> QED BY <2>3, <3>1, <3>2, <3>3 DEF Continue
  <2>4. ASSUME NEW t \in Tasks, NEW k \in {"refresh", "update"}, Begin(t, k)
        PROVE  [LockNext]_lockVars
      BY <2>4 DEF Begin, LockNext, LockStep
  <2>5. CASE Expire
      BY <2>5 DEF Expire
  <2>6. ASSUME NEW p \in Processes, Activate(p) \/ Die(p) PROVE [LockNext]_lockVars
      BY <2>6 DEF Activate, Die, LockNext
  <2> QED BY <2>1, <2>2, <2>3, <2>4, <2>5, <2>6, AuthAssumption DEF Next
<1> QED BY <1>1, <1>2, PTL DEF Spec, LockSpec

\* The lock excludes under its users as well.
THEOREM CallsExclude == Spec => [](LInv /\ LockExclusive)
    BY ImplementsLock, LockInvariant, LockExcludes, PTL

-----------------------------------------------------------------------------
(* The types.                                                                *)

\* What is written to the record of one call.
CallIs(t, k, s, c) ==
    /\ call' \in [Tasks -> Calls]
    /\ call'[t].kind = k /\ call'[t].stage = s /\ call'[t].cred = c
    /\ \A u \in Tasks : u # t => call'[u] = call[u]

LEMMA CallWritten ==
    ASSUME call \in [Tasks -> Calls], NEW t \in Tasks,
           NEW k \in {"none", "refresh", "update"},
           NEW s \in {"locked", "asking", "granted", "done"}, NEW c \in 0..MaxRefreshes
    PROVE  /\ call' = [call EXCEPT ![t] = [kind |-> k, stage |-> s, cred |-> c]]
                => CallIs(t, k, s, c)
           /\ call' = [call EXCEPT ![t].stage = s]
                => CallIs(t, call[t].kind, s, call[t].cred)
           /\ call' = [call EXCEPT ![t].cred = c, ![t].stage = s]
                => CallIs(t, call[t].kind, s, c)
           /\ call' = [call EXCEPT ![t].stage = s, ![t].cred = c]
                => CallIs(t, call[t].kind, s, c)
<1>1. [kind |-> k, stage |-> s, cred |-> c] \in Calls
    BY DEF Calls
<1>2. call[t] \in Calls
    OBVIOUS
<1>3. ASSUME NEW r \in Calls, call' = [call EXCEPT ![t] = r]
      PROVE  CallIs(t, r.kind, r.stage, r.cred)
    BY <1>3 DEF CallIs
<1>4. ASSUME call' = [call EXCEPT ![t].stage = s]
      PROVE  CallIs(t, call[t].kind, s, call[t].cred)
    BY <1>2, <1>4 DEF CallIs, Calls
<1>5. ASSUME call' = [call EXCEPT ![t].cred = c, ![t].stage = s]
      PROVE  CallIs(t, call[t].kind, s, c)
    BY <1>2, <1>5 DEF CallIs, Calls
<1>6. ASSUME call' = [call EXCEPT ![t].stage = s, ![t].cred = c]
      PROVE  CallIs(t, call[t].kind, s, c)
    BY <1>2, <1>6 DEF CallIs, Calls
<1> QED BY <1>1, <1>3, <1>4, <1>5, <1>6

-----------------------------------------------------------------------------
(* The inductive invariant.                                                  *)

\* Only a task that is inside has got past the start of its call, and only a
\* refresh asks the provider.
Stages ==
    \A t \in Tasks :
        /\ call[t].stage # "locked" => step[t] = "inside"
        /\ call[t].stage \in {"asking", "granted"} => call[t].kind = "refresh"

\* As long as nothing has defeated the protection: one refresh at a time is
\* inside, what it presents or was granted is the newest credential, the store
\* has the newest one unless a refresh has yet to save it, and the copies of
\* updates are not ahead of the store.
Protected ==
    /\ \A t, u \in At("inside") : call[t].kind = "refresh" /\ call[u].kind = "refresh" => t = u
    /\ \A t \in Tasks : call[t].stage \in {"asking", "granted"} => call[t].cred = newest
    /\ (\A t \in Tasks : call[t].stage # "granted") => disk = newest
    /\ disk <= newest
    /\ \A t \in Tasks : call[t].kind = "update" => call[t].cred <= disk
    /\ ~replayed

AInv == TypeOK /\ Stages /\ (Undisturbed => Protected)

\* What is known of the lock before and after a step.
Locks == LInv /\ LInv' /\ LockExclusive /\ LockExclusive'

LEMMA AuthInit == Init => AInv
<1> SUFFICES ASSUME Init PROVE AInv
    OBVIOUS
<1> USE AuthAssumption
<1>1. 0 \in 0..MaxRefreshes
    OBVIOUS
<1>2. LockTypeOK
    BY LockInitInv DEF Init, LInv
<1>3. /\ call \in [Tasks -> Calls]
      /\ \A t \in Tasks : call[t].kind = "none" /\ call[t].stage = "locked"
    BY <1>1 DEF Init, NoCall, Calls
<1>4. snapshot \in [Processes -> 0..MaxRefreshes \cup {NoSnapshot}]
    BY <1>1 DEF Init
<1>5. TypeOK
    BY <1>1, <1>2, <1>3, <1>4 DEF Init, TypeOK
<1>6. Stages
    BY <1>3 DEF Stages
<1>7. Protected
    BY <1>3 DEF Protected, At, Init
<1> QED BY <1>5, <1>6, <1>7 DEF AInv

\* A step of a call inside the lock leaves the lock and the snapshots alone.
Inner ==
    /\ UNCHANGED lockVars /\ UNCHANGED snapshot /\ excused' = excused

LEMMA InnerFacts ==
    ASSUME AInv, Inner
    PROVE  /\ LockTypeOK' /\ snapshot' \in [Processes -> 0..MaxRefreshes \cup {NoSnapshot}]
           /\ excused' \in BOOLEAN /\ (Undisturbed' => Undisturbed /\ Protected)
           /\ At("inside")' = At("inside")
           /\ step' = step
           /\ \A t \in Tasks : Stored(t) \in 0..MaxRefreshes
           /\ Undisturbed => \A t \in Tasks : Stored(t) = disk
<1> USE FileLockAssumption, AuthAssumption DEF AInv
<1>1. LockTypeOK'
    BY DEF Inner, lockVars, TypeOK, LockTypeOK
<1>2. Undisturbed' => Undisturbed
    BY DEF Inner, lockVars, Undisturbed
<1>3. \A t \in Tasks : Stored(t) \in 0..MaxRefreshes /\ ProcessOf[t] \in Processes
    BY DEF Stored, TypeOK
<1>4. Undisturbed => \A t \in Tasks : Stored(t) = disk
    BY <1>3 DEF Undisturbed, Stored
<1> QED BY <1>1, <1>2, <1>3, <1>4 DEF Inner, lockVars, TypeOK, At

\* A step that grants and saves nothing, for the protection.
OneRefresh == \A t, u \in At("inside") : call[t].kind = "refresh" /\ call[u].kind = "refresh" => t = u

LEMMA StaysProtected ==
    ASSUME Protected, OneRefresh', UNCHANGED <<disk, newest, replayed>>,
           \A u \in Tasks :
               /\ \/ call'[u].stage = call[u].stage /\ call'[u].cred = call[u].cred
                  \/ call[u].stage # "granted" /\ call'[u].stage \notin {"asking", "granted"}
               /\ call'[u].kind = "update" => call'[u].cred <= disk
    PROVE  Protected'
<1>1. \A u \in Tasks : call'[u].stage \in {"asking", "granted"} => call'[u].cred = newest
    BY DEF Protected
<1>2. (\A u \in Tasks : call'[u].stage # "granted") => \A u \in Tasks : call[u].stage # "granted"
    OBVIOUS
<1>3. (\A u \in Tasks : call'[u].stage # "granted") => disk' = newest'
    BY <1>2 DEF Protected
<1>4. disk' <= newest' /\ ~replayed'
    BY DEF Protected
<1> QED BY <1>1, <1>3, <1>4 DEF Protected, OneRefresh

LEMMA LoadInv == ASSUME AInv, NEW t \in Tasks, Load(t) PROVE AInv'
<1> USE FileLockAssumption, AuthAssumption
<1> DEFINE s == IF Usable(Stored(t)) THEN "done" ELSE "asking"
<1>1. Inner /\ step[t] = "inside" /\ call[t].kind = "refresh" /\ call[t].stage = "locked"
    BY DEF Load, Inner
<1>2. CallIs(t, "refresh", s, Stored(t)) /\ s \in {"done", "asking"}
    BY <1>1, InnerFacts, CallWritten DEF Load, AInv, TypeOK
<1>3. UNCHANGED <<disk, newest, fresh, replayed>>
    BY DEF Load
<1>4. TypeOK'
    BY <1>1, <1>2, <1>3, InnerFacts DEF AInv, TypeOK, CallIs
<1>5. Stages'
    BY <1>1, <1>2, <1>3, InnerFacts DEF AInv, Stages, CallIs
<1>6. ASSUME Undisturbed' PROVE Protected'
  <2>1. Undisturbed /\ Protected /\ Stored(t) = disk /\ At("inside")' = At("inside")
      BY <1>1, <1>6, InnerFacts
  <2>2. \A u \in Tasks : call[u].stage # "granted"
      BY <1>1, <2>1 DEF Protected, AInv, Stages, At
  <2>3. disk = newest
      BY <2>1, <2>2 DEF Protected
  <2>4. \A u \in Tasks : /\ call'[u].kind = call[u].kind
                         /\ call'[u].kind = "update" => call'[u].cred = call[u].cred
      BY <1>1, <1>2 DEF CallIs
  <2> QED BY <1>1, <1>2, <1>3, <2>1, <2>2, <2>3, <2>4 DEF Protected, CallIs, At
<1> QED BY <1>4, <1>5, <1>6 DEF AInv

LEMMA GrantInv == ASSUME AInv, NEW t \in Tasks, Grant(t) PROVE AInv'
<1> USE FileLockAssumption, AuthAssumption
<1>1. /\ Inner /\ step[t] = "inside" /\ call[t].stage = "asking" /\ call[t].cred = newest
      /\ newest < MaxRefreshes /\ newest' = newest + 1 /\ fresh' = TRUE
      /\ UNCHANGED <<disk, replayed>>
    BY DEF Grant, Inner
<1>2. newest \in 0..MaxRefreshes /\ newest + 1 \in 0..MaxRefreshes /\ disk \in 0..MaxRefreshes
    BY <1>1 DEF AInv, TypeOK
<1>3. call[t].kind = "refresh" /\ CallIs(t, "refresh", "granted", newest + 1)
  <2>1. call[t].kind = "refresh"
      BY <1>1 DEF AInv, Stages
  <2> QED BY <1>2, <2>1, CallWritten DEF Grant, AInv, TypeOK
<1>4. TypeOK'
    BY <1>1, <1>2, <1>3, InnerFacts DEF AInv, TypeOK, CallIs
<1>5. Stages'
    BY <1>1, <1>3, InnerFacts DEF AInv, Stages, CallIs
<1>6. ASSUME Undisturbed' PROVE Protected'
  <2>1. Undisturbed /\ Protected /\ At("inside")' = At("inside")
      BY <1>1, <1>6, InnerFacts
  <2>2. \A u \in Tasks : u # t => call[u].stage \notin {"asking", "granted"}
      BY <1>1, <1>3, <2>1 DEF Protected, AInv, Stages, At
  <2>3. \A u \in Tasks : /\ call'[u].kind = call[u].kind
                         /\ call'[u].kind = "update" => call'[u].cred = call[u].cred
      BY <1>3 DEF CallIs
  <2>4. \A u \in Tasks : call'[u].stage \in {"asking", "granted"} => u = t /\ call'[u].cred = newest'
      BY <1>1, <1>3, <2>2 DEF CallIs
  <2>5. disk' <= newest' /\ call'[t].stage = "granted"
      BY <1>1, <1>2, <1>3, <2>1 DEF Protected, CallIs
  <2>6. OneRefresh'
      BY <2>1, <2>3 DEF Protected, OneRefresh, At
  <2>7. \A u \in Tasks : call'[u].kind = "update" => call'[u].cred <= disk'
      BY <1>1, <2>1, <2>3 DEF Protected
  <2>8. ~replayed'
      BY <1>1, <2>1 DEF Protected
  <2> QED BY <2>4, <2>5, <2>6, <2>7, <2>8 DEF Protected, OneRefresh
<1> QED BY <1>4, <1>5, <1>6 DEF AInv

LEMMA RejectInv == ASSUME AInv, NEW t \in Tasks, Reject(t) PROVE AInv'
<1> USE FileLockAssumption, AuthAssumption
<1>1. /\ Inner /\ step[t] = "inside" /\ call[t].stage = "asking"
      /\ UNCHANGED <<disk, newest, fresh>> /\ replayed' = (replayed \/ call[t].cred # newest)
    BY DEF Reject, Inner
<1>2. CallIs(t, call[t].kind, "done", call[t].cred)
  <2>1. call[t] \in Calls /\ call' = [call EXCEPT ![t].stage = "done"]
      BY DEF Reject, Stage, AInv, TypeOK
  <2>2. call[t].kind \in {"none", "refresh", "update"} /\ call[t].cred \in 0..MaxRefreshes
      BY <2>1 DEF Calls
  <2> QED BY <2>1, <2>2, CallWritten DEF AInv, TypeOK
<1>3. TypeOK'
    BY <1>1, <1>2, InnerFacts DEF AInv, TypeOK, CallIs
<1>4. Stages'
    BY <1>1, <1>2, InnerFacts DEF AInv, Stages, CallIs
<1>5. ASSUME Undisturbed' PROVE Protected'
  <2>1. Undisturbed /\ Protected /\ At("inside")' = At("inside")
      BY <1>1, <1>5, InnerFacts
  <2>2. replayed' = replayed /\ \A u \in Tasks : call'[u].kind = call[u].kind
      BY <1>1, <1>2, <2>1 DEF Protected, CallIs, AInv, TypeOK
  <2>3. OneRefresh'
      BY <2>1, <2>2 DEF Protected, OneRefresh, At
  <2>4. \A u \in Tasks :
            /\ \/ call'[u].stage = call[u].stage /\ call'[u].cred = call[u].cred
               \/ call[u].stage # "granted" /\ call'[u].stage \notin {"asking", "granted"}
            /\ call'[u].kind = "update" => call'[u].cred <= disk
      BY <1>1, <1>2, <2>1 DEF CallIs, Protected
  <2> QED BY <1>1, <2>1, <2>2, <2>3, <2>4, StaysProtected
<1> QED BY <1>3, <1>4, <1>5 DEF AInv

LEMMA SaveInv == ASSUME AInv, NEW t \in Tasks, Save(t) PROVE AInv'
<1> USE FileLockAssumption, AuthAssumption
<1>1. /\ Inner /\ step[t] = "inside" /\ call[t].stage = "granted"
      /\ UNCHANGED <<newest, fresh, replayed>> /\ disk' = IF Plugin THEN disk ELSE call[t].cred
    BY DEF Save, Inner
<1>2. /\ CallIs(t, call[t].kind, "done", call[t].cred)
      /\ call[t].cred \in 0..MaxRefreshes /\ disk' \in 0..MaxRefreshes
  <2>1. call[t] \in Calls /\ call' = [call EXCEPT ![t].stage = "done"]
      BY DEF Save, Stage, AInv, TypeOK
  <2>2. call[t].kind \in {"none", "refresh", "update"} /\ call[t].cred \in 0..MaxRefreshes
      BY <2>1 DEF Calls
  <2> QED BY <1>1, <2>1, <2>2, CallWritten DEF AInv, TypeOK
<1>3. TypeOK'
    BY <1>1, <1>2, InnerFacts DEF AInv, TypeOK, CallIs
<1>4. Stages'
    BY <1>1, <1>2, InnerFacts DEF AInv, Stages, CallIs
<1>5. ASSUME Undisturbed' PROVE Protected'
  <2>1. Undisturbed /\ Protected /\ At("inside")' = At("inside")
      BY <1>1, <1>5, InnerFacts
  <2>2. disk' = newest /\ disk <= disk' /\ disk \in Int /\ newest \in Int
      BY <1>1, <2>1 DEF Protected, Undisturbed, AInv, TypeOK
  <2>3. \A u \in Tasks : call'[u].kind = call[u].kind /\ call'[u].cred = call[u].cred
      BY <1>2 DEF CallIs
  <2>4. \A u \in Tasks : call[u].kind = "update" => call[u].cred <= disk'
    <3>1. \A u \in Tasks : call[u].cred \in Int
        BY DEF AInv, TypeOK, Calls
    <3> QED BY <2>1, <2>2, <3>1 DEF Protected
  <2>5. OneRefresh'
      BY <2>1, <2>3 DEF Protected, OneRefresh, At
  <2>6. \A u \in Tasks : call'[u].stage \in {"asking", "granted"} => call'[u].cred = newest'
      BY <1>1, <1>2, <2>1 DEF Protected, CallIs
  <2>7. ~replayed' /\ disk' <= newest' /\ disk' = newest'
      BY <1>1, <2>1, <2>2 DEF Protected
  <2> QED BY <2>3, <2>4, <2>5, <2>6, <2>7 DEF Protected, OneRefresh
<1> QED BY <1>3, <1>4, <1>5 DEF AInv

LEMMA UpdateInv == ASSUME AInv, NEW t \in Tasks, Update(t) PROVE AInv'
<1> USE FileLockAssumption, AuthAssumption
<1>1. /\ Inner /\ step[t] = "inside" /\ call[t].kind = "update" /\ call[t].stage = "locked"
      /\ UNCHANGED <<newest, fresh, replayed>> /\ disk' = Stored(t)
    BY DEF Update, Inner
<1>2. CallIs(t, "update", "done", call[t].cred)
  <2>1. call[t] \in Calls /\ call' = [call EXCEPT ![t].stage = "done"]
      BY DEF Update, Stage, AInv, TypeOK
  <2>2. call[t].cred \in 0..MaxRefreshes
      BY <2>1 DEF Calls
  <2> QED BY <1>1, <2>1, <2>2, CallWritten DEF AInv, TypeOK
<1>3. TypeOK'
    BY <1>1, <1>2, InnerFacts DEF AInv, TypeOK, CallIs
<1>4. Stages'
    BY <1>1, <1>2, InnerFacts DEF AInv, Stages, CallIs
<1>5. ASSUME Undisturbed' PROVE Protected'
  <2>1. Undisturbed /\ Protected /\ disk' = disk /\ At("inside")' = At("inside")
      BY <1>1, <1>5, InnerFacts
  <2>2. \A u \in Tasks : call'[u].kind = call[u].kind
      BY <1>1, <1>2 DEF CallIs
  <2>3. OneRefresh'
      BY <2>1, <2>2 DEF Protected, OneRefresh, At
  <2>4. \A u \in Tasks :
            /\ \/ call'[u].stage = call[u].stage /\ call'[u].cred = call[u].cred
               \/ call[u].stage # "granted" /\ call'[u].stage \notin {"asking", "granted"}
            /\ call'[u].kind = "update" => call'[u].cred <= disk
      BY <1>1, <1>2, <2>1 DEF CallIs, Protected
  <2> QED BY <1>1, <2>1, <2>3, <2>4, StaysProtected
<1> QED BY <1>3, <1>4, <1>5 DEF AInv

-----------------------------------------------------------------------------
(* Steps in which the lock moves.                                            *)

\* A task that begins has not got past the start of a call before.
LEMMA BeginInv ==
    ASSUME AInv, Locks, NEW t \in Tasks, NEW k \in {"refresh", "update"}, Begin(t, k)
    PROVE  AInv'
<1> USE FileLockAssumption, AuthAssumption
<1>1. /\ step[t] = "idle" /\ robbed' = robbed /\ UNCHANGED <<disk, newest, fresh, snapshot, replayed>>
      /\ step' = [step EXCEPT ![t] = IF Join(t) THEN "inside" ELSE "open"]
      /\ excused' = (excused \/ (Join(t) /\ k = "refresh" /\ Refreshers(ProcessOf[t]) # {}))
    BY DEF Begin, Join, Approach, Move
<1>2. LockTypeOK' /\ snapshot' \in [Processes -> 0..MaxRefreshes \cup {NoSnapshot}] /\ LockTypeOK
    BY <1>1 DEF Locks, LInv, AInv, TypeOK
<1>3. Stored(t) \in 0..MaxRefreshes /\ (Undisturbed => Stored(t) = disk)
  <2>1. /\ ProcessOf[t] \in Processes /\ disk \in 0..MaxRefreshes
        /\ snapshot[ProcessOf[t]] \in 0..MaxRefreshes \cup {NoSnapshot}
      BY DEF AInv, TypeOK
  <2> QED BY <2>1 DEF Stored, Undisturbed
<1>4. CallIs(t, k, "locked", Stored(t))
  <2>1. call \in [Tasks -> Calls]
      BY DEF AInv, TypeOK
  <2>2. k \in {"none", "refresh", "update"} /\ Stored(t) \in 0..MaxRefreshes
      BY <1>3
  <2>3. call' = [call EXCEPT ![t] = [kind |-> k, stage |-> "locked", cred |-> Stored(t)]]
      BY DEF Begin
  <2> QED BY <2>1, <2>2, <2>3, CallWritten
<1>5. \A u \in Tasks : u # t => step'[u] = step[u]
    BY <1>1, <1>2 DEF LockTypeOK
<1>6. TypeOK'
  <2>1. excused' \in BOOLEAN
      BY <1>1 DEF AInv, TypeOK
  <2> QED BY <1>1, <1>2, <1>4, <2>1 DEF AInv, TypeOK, CallIs
<1>7. Stages'
    BY <1>4, <1>5 DEF AInv, Stages, CallIs
<1>8. ASSUME Undisturbed' PROVE Protected'
  <2>1. Undisturbed /\ Protected /\ ~robbed'
      BY <1>1, <1>8 DEF AInv, TypeOK, Undisturbed
  <2>2. OneRefresh'
    <3>1. SUFFICES ASSUME NEW u \in At("inside")', NEW w \in At("inside")', u # w,
                          call'[u].kind = "refresh", call'[w].kind = "refresh"
                   PROVE  FALSE
        BY DEF OneRefresh
    <3>2. ASSUME NEW v \in Tasks, v # t, v \in At("inside")', call'[v].kind = "refresh",
                 t \in At("inside")', call'[t].kind = "refresh"
          PROVE  FALSE
      <4>1. Join(t) /\ k = "refresh"
          BY <1>1, <1>2, <1>4, <3>2 DEF At, LockTypeOK, CallIs
      <4>2. v \in At("inside") /\ call[v].kind = "refresh"
          BY <1>4, <1>5, <3>2 DEF At, CallIs
      <4>3. ProcessOf[v] = ProcessOf[t]
          BY <2>1, <3>2 DEF Locks, LockExclusive
      <4>4. v \in Refreshers(ProcessOf[t])
          BY <4>2, <4>3 DEF Refreshers, Insiders
      <4> QED BY <1>1, <1>8, <4>1, <4>4 DEF Undisturbed
    <3>3. u # t /\ w # t
        BY <3>1, <3>2 DEF At
    <3> QED BY <1>4, <1>5, <2>1, <3>1, <3>3 DEF Protected, CallIs, At
  <2>3. \A u \in Tasks :
            /\ \/ call'[u].stage = call[u].stage /\ call'[u].cred = call[u].cred
               \/ call[u].stage # "granted" /\ call'[u].stage \notin {"asking", "granted"}
            /\ call'[u].kind = "update" => call'[u].cred <= disk
    <3>1. call[t].stage # "granted" /\ disk <= disk
        BY <1>1 DEF AInv, Stages, TypeOK
    <3> QED BY <1>3, <1>4, <2>1, <3>1 DEF CallIs, Protected
  <2> QED BY <1>1, <2>1, <2>2, <2>3, StaysProtected
<1> QED BY <1>6, <1>7, <1>8 DEF AInv

LEMMA EndInv == ASSUME AInv, Locks, NEW t \in Tasks, End(t) PROVE AInv'
<1> USE FileLockAssumption, AuthAssumption
<1>1. /\ robbed' = robbed /\ UNCHANGED <<disk, newest, fresh, snapshot, excused, replayed>>
      /\ step[t] = "inside" /\ call[t].stage = "done"
      /\ \E s \in {"unlink", "idle"} : step' = [step EXCEPT ![t] = s]
    BY DEF End, Release, Move
<1>2. LockTypeOK' /\ LockTypeOK
    BY DEF Locks, LInv
<1>3. CallIs(t, "none", "locked", 0)
  <2>1. 0 \in 0..MaxRefreshes
      OBVIOUS
  <2> QED BY <2>1, CallWritten DEF End, NoCall, AInv, TypeOK
<1>4. step'[t] # "inside" /\ \A u \in Tasks : u # t => step'[u] = step[u]
    BY <1>1, <1>2 DEF LockTypeOK
<1>5. TypeOK'
    BY <1>1, <1>2, <1>3 DEF AInv, TypeOK, CallIs
<1>6. Stages'
    BY <1>3, <1>4 DEF AInv, Stages, CallIs
<1>7. ASSUME Undisturbed' PROVE Protected'
  <2>1. Undisturbed /\ Protected
      BY <1>1, <1>7 DEF AInv, Undisturbed
  <2>2. OneRefresh'
      BY <1>3, <1>4, <2>1 DEF Protected, OneRefresh, At, CallIs
  <2>3. \A u \in Tasks :
            /\ \/ call'[u].stage = call[u].stage /\ call'[u].cred = call[u].cred
               \/ call[u].stage # "granted" /\ call'[u].stage \notin {"asking", "granted"}
            /\ call'[u].kind = "update" => call'[u].cred <= disk
      BY <1>1, <1>3, <2>1 DEF CallIs, Protected
  <2> QED BY <1>1, <2>1, <2>2, <2>3, StaysProtected
<1> QED BY <1>5, <1>6, <1>7 DEF AInv

\* A task on its way to the lock, or away from it without having got it: only
\* one that has created the file goes in, and then nobody else is inside.
LEMMA AcquiringInv ==
    ASSUME AInv, Locks, NEW t \in Tasks, Acquiring(t)
    PROVE  AInv'
<1> USE FileLockAssumption, AuthAssumption
<1> DEFINE failed == step'[t] = "idle"
<1>1. /\ UNCHANGED <<newest, fresh, snapshot, replayed>> /\ step[t] # "inside"
      /\ call' = IF failed THEN [call EXCEPT ![t] = NoCall] ELSE call
      /\ disk' = IF failed /\ call[t].kind = "update" THEN call[t].cred ELSE disk
      /\ excused' = (excused \/ disk' < disk)
    BY DEF Acquiring, Acquire, Create, Exists, Write, WriteFails, Inspect, RemoveStale
<1>2. \E s \in Steps : step' = [step EXCEPT ![t] = s]
    BY DEF Acquiring, Acquire, Create, Exists, Write, WriteFails, Inspect, RemoveStale, Move, Retry, Steps
<1>3. LockTypeOK' /\ LockTypeOK /\ (~robbed' => ~robbed)
    BY DEF Locks, LInv, LockTypeOK, Acquiring, Acquire, Create, Exists, Write, WriteFails,
           Inspect, RemoveStale, RemoveFile
<1>4. \A u \in Tasks : u # t => step'[u] = step[u]
    BY <1>2, <1>3 DEF LockTypeOK
<1>5. /\ call[t] \in Calls /\ call[t].cred \in 0..MaxRefreshes /\ call[t].stage = "locked"
      /\ disk \in 0..MaxRefreshes /\ disk' \in 0..MaxRefreshes
    BY <1>1 DEF AInv, TypeOK, Calls, Stages
<1>6. /\ call' \in [Tasks -> Calls]
      /\ \A u \in Tasks : u # t => call'[u] = call[u]
      /\ call'[t].stage = "locked" /\ call'[t].cred \in 0..MaxRefreshes
      /\ failed => call'[t].kind = "none"
      /\ ~failed => call'[t] = call[t]
  <2>1. CASE failed
    <3>1. CallIs(t, "none", "locked", 0)
      <4>1. 0 \in 0..MaxRefreshes
          OBVIOUS
      <4> QED BY <1>1, <2>1, <4>1, CallWritten DEF NoCall, AInv, TypeOK
    <3> QED BY <2>1, <3>1 DEF CallIs
  <2>2. CASE ~failed
      BY <1>1, <1>5, <2>2 DEF AInv, TypeOK
  <2> QED BY <2>1, <2>2
<1>7. TypeOK'
  <2>1. excused' \in BOOLEAN
      BY <1>1 DEF AInv, TypeOK
  <2> QED BY <1>1, <1>3, <1>5, <1>6, <2>1 DEF AInv, TypeOK
<1>8. Stages'
    BY <1>1, <1>4, <1>6 DEF AInv, Stages
<1>9. ASSUME Undisturbed' PROVE Protected'
  <2>1. Undisturbed /\ Protected /\ ~(disk' < disk)
      BY <1>1, <1>3, <1>9 DEF AInv, TypeOK, Undisturbed
  <2>2. disk' = disk
      BY <1>1, <1>5, <2>1 DEF Protected
  <2>3. ASSUME t \in At("inside")' PROVE At("inside") = {}
    <3>1. Write(t)
        BY <1>2, <2>3 DEF At, Acquiring, Acquire, Create, Exists, WriteFails, Inspect,
                          RemoveStale, Move, Retry, Locks, LInv, LockTypeOK
    <3>2. Mine(t) /\ ~file.written
        BY <2>1, <3>1 DEF Write, At, Locks, LInv, Possession, Undisturbed
    <3> QED BY <2>1, <3>2 DEF Mine, Locks, LInv, Possession, Undisturbed
  <2>4. OneRefresh'
      BY <1>4, <1>6, <2>1, <2>3 DEF Protected, OneRefresh, At
  <2>5. \A u \in Tasks :
            /\ \/ call'[u].stage = call[u].stage /\ call'[u].cred = call[u].cred
               \/ call[u].stage # "granted" /\ call'[u].stage \notin {"asking", "granted"}
            /\ call'[u].kind = "update" => call'[u].cred <= disk
      BY <1>5, <1>6, <2>1 DEF Protected
  <2> QED BY <1>1, <2>1, <2>2, <2>4, <2>5, StaysProtected
<1> QED BY <1>7, <1>8, <1>9 DEF AInv

\* A process that dies takes its calls with it.
LEMMA DieInv == ASSUME AInv, Locks, NEW p \in Processes, Die(p) PROVE AInv'
<1> USE FileLockAssumption, AuthAssumption
<1>1. /\ UNCHANGED <<disk, newest, fresh, snapshot, replayed, robbed>>
      /\ excused' = (excused \/ \E t \in Tasks : ProcessOf[t] = p /\ call[t].stage = "granted")
      /\ call' = [t \in Tasks |-> IF ProcessOf[t] = p THEN NoCall ELSE call[t]]
      /\ step' = [t \in Tasks |-> IF ProcessOf[t] = p THEN "gone" ELSE step[t]]
    BY DEF Die, Crash
<1>2. LockTypeOK'
    BY DEF Locks, LInv
<1>3. NoCall \in Calls
    BY DEF NoCall, Calls
<1>4. TypeOK'
  <2>1. excused' \in BOOLEAN
      BY <1>1 DEF AInv, TypeOK
  <2> QED BY <1>1, <1>2, <1>3, <2>1 DEF AInv, TypeOK
<1>5. \A t \in Tasks :
          /\ ProcessOf[t] = p => /\ call'[t].stage = "locked" /\ call'[t].kind = "none"
                                 /\ step'[t] # "inside"
          /\ ProcessOf[t] # p => call'[t] = call[t] /\ step'[t] = step[t]
    BY <1>1 DEF NoCall
<1>6. Stages'
    BY <1>5 DEF AInv, Stages
<1>7. ASSUME Undisturbed' PROVE Protected'
  <2>1. /\ Undisturbed /\ Protected
        /\ \A t \in Tasks : ProcessOf[t] = p => call[t].stage # "granted"
      BY <1>1, <1>7 DEF AInv, TypeOK, Undisturbed
  <2>2. OneRefresh'
      BY <1>5, <2>1 DEF Protected, OneRefresh, At
  <2>3. \A u \in Tasks :
            /\ \/ call'[u].stage = call[u].stage /\ call'[u].cred = call[u].cred
               \/ call[u].stage # "granted" /\ call'[u].stage \notin {"asking", "granted"}
            /\ call'[u].kind = "update" => call'[u].cred <= disk
      BY <1>5, <2>1 DEF Protected
  <2> QED BY <1>1, <2>1, <2>2, <2>3, StaysProtected
<1> QED BY <1>4, <1>6, <1>7 DEF AInv

\* Time, a token that expires, a secrets snapshot, and the removal of the lock
\* file by the task that leaves last.
LEMMA SurroundingsInv ==
    ASSUME AInv, Locks,
           \/ Aging \/ Expire \/ (\E p \in Processes : Activate(p))
           \/ \E t \in Tasks : Unlink(t) /\ UNCHANGED authVars
    PROVE  AInv'
<1> USE FileLockAssumption, AuthAssumption
<1>1. /\ UNCHANGED <<disk, newest, call, excused, replayed>>
      /\ \A t \in Tasks : step[t] = "inside" <=> step'[t] = "inside"
  <2>1. CASE Aging \/ Expire \/ \E p \in Processes : Activate(p)
      BY <2>1 DEF Aging, Age, Expire, Activate, authVars, lockVars
  <2>2. ASSUME NEW t \in Tasks, Unlink(t) /\ UNCHANGED authVars
        PROVE  /\ UNCHANGED <<disk, newest, call, excused, replayed>>
               /\ \A u \in Tasks : step[u] = "inside" <=> step'[u] = "inside"
    <3>1. step[t] = "unlink" /\ step' = [step EXCEPT ![t] = "idle"]
        BY <2>2 DEF Unlink, Move
    <3> QED BY <2>2, <3>1 DEF authVars, Locks, LInv, LockTypeOK
  <2> QED BY <2>1, <2>2
<1>2. /\ fresh' \in BOOLEAN /\ snapshot' \in [Processes -> 0..MaxRefreshes \cup {NoSnapshot}]
      /\ snapshot' = [p \in Processes |-> NoSnapshot] => snapshot' = snapshot
      /\ ~robbed' => ~robbed
  <2>1. CASE Aging
      BY <2>1 DEF Aging, Age, authVars, AInv, TypeOK
  <2>2. CASE Expire
      BY <2>2 DEF Expire, lockVars, AInv, TypeOK
  <2>3. ASSUME NEW p \in Processes, Activate(p) PROVE <1>2
    <3>1. snapshot' = [snapshot EXCEPT ![p] = disk] /\ disk \in 0..MaxRefreshes
        BY <2>3 DEF Activate, AInv, TypeOK
    <3>2. snapshot'[p] # NoSnapshot
        BY <3>1 DEF AInv, TypeOK
    <3> QED BY <2>3, <3>1, <3>2 DEF Activate, AInv, TypeOK, lockVars
  <2>4. ASSUME NEW t \in Tasks, Unlink(t) /\ UNCHANGED authVars PROVE <1>2
      BY <2>4 DEF Unlink, authVars, AInv, TypeOK, LockTypeOK
  <2> QED BY <2>1, <2>2, <2>3, <2>4
<1>3. TypeOK'
    BY <1>1, <1>2 DEF AInv, TypeOK, Locks, LInv
<1>4. Stages'
    BY <1>1 DEF AInv, Stages
<1>5. ASSUME Undisturbed' PROVE Protected'
  <2>1. Undisturbed /\ Protected
      BY <1>1, <1>2, <1>5 DEF AInv, Undisturbed
  <2>2. OneRefresh'
      BY <1>1, <2>1 DEF Protected, OneRefresh, At
  <2> QED BY <1>1, <2>1, <2>2 DEF Protected, OneRefresh
<1> QED BY <1>3, <1>4, <1>5 DEF AInv

-----------------------------------------------------------------------------
(* The theorems.                                                             *)

\* The strengthening, and with it the type invariant.
THEOREM AuthInvariant == Spec => [](AInv /\ LInv)
<1>1. AInv /\ Locks /\ [Next]_vars => AInv'
  <2> SUFFICES ASSUME AInv, Locks, [Next]_vars PROVE AInv'
      OBVIOUS
  <2>1. CASE UNCHANGED vars
      BY <2>1 DEF vars, AInv, TypeOK, LockTypeOK, Stages, Undisturbed, Protected, At
  <2>2. ASSUME NEW t \in Tasks, Continue(t) PROVE AInv'
      BY <2>2, AcquiringInv, LoadInv, GrantInv, RejectInv, SaveInv, UpdateInv, EndInv,
         SurroundingsInv DEF Continue
  <2>3. ASSUME NEW t \in Tasks, NEW k \in {"refresh", "update"}, Begin(t, k) PROVE AInv'
      BY <2>3, BeginInv
  <2>4. CASE Aging \/ Expire \/ \E p \in Processes : Activate(p)
      BY <2>4, SurroundingsInv
  <2>5. ASSUME NEW p \in Processes, Die(p) PROVE AInv'
      BY <2>5, DieInv
  <2> QED BY <2>1, <2>2, <2>3, <2>4, <2>5, AuthAssumption DEF Next
<1> QED BY <1>1, AuthInit, CallsExclude, PTL DEF Spec, Locks

\* The types of the store, the snapshots and the calls, and of the lock.
THEOREM TypeCorrect == Spec => []TypeOK
    BY AuthInvariant, PTL DEF AInv

\* A refresh token is used once, by whatever process.
THEOREM TokenUsedOnce == Spec => []UsedOnce
<1>1. AInv => UsedOnce
    BY DEF AInv, UsedOnce, Protected
<1> QED BY <1>1, AuthInvariant, PTL

\* No older credential gets back into the store.
THEOREM StoreNeverPutBack == Spec => NeverPutBack
<1>1. AInv /\ [Next]_vars => [Undisturbed /\ ~excused' => disk' >= disk]_vars
  <2> SUFFICES ASSUME AInv, [Next]_vars, Undisturbed, ~excused', disk' # disk
               PROVE  disk' >= disk
      BY DEF AInv, TypeOK, vars
  <2> USE FileLockAssumption, AuthAssumption
  <2>1. PICK t \in Tasks : Acquiring(t) \/ Save(t) \/ Update(t)
      BY DEF Next, vars, Continue, Load, Grant, Reject, End, authVars, Aging, Begin, Expire,
             Activate, Die
  <2>2. /\ disk \in 0..MaxRefreshes /\ newest \in 0..MaxRefreshes
        /\ call[t].cred \in 0..MaxRefreshes /\ ProcessOf[t] \in Processes
      BY DEF AInv, TypeOK, Calls
  <2>3. CASE Acquiring(t)
    <3>1. ~(disk' < disk)
        BY <2>3 DEF Acquiring, AInv, TypeOK
    <3>2. disk' \in 0..MaxRefreshes
        BY <2>2, <2>3 DEF Acquiring
    <3> QED BY <2>2, <3>1, <3>2
  <2>4. CASE Save(t)
      BY <2>2, <2>4 DEF Save, AInv, Protected, Undisturbed
  <2>5. CASE Update(t)
      BY <2>2, <2>5 DEF Update, Stored, Undisturbed
  <2> QED BY <2>1, <2>3, <2>4, <2>5
<1> QED BY <1>1, AuthInvariant, PTL DEF Spec, NeverPutBack
=============================================================================
