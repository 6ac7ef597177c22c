------------------------------- MODULE FileLock -------------------------------
(***************************************************************************)
(* The lock file beside a store (src/src/plugin-sdk/file-lock.ts): tasks    *)
(* of several processes acquire and release it, every await between two     *)
(* operations on the file system is a place where others come in.  A        *)
(* process keeps a re-entrant count, so its own tasks join each other.  The *)
(* file has the writer's pid and an age that is below or above the stale    *)
(* limit; time passes for the age only, so a retry delay takes no step of   *)
(* its own, and any attempt may be the last.  Pids that the system hands    *)
(* out again are left out.                                                  *)
(***************************************************************************)
EXTENDS Naturals, FiniteSets

CONSTANTS
    Processes,  \* pids
    Tasks,      \* calls that use the lock
    ProcessOf,  \* the process of a task
    NoFile      \* value: there is no lock file

ASSUME FileLockAssumption ==
    /\ ProcessOf \in [Tasks -> Processes] /\ IsFiniteSet(Tasks)
    /\ NoFile \notin [by : Tasks, written : BOOLEAN, old : BOOLEAN]

VARIABLES
    file,    \* the lock file
    held,    \* HELD_LOCKS: a process's count, 0 without an entry
    step,    \* where a task is
    alive,   \* the processes that have not crashed
    robbed   \* history: the lock of a process in possession was removed

lockVars == <<file, held, step, alive, robbed>>

Steps == {"idle", "open", "write", "inspect", "remove", "inside", "unlink", "gone"}

At(s) == {t \in Tasks : step[t] = s}
Insiders(p) == {t \in At("inside") : ProcessOf[t] = p}
Move(t, s) == step' = [step EXCEPT ![t] = s]

\* The process has created the file and goes on to use or remove it.
Possessed ==
    /\ file # NoFile
    /\ \/ step[file.by] = "write"
       \/ held[ProcessOf[file.by]] > 0
       \/ \E t \in At("unlink") : ProcessOf[t] = ProcessOf[file.by]
RemoveFile == file' = NoFile /\ robbed' = (robbed \/ Possessed)

LockInit ==
    /\ file = NoFile
    /\ held = [p \in Processes |-> 0]
    /\ step = [t \in Tasks |-> "idle"]
    /\ alive = Processes
    /\ robbed = FALSE

-----------------------------------------------------------------------------
(* acquireFileLock.  The count is looked at once, before the first attempt. *)

Join(t) ==
    /\ step[t] = "idle" /\ held[ProcessOf[t]] > 0
    /\ held' = [held EXCEPT ![ProcessOf[t]] = @ + 1]
    /\ Move(t, "inside")
    /\ UNCHANGED <<file, alive, robbed>>
Approach(t) ==
    /\ step[t] = "idle" /\ held[ProcessOf[t]] = 0
    /\ Move(t, "open")
    /\ UNCHANGED <<file, held, alive, robbed>>

\* open "wx": the new file is empty until it is written.
Create(t) ==
    /\ step[t] = "open" /\ file = NoFile
    /\ file' = [by |-> t, written |-> FALSE, old |-> FALSE]
    /\ Move(t, "write")
    /\ UNCHANGED <<held, alive, robbed>>
Exists(t) ==
    /\ step[t] = "open" /\ file # NoFile
    /\ Move(t, "inspect")
    /\ UNCHANGED <<file, held, alive, robbed>>

\* The handle writes to the file it has created, if that is still there.
Mine(t) == file # NoFile /\ file.by = t
Write(t) ==
    /\ step[t] = "write"
    /\ file' = IF Mine(t) THEN [file EXCEPT !.written = TRUE, !.old = FALSE] ELSE file
    /\ held' = [held EXCEPT ![ProcessOf[t]] = 1]
    /\ Move(t, "inside")
    /\ UNCHANGED <<alive, robbed>>

\* A write that fails is thrown on; the empty file stays.
WriteFails(t) ==
    /\ step[t] = "write"
    /\ Move(t, "idle")
    /\ UNCHANGED <<file, held, alive, robbed>>

\* isStaleLock: the payload names a dead process, the file is old, or it is
\* not there any more.  Its two reads are one step.
Retry(t) == \E last \in BOOLEAN : Move(t, IF last THEN "idle" ELSE "open")
StaleTrusting ==
    file = NoFile \/ (file.written /\ (ProcessOf[file.by] \notin alive \/ file.old))
Stale == file = NoFile \/ file.old \/ (file.written /\ ProcessOf[file.by] \notin alive)
Inspect(t) ==
    /\ step[t] = "inspect"
    /\ IF Stale THEN Move(t, "remove") ELSE Retry(t)
    /\ UNCHANGED <<file, held, alive, robbed>>

\* The removal takes whatever file there is by now, and costs an attempt.
RemoveStale(t) ==
    /\ step[t] = "remove"
    /\ RemoveFile /\ Retry(t)
    /\ UNCHANGED <<held, alive>>

-----------------------------------------------------------------------------
(* releaseHeldLock                                                         *)

ReleaseAtOnce(t) ==
    /\ step[t] = "inside"
    /\ held' = [held EXCEPT ![ProcessOf[t]] = 0]
    /\ Move(t, IF held[ProcessOf[t]] > 0 THEN "unlink" ELSE "idle")
    /\ UNCHANGED <<file, alive, robbed>>
Release(t) ==
    LET p == ProcessOf[t]
    IN  /\ step[t] = "inside"
        /\ held' = [held EXCEPT ![p] = IF @ > 0 THEN @ - 1 ELSE 0]
        /\ Move(t, IF held[p] = 1 THEN "unlink" ELSE "idle")
        /\ UNCHANGED <<file, alive, robbed>>

\* rm by path, after the handle is closed: the file may be another's by now.
Unlink(t) ==
    /\ step[t] = "unlink"
    /\ file' = NoFile /\ Move(t, "idle")
    /\ robbed' = (robbed \/ (file # NoFile /\ ProcessOf[file.by] # ProcessOf[t] /\ Possessed))
    /\ UNCHANGED <<held, alive>>

-----------------------------------------------------------------------------
(* The surroundings.                                                       *)

\* The file gets older than options.stale.
Age ==
    /\ file # NoFile /\ ~file.old
    /\ file' = [file EXCEPT !.old = TRUE]
    /\ UNCHANGED <<held, step, alive, robbed>>

Crash(p) ==
    /\ p \in alive
    /\ alive' = alive \ {p}
    /\ held' = [held EXCEPT ![p] = 0]
    /\ step' = [t \in Tasks |-> IF ProcessOf[t] = p THEN "gone" ELSE step[t]]
    /\ UNCHANGED <<file, robbed>>

-----------------------------------------------------------------------------
(* What happens to the lock, whatever its users do with it.                *)

LockStep(t) ==
    \/ Join(t) \/ Approach(t) \/ Create(t) \/ Exists(t) \/ Write(t) \/ WriteFails(t)
    \/ Inspect(t) \/ RemoveStale(t) \/ Release(t) \/ Unlink(t)
LockNext == Age \/ (\E t \in Tasks : LockStep(t)) \/ \E p \in Processes : Crash(p)
LockSpec == LockInit /\ [][LockNext]_lockVars

-----------------------------------------------------------------------------
(* Properties.                                                             *)

LockTypeOK ==
    /\ file = NoFile \/ file \in [by : Tasks, written : BOOLEAN, old : BOOLEAN]
    /\ held \in [Processes -> 0..Cardinality(Tasks)]
    /\ step \in [Tasks -> Steps]
    /\ alive \subseteq Processes /\ robbed \in BOOLEAN

\* As long as nobody has removed the lock of a process that was in
\* possession of it, the tasks that are inside are those of one process, its
\* count is their number, and the lock file is there until the last of them
\* has left, through crashes, failed writes, retries and removals.
LockExclusive ==
    ~robbed =>
        /\ \A t, u \in At("inside") : ProcessOf[t] = ProcessOf[u]
        /\ \A p \in Processes : held[p] = Cardinality(Insiders(p))
        /\ \A t \in At("inside") :
                file # NoFile /\ file.written /\ ProcessOf[file.by] = ProcessOf[t]

\* A lock file that a crash or a failed write has left is removed, if tasks
\* keep coming for the lock.
Orphan == file # NoFile /\ ~Possessed
OrphanRemoved == ([]<>(At("open") # {})) => []<>~Orphan

=============================================================================
