----------------------------- MODULE AuthRefresh -----------------------------
(***************************************************************************)
(* The OAuth credential of a profile in the auth store and the calls that   *)
(* use it under the store's file lock: refreshOAuthTokenWithLock            *)
(* (src/src/agents/auth-profiles/oauth.ts) and the updates of usage and     *)
(* order (updateAuthProfileStoreWithLock, store.ts), which write the whole  *)
(* store.  A credential is the number of the refresh that has brought it:   *)
(* the provider replaces the refresh token at every refresh and accepts     *)
(* the newest one only.  A process that has activated a secrets snapshot    *)
(* reads its copy of the store instead of the file.  One profile of one     *)
(* agent directory; the store of the main agent, other profiles and what    *)
(* the usage statistics say are left out.                                   *)
(***************************************************************************)
EXTENDS FileLock

CONSTANTS
    Plugin,       \* the provider's plugin refreshes the credential
    RefreshTasks, \* the tasks that may refresh the credential ...
    UpdateTasks,  \* ... and those that may update the store
    Activated,    \* the processes that may have a secrets snapshot
    NoSnapshot,   \* value: the process has no snapshot
    MaxRefreshes  \* bound: of refreshes the provider grants

ASSUME AuthAssumption ==
    /\ MaxRefreshes \in Nat /\ NoSnapshot \notin 0..MaxRefreshes /\ Activated \subseteq Processes
    /\ RefreshTasks \cup UpdateTasks \subseteq Tasks /\ Plugin \in BOOLEAN

VARIABLES
    disk,      \* the credential in auth-profiles.json
    newest,    \* the credential the provider accepts
    fresh,     \* its access token has not expired
    snapshot,  \* a process's runtimeAuthStoreSnapshots
    call,      \* what a task is about, and the credential it holds
    excused,   \* history: what the lock does not protect from has happened
    replayed   \* history: a credential was presented that is not the newest

authVars == <<disk, newest, fresh, snapshot, call, excused, replayed>>
vars == <<file, held, step, alive, robbed, disk, newest, fresh, snapshot, call,
          excused, replayed>>

Calls == [kind : {"none", "refresh", "update"},
          stage : {"locked", "asking", "granted", "done"},
          cred : 0..MaxRefreshes]
NoCall == [kind |-> "none", stage |-> "locked", cred |-> 0]

Init ==
    /\ LockInit
    /\ disk = 0 /\ newest = 0 /\ fresh = TRUE
    /\ \E S \in SUBSET Activated :
          snapshot = [p \in Processes |-> IF p \in S THEN 0 ELSE NoSnapshot]
    /\ call = [t \in Tasks |-> NoCall]
    /\ excused = FALSE /\ replayed = FALSE

\* ensureAuthProfileStore
Stored(t) == IF snapshot[ProcessOf[t]] # NoSnapshot THEN snapshot[ProcessOf[t]] ELSE disk
Usable(cred) == fresh /\ cred = newest
Stage(t, stage) == [call EXCEPT ![t].stage = stage]

-----------------------------------------------------------------------------
(* Calls.  The caller's copy of the store may be an older one.             *)

Refreshers(p) == {t \in Insiders(p) : call[t].kind = "refresh"}
Begin(t, kind) ==
    /\ Join(t) \/ Approach(t)
    /\ kind = "refresh" => ~Usable(0)
    /\ call' = [call EXCEPT ![t] = [kind |-> kind, stage |-> "locked", cred |-> Stored(t)]]
    /\ excused' = (excused \/ (Join(t) /\ kind = "refresh" /\ Refreshers(ProcessOf[t]) # {}))
    /\ UNCHANGED <<disk, newest, fresh, snapshot, replayed>>

LoadCaller(t) ==
    /\ step[t] = "inside" /\ call[t].kind = "refresh" /\ call[t].stage = "locked"
    /\ call' = [call EXCEPT ![t].stage = IF Usable(call[t].cred) THEN "done" ELSE "asking"]
    /\ UNCHANGED <<lockVars, disk, newest, fresh, snapshot, excused, replayed>>

\* Under the lock the store is read again.
Load(t) ==
    /\ step[t] = "inside" /\ call[t].kind = "refresh" /\ call[t].stage = "locked"
    /\ call' = [call EXCEPT ![t].cred = Stored(t),
                            ![t].stage = IF Usable(Stored(t)) THEN "done" ELSE "asking"]
    /\ UNCHANGED <<lockVars, disk, newest, fresh, snapshot, excused, replayed>>

\* The provider grants a new credential or rejects the old one.
Grant(t) ==
    /\ step[t] = "inside" /\ call[t].stage = "asking"
    /\ call[t].cred = newest /\ newest < MaxRefreshes
    /\ newest' = newest + 1 /\ fresh' = TRUE
    /\ call' = [call EXCEPT ![t].stage = "granted", ![t].cred = newest + 1]
    /\ UNCHANGED <<lockVars, disk, snapshot, excused, replayed>>
Reject(t) ==
    /\ step[t] = "inside" /\ call[t].stage = "asking"
    /\ call' = Stage(t, "done")
    /\ replayed' = (replayed \/ call[t].cred # newest)
    /\ UNCHANGED <<lockVars, disk, newest, fresh, snapshot, excused>>

\* The answer: what a plugin has refreshed is returned without being saved.
Save(t) ==
    /\ step[t] = "inside" /\ call[t].stage = "granted"
    /\ disk' = IF Plugin THEN disk ELSE call[t].cred
    /\ call' = Stage(t, "done")
    /\ UNCHANGED <<lockVars, newest, fresh, snapshot, excused, replayed>>

\* An update reads, changes and writes the store without an await.
UpdateFromCaller(t) ==
    /\ step[t] = "inside" /\ call[t].kind = "update" /\ call[t].stage = "locked"
    /\ disk' = call[t].cred
    /\ call' = Stage(t, "done")
    /\ UNCHANGED <<lockVars, newest, fresh, snapshot, excused, replayed>>
Update(t) ==
    /\ step[t] = "inside" /\ call[t].kind = "update" /\ call[t].stage = "locked"
    /\ disk' = Stored(t)
    /\ call' = Stage(t, "done")
    /\ UNCHANGED <<lockVars, newest, fresh, snapshot, excused, replayed>>

End(t) ==
    /\ Release(t) /\ call[t].stage = "done"
    /\ call' = [call EXCEPT ![t] = NoCall]
    /\ UNCHANGED <<disk, newest, fresh, snapshot, excused, replayed>>

\* Acquiring: a refresh that gets no lock throws; an update then saves the
\* caller's copy of the store without it.
Acquire(t) ==
    \/ Create(t) \/ Exists(t) \/ Write(t) \/ WriteFails(t)
    \/ Inspect(t) \/ RemoveStale(t)
Acquiring(t) ==
    LET failed == step'[t] = "idle"
    IN  /\ Acquire(t)
        /\ call' = IF failed THEN [call EXCEPT ![t] = NoCall] ELSE call
        /\ disk' = IF failed /\ call[t].kind = "update" THEN call[t].cred ELSE disk
        /\ excused' = (excused \/ disk' < disk)
        /\ UNCHANGED <<newest, fresh, snapshot, replayed>>

-----------------------------------------------------------------------------
(* The surroundings.                                                       *)

Expire ==
    /\ fresh /\ newest < MaxRefreshes
    /\ fresh' = FALSE
    /\ UNCHANGED <<lockVars, disk, newest, snapshot, call, excused, replayed>>

\* activateSecretsRuntimeSnapshot, again after a reload of the secrets.
Activate(p) ==
    /\ p \in alive /\ snapshot[p] \notin {NoSnapshot, disk}
    /\ snapshot' = [snapshot EXCEPT ![p] = disk]
    /\ UNCHANGED <<lockVars, disk, newest, fresh, call, excused, replayed>>

Die(p) ==
    /\ Crash(p)
    /\ excused' = (excused \/ \E t \in Tasks : ProcessOf[t] = p /\ call[t].stage = "granted")
    /\ call' = [t \in Tasks |-> IF ProcessOf[t] = p THEN NoCall ELSE call[t]]
    /\ UNCHANGED <<disk, newest, fresh, snapshot, replayed>>

\* What a task does by itself, once it has begun.
Continue(t) ==
    \/ Acquiring(t)
    \/ Load(t) \/ Grant(t) \/ Reject(t) \/ Save(t) \/ Update(t) \/ End(t)
    \/ Unlink(t) /\ UNCHANGED authVars
Aging == Age /\ UNCHANGED authVars

Next ==
    \/ Aging
    \/ \E t \in Tasks : Continue(t)
    \/ \E t \in RefreshTasks : Begin(t, "refresh")
    \/ \E t \in UpdateTasks : Begin(t, "update")
    \/ Expire
    \/ \E p \in Processes : Activate(p) \/ Die(p)

Spec == Init /\ [][Next]_vars

\* File operations and requests return, and time passes for a lock file.
FairSpec == Spec /\ WF_vars(Aging) /\ \A t \in Tasks : WF_vars(Continue(t))

-----------------------------------------------------------------------------
(* Properties.                                                             *)

TypeOK ==
    /\ LockTypeOK
    /\ {disk, newest} \subseteq 0..MaxRefreshes
    /\ snapshot \in [Processes -> 0..MaxRefreshes \cup {NoSnapshot}]
    /\ call \in [Tasks -> Calls]
    /\ {fresh, excused, replayed} \subseteq BOOLEAN

\* What defeats the protection of the credential: a lock that was robbed, a
\* plugin whose grant is not saved, snapshots that no refresh brings up to
\* date, and (excused) refreshes of one process, which the lock lets in together,
\* a process that dies between the grant and the save, and an update that
\* gets no lock and saves its caller's older copy.
Undisturbed ==
    ~robbed /\ ~excused /\ ~Plugin /\ snapshot = [p \in Processes |-> NoSnapshot]

\* Otherwise a refresh token is used once: no task presents one that another
\* task, of whatever process, has already exchanged ...
UsedOnce == Undisturbed => ~replayed

\* ... and neither an update nor a refresh that took long puts an older
\* credential back into the store.
NeverPutBack == [][Undisturbed /\ ~excused' => disk' >= disk]_vars

\* docs/concepts/oauth.md: an expired credential is refreshed under the file
\* lock and the stored credentials are overwritten.  When a refresh is done,
\* what it was granted is in the store.
GrantsAreStored ==
    [][\A t \in Tasks :
        call[t].stage = "granted" /\ call'[t].stage = "done" => disk' = call[t].cred]_vars

=============================================================================
