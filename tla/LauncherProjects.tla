--------------------------- MODULE LauncherProjects ---------------------------
(***************************************************************************)
(* The launcher beside the project store: a request that deletes a project *)
(* (server/routes/compose.py and core/projects.py) while others launch,    *)
(* stop and restart it. The store serialises its own writes under          *)
(* _WRITE_LOCK, the launcher under _lifecycle_lock, and all they share is  *)
(* the project directory and the running.json in it.                       *)
(***************************************************************************)
EXTENDS Launcher

CONSTANT Editors      \* the request threads that delete projects

VARIABLES
    present,    \* the projects that are there: their directory has a profile
    dirs,       \* the directories under SYSTEMS_ROOT
    wlock,      \* the editor that holds _WRITE_LOCK, or None
    epc,        \* epc[e]: where editor e is
    victim      \* victim[e]: the project e deletes

storeVars == <<present, dirs, wlock, epc, victim>>
allVars == <<vars, storeVars>>

StoreInit ==
    /\ Init
    /\ present = Projects
    /\ dirs = Projects
    /\ wlock = None
    /\ epc = [e \in Editors |-> "idle"]
    /\ victim = [e \in Editors |-> None]

-----------------------------------------------------------------------------
(* The launcher's steps, with what they do to and need of the directories. *)

\* The routes answer 404 for a project that is not there.
ArrivePresent(t) ==
    /\ \E o \in Ops, p \in present : Arrive(t, o, p)
    /\ UNCHANGED storeVars

\* materialize_launch_config and _spawn make the directories they write into;
\* restart reads the project again first.
PrepareDir(t) ==
    /\ PrepareGo(t)
    /\ op[t] = "restart" => name[t] \in present
    /\ dirs' = dirs \cup {name[t]}
    /\ UNCHANGED <<present, wlock, epc, victim>>

OpenLogDir(t) ==
    /\ OpenLog(t)
    /\ dirs' = dirs \cup {name[t]}
    /\ UNCHANGED <<present, wlock, epc, victim>>

OpenRecordDir(t) ==
    /\ OpenRecord(t)
    /\ name[t] \in dirs
    /\ UNCHANGED storeVars

OtherStep ==
    /\ \/ \E t \in Threads :
            \/ Poll(t) \/ Acquire(t) \/ ReadManaged(t) \/ UnlinkStale(t) \/ ScanEnds(t) \/ Probe(t)
            \/ \E p \in Projects : Scan(t, p) \/ Rescan(t, p)
            \/ DecideRefuse(t) \/ DecideGo(t) \/ PrepareRefuse(t)
            \/ StopReadState(t) \/ KillManaged(t) \/ RescanEnds(t)
            \/ TerminateDetached(t) \/ ForgetDetached(t)
            \/ Popen(t) \/ PopenFails(t) \/ WriteRecord(t) \/ Publish(t)
            \/ StartReader(t) \/ SpawnFails(t) \/ AbortClear(t) \/ AbortKill(t)
       \/ \E x \in Pids : Read(x) \/ RuntimeExits(x)
    /\ UNCHANGED storeVars

-----------------------------------------------------------------------------
(* Deleting a project.                                                     *)

\* is_running: the project's running.json names a live process.
IsRunning(p) == record[p] \in alive

EditorAnswer(e) ==
    /\ epc' = [epc EXCEPT ![e] = "idle"]
    /\ victim' = [victim EXCEPT ![e] = None]
    /\ wlock' = IF wlock = e THEN None ELSE wlock

EditorGoto(e, label) == epc' = [epc EXCEPT ![e] = label]

AskDelete(e, p) ==
    /\ epc[e] = "idle"
    /\ EditorGoto(e, "route")
    /\ victim' = [victim EXCEPT ![e] = p]
    /\ UNCHANGED <<vars, present, dirs, wlock>>

\* The route asks is_running before it calls the store.
RouteCheck(e) ==
    /\ epc[e] = "route"
    /\ IF IsRunning(victim[e])
       THEN EditorAnswer(e)
       ELSE EditorGoto(e, "wait") /\ UNCHANGED <<victim, wlock>>
    /\ UNCHANGED <<vars, present, dirs>>

TakeWriteLock(e) ==
    /\ epc[e] = "wait"
    /\ wlock = None
    /\ wlock' = e
    /\ EditorGoto(e, "check")
    /\ UNCHANGED <<vars, present, dirs, victim>>

\* delete_project: not found, running, or on to rmtree.
DeleteCheck(e) ==
    /\ epc[e] = "check"
    /\ IF victim[e] \notin dirs \/ IsRunning(victim[e])
       THEN EditorAnswer(e)
       ELSE EditorGoto(e, "rmtree") /\ UNCHANGED <<victim, wlock>>
    /\ UNCHANGED <<vars, present, dirs>>

Rmtree(e) ==
    /\ epc[e] = "rmtree"
    /\ present' = present \ {victim[e]}
    /\ dirs' = dirs \ {victim[e]}
    /\ record' = [record EXCEPT ![victim[e]] = None]
    /\ EditorAnswer(e)
    /\ UNCHANGED <<lock, state, procVars, reader, reqVars, crashes>>

StoreNext ==
    \/ \E t \in Threads : ArrivePresent(t) \/ PrepareDir(t) \/ OpenLogDir(t) \/ OpenRecordDir(t)
    \/ OtherStep
    \/ \E e \in Editors : \/ \E p \in Projects : AskDelete(e, p)
                          \/ RouteCheck(e) \/ TakeWriteLock(e) \/ DeleteCheck(e) \/ Rmtree(e)

StoreSpec == StoreInit /\ [][StoreNext]_allVars

-----------------------------------------------------------------------------

\* The store's check lets no delete pass while the workbench tracks the project's
\* runtime as running ("Blocked if the project is currently running").
DeleteBlocked ==
    [][\A e \in Editors :
          epc[e] = "check" /\ epc'[e] = "rmtree"
              => ~(state.process \in alive /\ state.project = victim[e])]_allVars
=============================================================================
