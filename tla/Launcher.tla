------------------------------- MODULE Launcher -------------------------------
(***************************************************************************)
(* The process manager of the workbench, core/launcher.py: what launch,    *)
(* stop, restart and the status poll do when the server runs each request  *)
(* on a thread of its own, beside the log reader thread of every runtime   *)
(* that was started, the runtimes themselves, and a crash of the workbench *)
(* (the runtimes outlive it; running.json is all it finds them by again).  *)
(*                                                                         *)
(* One action is one step that other threads can see: what runs under      *)
(* _state_lock is one step, each access to a running.json is one step.     *)
(* A process id is not used twice (see the README).                        *)
(***************************************************************************)
EXTENDS Naturals, FiniteSets

CONSTANTS
    Projects,     \* the project directories under SYSTEMS_ROOT
    Threads,      \* the request threads of the HTTP server
    Pids,         \* process ids for runtimes: bounds the launches of a run
    Stubborn,     \* pids of processes _terminate_pid cannot end (another user's)
    None,         \* Python's None
    Partial,      \* a running.json that is open and still empty
    MaxCrashes    \* bounds the crashes of the workbench

ASSUME LauncherAssumption ==
    /\ None \notin Projects \cup Pids \cup Threads
    /\ None \notin {"launch", "stop", "restart", "status"}
    /\ Partial \notin Pids \cup {None}
    /\ Stubborn \subseteq Pids
    /\ MaxCrashes \in Nat

VARIABLES
    lock,      \* the thread that holds _lifecycle_lock, or None
    state,     \* _state: the tracked project and process
    record,    \* record[p]: the pid in p's running.json, Partial, or None
    alive,     \* the runtime processes the operating system runs
    reader,    \* reader[x]: the log reader thread of process x
    pc,        \* pc[t]: where request thread t is
    op,        \* op[t]: the operation t serves
    name,      \* name[t]: the project its request names
    todo,      \* todo[t]: the project directories a discovery has yet to visit
    cur,       \* cur[t]: the project a discovery stands at, or reports
    pid,       \* pid[t]: the process t found, or started (Popen's handle)
    kind,      \* kind[t]: what t's snapshot found: none, managed, ...
    \* History, which no action reads except to pick a fresh process id:
    owner,     \* owner[x]: the project x was started for, None before that
    mine,      \* the processes started since the workbench last started
    crashes    \* how often the workbench crashed

scanVars == <<todo, cur, pid, kind>>
reqVars  == <<pc, op, name, todo, cur, pid, kind>>
procVars == <<alive, owner, mine>>
vars == <<lock, state, record, alive, reader, pc, op, name, todo, cur, pid, kind,
          owner, mine, crashes>>

Ops == {"launch", "stop", "restart"}     \* what a request asks for a project
PCs == {"idle", "wait", "managed", "scan", "unlink", "external", "decide",
        "prepare", "stop", "kill", "rescan", "terminate", "forget", "popen",
        "log", "record", "write", "publish", "thread", "abort", "reap"}
Kinds == {"none", "managed", "detached", "external"}
NoState == [project |-> None, process |-> None]

TypeOK ==
    /\ lock \in Threads \cup {None}
    /\ state \in [project : Projects \cup {None}, process : Pids \cup {None}]
    /\ record \in [Projects -> Pids \cup {None, Partial}]
    /\ alive \in SUBSET Pids
    /\ reader \in [Pids -> {"off", "reading", "unlinking", "done"}]
    /\ pc \in [Threads -> PCs]
    /\ op \in [Threads -> Ops \cup {"status", None}]
    /\ name \in [Threads -> Projects \cup {None}]
    /\ todo \in [Threads -> SUBSET Projects]
    /\ cur \in [Threads -> Projects \cup {None}]
    /\ pid \in [Threads -> Pids \cup {None}]
    /\ kind \in [Threads -> Kinds]
    /\ owner \in [Pids -> Projects \cup {None}]
    /\ mine \in SUBSET Pids
    /\ crashes \in 0..MaxCrashes

Init ==
    /\ lock = None
    /\ state = NoState
    /\ record = [p \in Projects |-> None]
    /\ alive = {}
    /\ reader = [x \in Pids |-> "off"]
    /\ pc = [t \in Threads |-> "idle"]
    /\ op = [t \in Threads |-> None]
    /\ name = [t \in Threads |-> None]
    /\ todo = [t \in Threads |-> {}]
    /\ cur = [t \in Threads |-> None]
    /\ pid = [t \in Threads |-> None]
    /\ kind = [t \in Threads |-> "none"]
    /\ owner = [x \in Pids |-> None]
    /\ mine = {}
    /\ crashes = 0

Goto(t, label) == pc' = [pc EXCEPT ![t] = label]

\* The request is answered: its thread ends, and leaves _lifecycle_lock if it
\* holds it (the "with" block of launch, stop and restart).
Answer(t) ==
    /\ Goto(t, "idle")
    /\ op' = [op EXCEPT ![t] = None]
    /\ name' = [name EXCEPT ![t] = None]
    /\ todo' = [todo EXCEPT ![t] = {}]
    /\ cur' = [cur EXCEPT ![t] = None]
    /\ pid' = [pid EXCEPT ![t] = None]
    /\ kind' = [kind EXCEPT ![t] = "none"]
    /\ lock' = IF lock = t THEN None ELSE lock

-----------------------------------------------------------------------------
(* Requests and the lifecycle lock.                                        *)

\* A request arrives on a thread. The stop route first checks the status, and a
\* status poll (get_status) only that: snapshots taken without the lock.
Arrive(t, o, p) ==
    /\ pc[t] = "idle"
    /\ Goto(t, IF o = "stop" THEN "managed" ELSE "wait")
    /\ op' = [op EXCEPT ![t] = o]
    /\ name' = [name EXCEPT ![t] = p]
    /\ UNCHANGED <<lock, state, record, procVars, reader, scanVars, crashes>>

Poll(t) ==
    /\ pc[t] = "idle"
    /\ Goto(t, "managed")
    /\ op' = [op EXCEPT ![t] = "status"]
    /\ UNCHANGED <<lock, state, record, procVars, reader, name, scanVars, crashes>>

\* Mutant: launch and restart run without _lifecycle_lock (before #671).
AcquireNothing(t) ==
    /\ pc[t] = "wait"
    /\ Goto(t, "managed")
    /\ UNCHANGED <<lock, state, record, procVars, reader, op, name, scanVars, crashes>>

Acquire(t) ==
    /\ pc[t] = "wait"
    /\ lock = None
    /\ lock' = t
    /\ Goto(t, "managed")
    /\ UNCHANGED <<state, record, procVars, reader, op, name, scanVars, crashes>>

-----------------------------------------------------------------------------
(* _current_runtime_snapshot: the managed process, then each project's     *)
(* running.json, then a probe of the configured ports.                     *)

\* The discovery or the snapshot returns what it found.
Found(t, k, p, x) ==
    /\ kind' = [kind EXCEPT ![t] = k]
    /\ cur' = [cur EXCEPT ![t] = p]
    /\ pid' = [pid EXCEPT ![t] = x]
    /\ todo' = [todo EXCEPT ![t] = {}]

\* What was found is of no more use to the thread.
Drop(t) == Found(t, "none", None, None)

\* Only the snapshot stop() takes under the lock leaves stale files alone.
CleansStale(t) == op[t] # "stop" \/ lock # t

ReadManaged(t) ==
    /\ pc[t] = "managed"
    /\ IF state.process \in alive
       THEN /\ Found(t, "managed", state.project, state.process)
            /\ Goto(t, "decide")
       ELSE /\ todo' = [todo EXCEPT ![t] = Projects]
            /\ Goto(t, "scan")
            /\ UNCHANGED <<cur, pid, kind>>
    /\ UNCHANGED <<lock, state, record, procVars, reader, op, name, crashes>>

\* The discovery reads one running.json: a live pid ends it, a file that is
\* stale or does not parse is to be unlinked in a step of its own.
Scan(t, p) ==
    /\ pc[t] = "scan"
    /\ p \in todo[t]
    /\ \/ /\ record[p] \in alive
          /\ Found(t, "detached", p, record[p])
          /\ Goto(t, "decide")
       \/ /\ record[p] \notin alive
          /\ record[p] # None /\ CleansStale(t)
          /\ todo' = [todo EXCEPT ![t] = @ \ {p}]
          /\ cur' = [cur EXCEPT ![t] = p]
          /\ Goto(t, "unlink")
          /\ UNCHANGED <<pid, kind>>
       \/ /\ record[p] \notin alive
          /\ record[p] = None \/ ~CleansStale(t)
          /\ todo' = [todo EXCEPT ![t] = @ \ {p}]
          /\ UNCHANGED <<pc, cur, pid, kind>>
    /\ UNCHANGED <<lock, state, record, procVars, reader, op, name, crashes>>

UnlinkStale(t) ==
    /\ pc[t] = "unlink"
    /\ record' = [record EXCEPT ![cur[t]] = None]
    /\ cur' = [cur EXCEPT ![t] = None]
    /\ Goto(t, "scan")
    /\ UNCHANGED <<lock, state, procVars, reader, op, name, todo, pid, kind, crashes>>

ScanEnds(t) ==
    /\ pc[t] = "scan"
    /\ todo[t] = {}
    /\ Goto(t, "external")
    /\ UNCHANGED <<lock, state, record, procVars, reader, op, name, scanVars, crashes>>

\* The probe: the runtime of an installed service, or one the workbench lost
\* track of, may answer on some project's port, or nothing may.
Probe(t) ==
    /\ pc[t] = "external"
    /\ \/ Found(t, "none", None, None)
       \/ \E p \in Projects : Found(t, "external", p, None)
    /\ Goto(t, "decide")
    /\ UNCHANGED <<lock, state, record, procVars, reader, op, name, crashes>>

-----------------------------------------------------------------------------
(* What the operation does with its snapshot.                              *)

Running(t) == kind[t] # "none"

\* Mutant: launch asks only whether the workbench's own process runs.
RefusesManagedOnly(t) ==
    CASE op[t] = "launch"  -> kind[t] = "managed"
      [] op[t] = "stop"    -> IF lock = t THEN Running(t) /\ cur[t] # name[t]
                                          ELSE kind[t] = "external"
      [] op[t] = "restart" -> ~Running(t) \/ kind[t] = "external" \/ cur[t] # name[t]
      [] OTHER             -> FALSE

\* Mutant: stop ends whatever runs (before #670).
RefusesNoOwner(t) ==
    CASE op[t] = "launch"  -> Running(t)
      [] op[t] = "stop"    -> lock # t /\ kind[t] = "external"
      [] op[t] = "restart" -> ~Running(t) \/ kind[t] = "external" \/ cur[t] # name[t]
      [] OTHER             -> FALSE

\* launch: 409 when a runtime runs. stop: 409 for a service (the route), 409
\* when the runtime is another project's. restart: refused when nothing runs,
\* a service runs, or another project runs.
Refuses(t) ==
    CASE op[t] = "launch"  -> Running(t)
      [] op[t] = "stop"    -> IF lock = t THEN Running(t) /\ cur[t] # name[t]
                                          ELSE kind[t] = "external"
      [] op[t] = "restart" -> ~Running(t) \/ kind[t] = "external" \/ cur[t] # name[t]
      [] OTHER             -> FALSE

DecideRefuse(t) ==
    /\ pc[t] = "decide"
    /\ Refuses(t) \/ op[t] = "status"
    /\ Answer(t)
    /\ UNCHANGED <<state, record, procVars, reader, crashes>>

DecideGo(t) ==
    /\ pc[t] = "decide"
    /\ ~Refuses(t)
    /\ op[t] # "status"
    /\ Goto(t, IF op[t] # "stop" THEN "prepare" ELSE IF lock = t THEN "stop" ELSE "wait")
    /\ Drop(t)
    /\ UNCHANGED <<lock, state, record, procVars, reader, op, name, crashes>>

\* Validation, the launch config, and the executable: 422 before anything is
\* started or stopped.
PrepareRefuse(t) ==
    /\ pc[t] = "prepare"
    /\ Answer(t)
    /\ UNCHANGED <<state, record, procVars, reader, crashes>>

PrepareGo(t) ==
    /\ pc[t] = "prepare"
    /\ Goto(t, IF op[t] = "launch" THEN "popen" ELSE "stop")
    /\ UNCHANGED <<lock, state, record, procVars, reader, op, name, scanVars, crashes>>

-----------------------------------------------------------------------------
(* _stop_locked                                                            *)

\* What follows _stop_locked: stop answers, restart spawns.
AfterStop(t) ==
    \/ op[t] = "stop" /\ Answer(t)
    \/ op[t] = "restart" /\ Goto(t, "popen") /\ Drop(t) /\ UNCHANGED <<lock, op, name>>

StopReadState(t) ==
    /\ pc[t] = "stop"
    /\ IF state.process \in alive
       THEN /\ Goto(t, "kill")
            /\ pid' = [pid EXCEPT ![t] = state.process]
            /\ UNCHANGED todo
       ELSE /\ Goto(t, "rescan")
            /\ todo' = [todo EXCEPT ![t] = Projects]
            /\ UNCHANGED pid
    /\ UNCHANGED <<lock, state, record, procVars, reader, op, name, cur, kind, crashes>>

\* Mutant: terminate, without the wait.
KillNoWait(t) ==
    /\ pc[t] = "kill"
    /\ AfterStop(t)
    /\ UNCHANGED <<state, record, procVars, reader, crashes>>

\* terminate, wait, and kill after five seconds: the workbench's own child ends.
KillManaged(t) ==
    /\ pc[t] = "kill"
    /\ alive' = alive \ {pid[t]}
    /\ AfterStop(t)
    /\ UNCHANGED <<state, record, owner, mine, reader, crashes>>

\* The second discovery, which cleans nothing.
Rescan(t, p) ==
    /\ pc[t] = "rescan"
    /\ p \in todo[t]
    /\ IF record[p] \in alive
       THEN Found(t, "detached", p, record[p]) /\ Goto(t, "terminate")
       ELSE todo' = [todo EXCEPT ![t] = @ \ {p}] /\ UNCHANGED <<pc, cur, pid, kind>>
    /\ UNCHANGED <<lock, state, record, procVars, reader, op, name, crashes>>

RescanEnds(t) ==
    /\ pc[t] = "rescan"
    /\ todo[t] = {}
    /\ AfterStop(t)
    /\ UNCHANGED <<state, record, procVars, reader, crashes>>

\* _terminate_pid returns quietly when it may not, or cannot, end the process.
TerminateDetached(t) ==
    /\ pc[t] = "terminate"
    /\ alive' = alive \ ({pid[t]} \ Stubborn)
    /\ Goto(t, "forget")
    /\ UNCHANGED <<lock, state, record, owner, mine, reader, op, name, scanVars, crashes>>

ForgetDetached(t) ==
    /\ pc[t] = "forget"
    /\ record' = IF pid[t] \in alive THEN record ELSE [record EXCEPT ![cur[t]] = None]
    /\ AfterStop(t)
    /\ UNCHANGED <<state, procVars, reader, crashes>>

-----------------------------------------------------------------------------
(* _spawn                                                                  *)

Popen(t) ==
    /\ pc[t] = "popen"
    /\ \E x \in Pids :
          /\ owner[x] = None
          /\ alive' = alive \cup {x}
          /\ mine' = mine \cup {x}
          /\ owner' = [owner EXCEPT ![x] = name[t]]
          /\ pid' = [pid EXCEPT ![t] = x]
    /\ Goto(t, "log")
    /\ UNCHANGED <<lock, state, record, reader, op, name, todo, cur, kind, crashes>>

\* Mutant: the lock is not left when Popen raises.
PopenFailsLocked(t) ==
    /\ pc[t] = "popen"
    /\ Goto(t, "idle")
    /\ Drop(t)
    /\ op' = [op EXCEPT ![t] = None]
    /\ name' = [name EXCEPT ![t] = None]
    /\ UNCHANGED <<lock, state, record, procVars, reader, crashes>>

\* The executable vanished since it was checked, or fork failed.
PopenFails(t) ==
    /\ pc[t] = "popen"
    /\ Answer(t)
    /\ UNCHANGED <<state, record, procVars, reader, crashes>>

OpenLog(t) ==
    /\ pc[t] = "log"
    /\ Goto(t, "record")
    /\ UNCHANGED <<lock, state, record, procVars, reader, op, name, scanVars, crashes>>

\* write_text opens the file, which empties it, and then writes it. A file that
\* was unlinked in between takes the write with it.
OpenRecord(t) ==
    /\ pc[t] = "record"
    /\ record' = [record EXCEPT ![name[t]] = Partial]
    /\ Goto(t, "write")
    /\ UNCHANGED <<lock, state, procVars, reader, op, name, scanVars, crashes>>

WriteRecord(t) ==
    /\ pc[t] = "write"
    /\ record' = IF record[name[t]] = Partial
                 THEN [record EXCEPT ![name[t]] = pid[t]] ELSE record
    /\ Goto(t, "publish")
    /\ UNCHANGED <<lock, state, procVars, reader, op, name, scanVars, crashes>>

\* Mutant: the two fields in the other's place.
PublishSwapped(t) ==
    /\ pc[t] = "publish"
    /\ state' = [project |-> pid[t], process |-> name[t]]
    /\ Goto(t, "thread")
    /\ UNCHANGED <<lock, record, procVars, reader, op, name, scanVars, crashes>>

Publish(t) ==
    /\ pc[t] = "publish"
    /\ state' = [project |-> name[t], process |-> pid[t]]
    /\ Goto(t, "thread")
    /\ UNCHANGED <<lock, record, procVars, reader, op, name, scanVars, crashes>>

StartReader(t) ==
    /\ pc[t] = "thread"
    /\ reader' = [reader EXCEPT ![pid[t]] = "reading"]
    /\ Answer(t)
    /\ UNCHANGED <<state, record, procVars, crashes>>

\* The log, running.json or the reader thread cannot be opened, written, started.
SpawnFails(t) ==
    /\ pc[t] \in {"log", "record", "write", "thread"}
    /\ Goto(t, "abort")
    /\ UNCHANGED <<lock, state, record, procVars, reader, op, name, scanVars, crashes>>

AbortClear(t) ==
    /\ pc[t] = "abort"
    /\ state' = IF state.process = pid[t] THEN NoState ELSE state
    /\ Goto(t, "reap")
    /\ UNCHANGED <<lock, record, procVars, reader, op, name, scanVars, crashes>>

AbortKill(t) ==
    /\ pc[t] = "reap"
    /\ alive' = alive \ {pid[t]}
    /\ Answer(t)
    /\ UNCHANGED <<state, record, owner, mine, reader, crashes>>

-----------------------------------------------------------------------------
(* The log reader thread: _read_logs and _cleanup_after_exit.              *)

\* Mutant: without the guard, an earlier runtime's reader clears the next one's state.
ReaderCleanupUnguarded(x) ==
    /\ reader[x] = "reading"
    /\ x \notin alive
    /\ state' = NoState
    /\ reader' = [reader EXCEPT ![x] = "unlinking"]
    /\ UNCHANGED <<lock, record, procVars, reqVars, crashes>>

\* Standard output closed. The state is cleared only while it is still this
\* process's; its running.json goes in a step of its own, under no lock.
ReaderCleanup(x) ==
    /\ reader[x] = "reading"
    /\ x \notin alive
    /\ IF state.process = x
       THEN state' = NoState /\ reader' = [reader EXCEPT ![x] = "unlinking"]
       ELSE reader' = [reader EXCEPT ![x] = "done"] /\ UNCHANGED state
    /\ UNCHANGED <<lock, record, procVars, reqVars, crashes>>

\* _state's project and process are set together, so the project is x's owner.
ReaderUnlink(x) ==
    /\ reader[x] = "unlinking"
    /\ record' = [record EXCEPT ![owner[x]] = None]
    /\ reader' = [reader EXCEPT ![x] = "done"]
    /\ UNCHANGED <<lock, state, procVars, reqVars, crashes>>

\* A line cannot be written to latest.log: the thread ends and cleans up nothing.
ReaderFails(x) ==
    /\ reader[x] = "reading"
    /\ reader' = [reader EXCEPT ![x] = "done"]
    /\ UNCHANGED <<lock, state, record, procVars, reqVars, crashes>>

-----------------------------------------------------------------------------
(* The runtimes, and the workbench itself.                                 *)

RuntimeExits(x) ==
    /\ x \in alive
    /\ alive' = alive \ {x}
    /\ UNCHANGED <<lock, state, record, owner, mine, reader, reqVars, crashes>>

\* The workbench dies and is started again: every thread is gone, _state is
\* fresh, and cleanup_stale_running_files keeps only the files of live pids.
CrashRestart ==
    /\ crashes < MaxCrashes
    /\ crashes' = crashes + 1
    /\ lock' = None
    /\ state' = NoState
    /\ reader' = [x \in Pids |-> "off"]
    /\ mine' = {}
    /\ record' = [p \in Projects |-> IF record[p] \in alive THEN record[p] ELSE None]
    /\ pc' = [t \in Threads |-> "idle"]
    /\ op' = [t \in Threads |-> None]
    /\ name' = [t \in Threads |-> None]
    /\ todo' = [t \in Threads |-> {}]
    /\ cur' = [t \in Threads |-> None]
    /\ pid' = [t \in Threads |-> None]
    /\ kind' = [t \in Threads |-> "none"]
    /\ UNCHANGED <<alive, owner>>

-----------------------------------------------------------------------------

\* A step of a thread that is serving a request.
Serve(t) ==
    \/ Acquire(t) \/ ReadManaged(t) \/ UnlinkStale(t) \/ ScanEnds(t) \/ Probe(t)
    \/ \E p \in Projects : Scan(t, p) \/ Rescan(t, p)
    \/ DecideRefuse(t) \/ DecideGo(t) \/ PrepareRefuse(t) \/ PrepareGo(t)
    \/ StopReadState(t) \/ KillManaged(t) \/ RescanEnds(t)
    \/ TerminateDetached(t) \/ ForgetDetached(t)
    \/ Popen(t) \/ PopenFails(t) \/ OpenLog(t) \/ OpenRecord(t) \/ WriteRecord(t)
    \/ Publish(t) \/ StartReader(t) \/ SpawnFails(t) \/ AbortClear(t) \/ AbortKill(t)

Read(x) == ReaderCleanup(x) \/ ReaderUnlink(x) \/ ReaderFails(x)

Next ==
    \/ \E t \in Threads : Serve(t)
    \/ \E t \in Threads : Poll(t) \/ \E o \in Ops, p \in Projects : Arrive(t, o, p)
    \/ \E x \in Pids : Read(x) \/ RuntimeExits(x)
    \/ CrashRestart

Spec == Init /\ [][Next]_vars

\* A thread that serves a request keeps running, and so does a reader: the
\* operating system schedules both. A thread that waits for the lock gets it
\* when it is free again and again. Requests, exits and crashes need not come.
FairSpec ==
    /\ Spec
    /\ \A t \in Threads : WF_vars(Serve(t)) /\ SF_vars(Acquire(t))
    /\ \A x \in Pids : WF_vars(Read(x))

-----------------------------------------------------------------------------
(* Properties.                                                             *)

\* t holds a process that _spawn started and has not yet handed over.
Spawning(t) == pc[t] \in {"log", "record", "write", "publish", "thread", "abort", "reap"}

\* Nothing runs that the workbench started and does not track (the promise of
\* _spawn's docstring, #671): each of its runtimes is _state's process or in
\* the hands of the thread that spawns it.
NoUntracked ==
    \A x \in mine \cap alive :
        state.process = x \/ \E t \in Threads : Spawning(t) /\ pid[t] = x

\* Overlapping launches, restarts and stops, with readers of earlier runtimes
\* still cleaning up, never have two runtimes of this workbench run (#671).
OneManaged == \A x, y \in mine \cap alive : x = y

\* At most one running.json names a live process, so what discovery finds does
\* not depend on the order of the directories.
OneRecorded ==
    \A p, q \in Projects : record[p] \in alive /\ record[q] \in alive => p = q

\* A stop or a restart ends its own project's runtime only (#670), also when
\* that runtime exits, or another request acts, after the request checked.
StopsOnlyOwn ==
    [][\A t \in Threads :
          pc[t] \in {"kill", "terminate"} /\ pc'[t] # pc[t]
              => \A x \in alive \ alive' : owner[x] = name[t]]_vars

\* A request in service is answered at last: nobody waits for ever on the lock,
\* on a snapshot, or on a process that will not end.
RequestAnswered == \A t \in Threads : pc[t] # "idle" ~> pc[t] = "idle"

\* The launcher keeps the promises of RuntimeSlot: the slot holds the live runtime
\* this workbench started.
SlotRun == {<<owner[x], x>> : x \in mine \cap alive}
SlotWant == [t \in Threads |-> IF op[t] \in Ops THEN <<op[t], name[t]>> ELSE None]
Slot == INSTANCE RuntimeSlot WITH run <- SlotRun, want <- SlotWant, Processes <- Pids
SlotSpec == Slot!Spec

=============================================================================
