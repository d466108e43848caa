---------------------------- MODULE LauncherProofs ----------------------------
(***************************************************************************)
(* Proofs about Launcher for any number of projects, request threads,      *)
(* processes and crashes.                                                  *)
(*                                                                         *)
(* The argument: whoever is past the running check holds _lifecycle_lock   *)
(* (LockInv), so nobody else spawns; a holder that found nothing managed   *)
(* knows no runtime of this workbench runs until its own Popen (QuietInv); *)
(* from Popen until the request ends the only one that can run is the one  *)
(* it holds (HeldInv), which is published by the time it is let go of      *)
(* (TrackInv).                                                             *)
(***************************************************************************)
EXTENDS Launcher, TLAPS

StopPCs == {"stop", "kill", "rescan", "terminate", "forget"}
SpawnPCs == {"log", "record", "write", "publish", "thread", "abort", "reap"}
SnapshotPCs == {"managed", "scan", "unlink", "external", "decide"}

LockInv ==
    \A t \in Threads :
        /\ pc[t] \in {"prepare", "popen"} \cup StopPCs \cup SpawnPCs => lock = t
        /\ pc[t] \in SnapshotPCs /\ op[t] \in {"launch", "restart"} => lock = t
        /\ pc[t] \in {"idle", "wait"} => lock # t
        /\ pc[t] = "idle" => op[t] = None
        /\ pc[t] # "idle" => op[t] # None
        /\ op[t] \in Ops => name[t] \in Projects
        /\ pc[t] \in {"prepare", "popen"} \cup SpawnPCs => op[t] \in {"launch", "restart"}
        /\ pc[t] \in StopPCs => op[t] \in {"stop", "restart"}

\* t, holding the lock, has seen that no runtime of this workbench runs.
Quiet(t) ==
    \/ pc[t] \in {"scan", "unlink", "external", "rescan", "terminate", "forget", "popen"}
    \/ pc[t] = "decide" /\ kind[t] # "managed"
    \/ pc[t] = "prepare" /\ op[t] = "launch"

QuietInv == \A t \in Threads : lock = t /\ Quiet(t) => mine \cap alive = {}

HeldInv ==
    \A t \in Threads : pc[t] \in {"kill"} \cup SpawnPCs => mine \cap alive \subseteq {pid[t]}

TrackInv ==
    \A t \in Threads : pc[t] = "thread" => state.process = pid[t] \/ pid[t] \notin alive

OwnerInv == \A x \in mine : owner[x] \in Projects

IInv ==
    /\ TypeOK
    /\ LockInv
    /\ QuietInv
    /\ HeldInv
    /\ TrackInv
    /\ OwnerInv
    /\ NoUntracked
-----------------------------------------------------------------------------

\* The initial values have their types.
LEMMA TypeInit == Init => TypeOK
BY LauncherAssumption DEF Init, TypeOK, NoState, Kinds, PCs

\* Every action keeps the types.
LEMMA TypeStep == TypeOK /\ [Next]_vars => TypeOK'
<1> SUFFICES ASSUME TypeOK, [Next]_vars PROVE TypeOK'
    OBVIOUS
<1> USE LauncherAssumption DEF TypeOK, PCs, Kinds, Ops, NoState, procVars, scanVars, reqVars
<1>1. ASSUME NEW t \in Threads, Acquire(t) PROVE TypeOK'
    BY <1>1 DEF Acquire, Goto
<1>2. ASSUME NEW t \in Threads, ReadManaged(t) PROVE TypeOK'
    BY <1>2 DEF ReadManaged, Goto, Found
<1>3. ASSUME NEW t \in Threads, UnlinkStale(t) PROVE TypeOK'
    BY <1>3 DEF UnlinkStale, Goto
<1>4. ASSUME NEW t \in Threads, ScanEnds(t) PROVE TypeOK'
    BY <1>4 DEF ScanEnds, Goto
<1>5. ASSUME NEW t \in Threads, Probe(t) PROVE TypeOK'
    BY <1>5 DEF Probe, Goto, Found
<1>6. ASSUME NEW t \in Threads, NEW p \in Projects, Scan(t, p) PROVE TypeOK'
    BY <1>6 DEF Scan, Goto, Found
<1>7. ASSUME NEW t \in Threads, NEW p \in Projects, Rescan(t, p) PROVE TypeOK'
    BY <1>7 DEF Rescan, Goto, Found
<1>8. ASSUME NEW t \in Threads, DecideRefuse(t) PROVE TypeOK'
    BY <1>8 DEF DecideRefuse, Answer, Goto
<1>9. ASSUME NEW t \in Threads, DecideGo(t) PROVE TypeOK'
    BY <1>9 DEF DecideGo, Goto, Drop, Found, Refuses, Running
<1>10. ASSUME NEW t \in Threads, PrepareRefuse(t) PROVE TypeOK'
    BY <1>10 DEF PrepareRefuse, Answer, Goto
<1>11. ASSUME NEW t \in Threads, PrepareGo(t) PROVE TypeOK'
    BY <1>11 DEF PrepareGo, Goto
<1>12. ASSUME NEW t \in Threads, StopReadState(t) PROVE TypeOK'
    BY <1>12 DEF StopReadState, Goto
<1>13. ASSUME NEW t \in Threads, KillManaged(t) PROVE TypeOK'
    BY <1>13 DEF KillManaged, AfterStop, Answer, Goto, Drop, Found
<1>14. ASSUME NEW t \in Threads, RescanEnds(t) PROVE TypeOK'
    BY <1>14 DEF RescanEnds, AfterStop, Answer, Goto, Drop, Found
<1>15. ASSUME NEW t \in Threads, TerminateDetached(t) PROVE TypeOK'
    BY <1>15 DEF TerminateDetached, Goto
<1>16. ASSUME NEW t \in Threads, ForgetDetached(t) PROVE TypeOK'
    BY <1>16 DEF ForgetDetached, AfterStop, Answer, Goto, Drop, Found
<1>17. ASSUME NEW t \in Threads, Popen(t) PROVE TypeOK'
    BY <1>17 DEF Popen, Goto
<1>18. ASSUME NEW t \in Threads, PopenFails(t) PROVE TypeOK'
    BY <1>18 DEF PopenFails, Answer, Goto
<1>19. ASSUME NEW t \in Threads, OpenLog(t) PROVE TypeOK'
    BY <1>19 DEF OpenLog, Goto
<1>20. ASSUME NEW t \in Threads, OpenRecord(t) PROVE TypeOK'
    BY <1>20 DEF OpenRecord, Goto
<1>21. ASSUME NEW t \in Threads, WriteRecord(t) PROVE TypeOK'
    BY <1>21 DEF WriteRecord, Goto
<1>22. ASSUME NEW t \in Threads, Publish(t) PROVE TypeOK'
    BY <1>22 DEF Publish, Goto
<1>23. ASSUME NEW t \in Threads, StartReader(t) PROVE TypeOK'
    BY <1>23 DEF StartReader, Answer, Goto
<1>24. ASSUME NEW t \in Threads, SpawnFails(t) PROVE TypeOK'
    BY <1>24 DEF SpawnFails, Goto
<1>25. ASSUME NEW t \in Threads, AbortClear(t) PROVE TypeOK'
    BY <1>25 DEF AbortClear, Goto
<1>26. ASSUME NEW t \in Threads, AbortKill(t) PROVE TypeOK'
    BY <1>26 DEF AbortKill, Answer, Goto
<1>27. ASSUME NEW t \in Threads, Poll(t) PROVE TypeOK'
    BY <1>27 DEF Poll, Goto
<1>28. ASSUME NEW t \in Threads, NEW o \in Ops, NEW p \in Projects, Arrive(t, o, p) PROVE TypeOK'
    BY <1>28 DEF Arrive, Goto
<1>29. ASSUME NEW x \in Pids, ReaderCleanup(x) PROVE TypeOK'
    BY <1>29 DEF ReaderCleanup
<1>30. ASSUME NEW x \in Pids, ReaderUnlink(x) PROVE TypeOK'
    BY <1>30 DEF ReaderUnlink
<1>31. ASSUME NEW x \in Pids, ReaderFails(x) PROVE TypeOK'
    BY <1>31 DEF ReaderFails
<1>32. ASSUME NEW x \in Pids, RuntimeExits(x) PROVE TypeOK'
    BY <1>32 DEF RuntimeExits
<1>33. ASSUME CrashRestart PROVE TypeOK'
    BY <1>33 DEF CrashRestart
<1>34. CASE UNCHANGED vars
    BY <1>34 DEF vars
<1>35. QED
    BY <1>1, <1>2, <1>3, <1>4, <1>5, <1>6, <1>7, <1>8, <1>9, <1>10, <1>11, <1>12, <1>13,
       <1>14, <1>15, <1>16, <1>17, <1>18, <1>19, <1>20, <1>21, <1>22, <1>23, <1>24, <1>25,
       <1>26, <1>27, <1>28, <1>29, <1>30, <1>31, <1>32, <1>33, <1>34
       DEF Next, Serve, Read

\* Every variable of the launcher keeps its type, whatever the threads do.
THEOREM LauncherTypeOK == Spec => []TypeOK
BY TypeInit, TypeStep, PTL DEF Spec

\* A thread is past the running check only while it holds the lock.
LEMMA LockStep == TypeOK /\ LockInv /\ [Next]_vars => LockInv'
<1> SUFFICES ASSUME TypeOK, LockInv, [Next]_vars PROVE LockInv'
    OBVIOUS
<1> USE LauncherAssumption DEF TypeOK, LockInv, StopPCs, SpawnPCs, SnapshotPCs, Ops, NoState, procVars, scanVars, reqVars
<1>1. ASSUME NEW t \in Threads, Acquire(t) PROVE LockInv'
    BY <1>1 DEF Acquire, Goto
<1>2. ASSUME NEW t \in Threads, ReadManaged(t) PROVE LockInv'
    BY <1>2 DEF ReadManaged, Goto, Found
<1>3. ASSUME NEW t \in Threads, UnlinkStale(t) PROVE LockInv'
    BY <1>3 DEF UnlinkStale, Goto
<1>4. ASSUME NEW t \in Threads, ScanEnds(t) PROVE LockInv'
    BY <1>4 DEF ScanEnds, Goto
<1>5. ASSUME NEW t \in Threads, Probe(t) PROVE LockInv'
    BY <1>5 DEF Probe, Goto, Found
<1>6. ASSUME NEW t \in Threads, NEW p \in Projects, Scan(t, p) PROVE LockInv'
    BY <1>6 DEF Scan, Goto, Found
<1>7. ASSUME NEW t \in Threads, NEW p \in Projects, Rescan(t, p) PROVE LockInv'
    BY <1>7 DEF Rescan, Goto, Found
<1>8. ASSUME NEW t \in Threads, DecideRefuse(t) PROVE LockInv'
    BY <1>8 DEF DecideRefuse, Answer, Goto
<1>9. ASSUME NEW t \in Threads, DecideGo(t) PROVE LockInv'
    BY <1>9 DEF DecideGo, Goto, Drop, Found, Refuses, Running
<1>10. ASSUME NEW t \in Threads, PrepareRefuse(t) PROVE LockInv'
    BY <1>10 DEF PrepareRefuse, Answer, Goto
<1>11. ASSUME NEW t \in Threads, PrepareGo(t) PROVE LockInv'
    BY <1>11 DEF PrepareGo, Goto
<1>12. ASSUME NEW t \in Threads, StopReadState(t) PROVE LockInv'
    BY <1>12 DEF StopReadState, Goto
<1>13. ASSUME NEW t \in Threads, KillManaged(t) PROVE LockInv'
    BY <1>13 DEF KillManaged, AfterStop, Answer, Goto, Drop, Found
<1>14. ASSUME NEW t \in Threads, RescanEnds(t) PROVE LockInv'
    BY <1>14 DEF RescanEnds, AfterStop, Answer, Goto, Drop, Found
<1>15. ASSUME NEW t \in Threads, TerminateDetached(t) PROVE LockInv'
    BY <1>15 DEF TerminateDetached, Goto
<1>16. ASSUME NEW t \in Threads, ForgetDetached(t) PROVE LockInv'
    BY <1>16 DEF ForgetDetached, AfterStop, Answer, Goto, Drop, Found
<1>17. ASSUME NEW t \in Threads, Popen(t) PROVE LockInv'
    BY <1>17 DEF Popen, Goto
<1>18. ASSUME NEW t \in Threads, PopenFails(t) PROVE LockInv'
    BY <1>18 DEF PopenFails, Answer, Goto
<1>19. ASSUME NEW t \in Threads, OpenLog(t) PROVE LockInv'
    BY <1>19 DEF OpenLog, Goto
<1>20. ASSUME NEW t \in Threads, OpenRecord(t) PROVE LockInv'
    BY <1>20 DEF OpenRecord, Goto
<1>21. ASSUME NEW t \in Threads, WriteRecord(t) PROVE LockInv'
    BY <1>21 DEF WriteRecord, Goto
<1>22. ASSUME NEW t \in Threads, Publish(t) PROVE LockInv'
    BY <1>22 DEF Publish, Goto
<1>23. ASSUME NEW t \in Threads, StartReader(t) PROVE LockInv'
    BY <1>23 DEF StartReader, Answer, Goto
<1>24. ASSUME NEW t \in Threads, SpawnFails(t) PROVE LockInv'
    BY <1>24 DEF SpawnFails, Goto
<1>25. ASSUME NEW t \in Threads, AbortClear(t) PROVE LockInv'
    BY <1>25 DEF AbortClear, Goto
<1>26. ASSUME NEW t \in Threads, AbortKill(t) PROVE LockInv'
    BY <1>26 DEF AbortKill, Answer, Goto
<1>27. ASSUME NEW t \in Threads, Poll(t) PROVE LockInv'
    BY <1>27 DEF Poll, Goto
<1>28. ASSUME NEW t \in Threads, NEW o \in Ops, NEW p \in Projects, Arrive(t, o, p) PROVE LockInv'
    BY <1>28 DEF Arrive, Goto
<1>29. ASSUME NEW x \in Pids, ReaderCleanup(x) PROVE LockInv'
    BY <1>29 DEF ReaderCleanup
<1>30. ASSUME NEW x \in Pids, ReaderUnlink(x) PROVE LockInv'
    BY <1>30 DEF ReaderUnlink
<1>31. ASSUME NEW x \in Pids, ReaderFails(x) PROVE LockInv'
    BY <1>31 DEF ReaderFails
<1>32. ASSUME NEW x \in Pids, RuntimeExits(x) PROVE LockInv'
    BY <1>32 DEF RuntimeExits
<1>33. ASSUME CrashRestart PROVE LockInv'
    BY <1>33 DEF CrashRestart
<1>34. CASE UNCHANGED vars
    BY <1>34 DEF vars
<1>35. QED
    BY <1>1, <1>2, <1>3, <1>4, <1>5, <1>6, <1>7, <1>8, <1>9, <1>10, <1>11, <1>12, <1>13,
       <1>14, <1>15, <1>16, <1>17, <1>18, <1>19, <1>20, <1>21, <1>22, <1>23, <1>24, <1>25,
       <1>26, <1>27, <1>28, <1>29, <1>30, <1>31, <1>32, <1>33, <1>34
       DEF Next, Serve, Read

\* What a holder of the lock did not find does not appear before its Popen.
LEMMA QuietStep == TypeOK /\ LockInv /\ QuietInv /\ HeldInv /\ NoUntracked /\ [Next]_vars => QuietInv'
<1> SUFFICES ASSUME TypeOK, LockInv, QuietInv, HeldInv, NoUntracked, [Next]_vars PROVE QuietInv'
    OBVIOUS
<1> USE LauncherAssumption DEF TypeOK, LockInv, QuietInv, HeldInv, NoUntracked, Spawning, Quiet, StopPCs, SpawnPCs,
           SnapshotPCs, Ops, NoState, procVars, scanVars, reqVars
<1>1. ASSUME NEW t \in Threads, Acquire(t) PROVE QuietInv'
    BY <1>1 DEF Acquire, Goto
<1>2. ASSUME NEW t \in Threads, ReadManaged(t) PROVE QuietInv'
    BY <1>2 DEF ReadManaged, Goto, Found
<1>3. ASSUME NEW t \in Threads, UnlinkStale(t) PROVE QuietInv'
    BY <1>3 DEF UnlinkStale, Goto
<1>4. ASSUME NEW t \in Threads, ScanEnds(t) PROVE QuietInv'
    BY <1>4 DEF ScanEnds, Goto
<1>5. ASSUME NEW t \in Threads, Probe(t) PROVE QuietInv'
    BY <1>5 DEF Probe, Goto, Found
<1>6. ASSUME NEW t \in Threads, NEW p \in Projects, Scan(t, p) PROVE QuietInv'
    BY <1>6 DEF Scan, Goto, Found
<1>7. ASSUME NEW t \in Threads, NEW p \in Projects, Rescan(t, p) PROVE QuietInv'
    BY <1>7 DEF Rescan, Goto, Found
<1>8. ASSUME NEW t \in Threads, DecideRefuse(t) PROVE QuietInv'
    BY <1>8 DEF DecideRefuse, Answer, Goto
<1>9. ASSUME NEW t \in Threads, DecideGo(t) PROVE QuietInv'
    BY <1>9 DEF DecideGo, Goto, Drop, Found, Refuses, Running
<1>10. ASSUME NEW t \in Threads, PrepareRefuse(t) PROVE QuietInv'
    BY <1>10 DEF PrepareRefuse, Answer, Goto
<1>11. ASSUME NEW t \in Threads, PrepareGo(t) PROVE QuietInv'
    BY <1>11 DEF PrepareGo, Goto
<1>12. ASSUME NEW t \in Threads, StopReadState(t) PROVE QuietInv'
    BY <1>12 DEF StopReadState, Goto
<1>13. ASSUME NEW t \in Threads, KillManaged(t) PROVE QuietInv'
    BY <1>13 DEF KillManaged, AfterStop, Answer, Goto, Drop, Found
<1>14. ASSUME NEW t \in Threads, RescanEnds(t) PROVE QuietInv'
    BY <1>14 DEF RescanEnds, AfterStop, Answer, Goto, Drop, Found
<1>15. ASSUME NEW t \in Threads, TerminateDetached(t) PROVE QuietInv'
    BY <1>15 DEF TerminateDetached, Goto
<1>16. ASSUME NEW t \in Threads, ForgetDetached(t) PROVE QuietInv'
    BY <1>16 DEF ForgetDetached, AfterStop, Answer, Goto, Drop, Found
<1>17. ASSUME NEW t \in Threads, Popen(t) PROVE QuietInv'
    BY <1>17 DEF Popen, Goto
<1>18. ASSUME NEW t \in Threads, PopenFails(t) PROVE QuietInv'
    BY <1>18 DEF PopenFails, Answer, Goto
<1>19. ASSUME NEW t \in Threads, OpenLog(t) PROVE QuietInv'
    BY <1>19 DEF OpenLog, Goto
<1>20. ASSUME NEW t \in Threads, OpenRecord(t) PROVE QuietInv'
    BY <1>20 DEF OpenRecord, Goto
<1>21. ASSUME NEW t \in Threads, WriteRecord(t) PROVE QuietInv'
    BY <1>21 DEF WriteRecord, Goto
<1>22. ASSUME NEW t \in Threads, Publish(t) PROVE QuietInv'
    BY <1>22 DEF Publish, Goto
<1>23. ASSUME NEW t \in Threads, StartReader(t) PROVE QuietInv'
    BY <1>23 DEF StartReader, Answer, Goto
<1>24. ASSUME NEW t \in Threads, SpawnFails(t) PROVE QuietInv'
    BY <1>24 DEF SpawnFails, Goto
<1>25. ASSUME NEW t \in Threads, AbortClear(t) PROVE QuietInv'
    BY <1>25 DEF AbortClear, Goto
<1>26. ASSUME NEW t \in Threads, AbortKill(t) PROVE QuietInv'
    BY <1>26 DEF AbortKill, Answer, Goto
<1>27. ASSUME NEW t \in Threads, Poll(t) PROVE QuietInv'
    BY <1>27 DEF Poll, Goto
<1>28. ASSUME NEW t \in Threads, NEW o \in Ops, NEW p \in Projects, Arrive(t, o, p) PROVE QuietInv'
    BY <1>28 DEF Arrive, Goto
<1>29. ASSUME NEW x \in Pids, ReaderCleanup(x) PROVE QuietInv'
    BY <1>29 DEF ReaderCleanup
<1>30. ASSUME NEW x \in Pids, ReaderUnlink(x) PROVE QuietInv'
    BY <1>30 DEF ReaderUnlink
<1>31. ASSUME NEW x \in Pids, ReaderFails(x) PROVE QuietInv'
    BY <1>31 DEF ReaderFails
<1>32. ASSUME NEW x \in Pids, RuntimeExits(x) PROVE QuietInv'
    BY <1>32 DEF RuntimeExits
<1>33. ASSUME CrashRestart PROVE QuietInv'
    BY <1>33 DEF CrashRestart
<1>34. CASE UNCHANGED vars
    BY <1>34 DEF vars
<1>35. QED
    BY <1>1, <1>2, <1>3, <1>4, <1>5, <1>6, <1>7, <1>8, <1>9, <1>10, <1>11, <1>12, <1>13,
       <1>14, <1>15, <1>16, <1>17, <1>18, <1>19, <1>20, <1>21, <1>22, <1>23, <1>24, <1>25,
       <1>26, <1>27, <1>28, <1>29, <1>30, <1>31, <1>32, <1>33, <1>34
       DEF Next, Serve, Read

\* The runtime a thread holds is the only one that can run.
LEMMA HeldStep == TypeOK /\ LockInv /\ QuietInv /\ HeldInv /\ NoUntracked /\ [Next]_vars => HeldInv'
<1> SUFFICES ASSUME TypeOK, LockInv, QuietInv, HeldInv, NoUntracked, [Next]_vars PROVE HeldInv'
    OBVIOUS
<1> USE LauncherAssumption DEF TypeOK, LockInv, QuietInv, HeldInv, NoUntracked, Spawning, Quiet, StopPCs, SpawnPCs,
           SnapshotPCs, Ops, NoState, procVars, scanVars, reqVars
<1>1. ASSUME NEW t \in Threads, Acquire(t) PROVE HeldInv'
    BY <1>1 DEF Acquire, Goto
<1>2. ASSUME NEW t \in Threads, ReadManaged(t) PROVE HeldInv'
    BY <1>2 DEF ReadManaged, Goto, Found
<1>3. ASSUME NEW t \in Threads, UnlinkStale(t) PROVE HeldInv'
    BY <1>3 DEF UnlinkStale, Goto
<1>4. ASSUME NEW t \in Threads, ScanEnds(t) PROVE HeldInv'
    BY <1>4 DEF ScanEnds, Goto
<1>5. ASSUME NEW t \in Threads, Probe(t) PROVE HeldInv'
    BY <1>5 DEF Probe, Goto, Found
<1>6. ASSUME NEW t \in Threads, NEW p \in Projects, Scan(t, p) PROVE HeldInv'
    BY <1>6 DEF Scan, Goto, Found
<1>7. ASSUME NEW t \in Threads, NEW p \in Projects, Rescan(t, p) PROVE HeldInv'
    BY <1>7 DEF Rescan, Goto, Found
<1>8. ASSUME NEW t \in Threads, DecideRefuse(t) PROVE HeldInv'
    BY <1>8 DEF DecideRefuse, Answer, Goto
<1>9. ASSUME NEW t \in Threads, DecideGo(t) PROVE HeldInv'
    BY <1>9 DEF DecideGo, Goto, Drop, Found, Refuses, Running
<1>10. ASSUME NEW t \in Threads, PrepareRefuse(t) PROVE HeldInv'
    BY <1>10 DEF PrepareRefuse, Answer, Goto
<1>11. ASSUME NEW t \in Threads, PrepareGo(t) PROVE HeldInv'
    BY <1>11 DEF PrepareGo, Goto
<1>12. ASSUME NEW t \in Threads, StopReadState(t) PROVE HeldInv'
    BY <1>12 DEF StopReadState, Goto
<1>13. ASSUME NEW t \in Threads, KillManaged(t) PROVE HeldInv'
    BY <1>13 DEF KillManaged, AfterStop, Answer, Goto, Drop, Found
<1>14. ASSUME NEW t \in Threads, RescanEnds(t) PROVE HeldInv'
    BY <1>14 DEF RescanEnds, AfterStop, Answer, Goto, Drop, Found
<1>15. ASSUME NEW t \in Threads, TerminateDetached(t) PROVE HeldInv'
    BY <1>15 DEF TerminateDetached, Goto
<1>16. ASSUME NEW t \in Threads, ForgetDetached(t) PROVE HeldInv'
    BY <1>16 DEF ForgetDetached, AfterStop, Answer, Goto, Drop, Found
<1>17. ASSUME NEW t \in Threads, Popen(t) PROVE HeldInv'
    BY <1>17 DEF Popen, Goto
<1>18. ASSUME NEW t \in Threads, PopenFails(t) PROVE HeldInv'
    BY <1>18 DEF PopenFails, Answer, Goto
<1>19. ASSUME NEW t \in Threads, OpenLog(t) PROVE HeldInv'
    BY <1>19 DEF OpenLog, Goto
<1>20. ASSUME NEW t \in Threads, OpenRecord(t) PROVE HeldInv'
    BY <1>20 DEF OpenRecord, Goto
<1>21. ASSUME NEW t \in Threads, WriteRecord(t) PROVE HeldInv'
    BY <1>21 DEF WriteRecord, Goto
<1>22. ASSUME NEW t \in Threads, Publish(t) PROVE HeldInv'
    BY <1>22 DEF Publish, Goto
<1>23. ASSUME NEW t \in Threads, StartReader(t) PROVE HeldInv'
    BY <1>23 DEF StartReader, Answer, Goto
<1>24. ASSUME NEW t \in Threads, SpawnFails(t) PROVE HeldInv'
    BY <1>24 DEF SpawnFails, Goto
<1>25. ASSUME NEW t \in Threads, AbortClear(t) PROVE HeldInv'
    BY <1>25 DEF AbortClear, Goto
<1>26. ASSUME NEW t \in Threads, AbortKill(t) PROVE HeldInv'
    BY <1>26 DEF AbortKill, Answer, Goto
<1>27. ASSUME NEW t \in Threads, Poll(t) PROVE HeldInv'
    BY <1>27 DEF Poll, Goto
<1>28. ASSUME NEW t \in Threads, NEW o \in Ops, NEW p \in Projects, Arrive(t, o, p) PROVE HeldInv'
    BY <1>28 DEF Arrive, Goto
<1>29. ASSUME NEW x \in Pids, ReaderCleanup(x) PROVE HeldInv'
    BY <1>29 DEF ReaderCleanup
<1>30. ASSUME NEW x \in Pids, ReaderUnlink(x) PROVE HeldInv'
    BY <1>30 DEF ReaderUnlink
<1>31. ASSUME NEW x \in Pids, ReaderFails(x) PROVE HeldInv'
    BY <1>31 DEF ReaderFails
<1>32. ASSUME NEW x \in Pids, RuntimeExits(x) PROVE HeldInv'
    BY <1>32 DEF RuntimeExits
<1>33. ASSUME CrashRestart PROVE HeldInv'
    BY <1>33 DEF CrashRestart
<1>34. CASE UNCHANGED vars
    BY <1>34 DEF vars
<1>35. QED
    BY <1>1, <1>2, <1>3, <1>4, <1>5, <1>6, <1>7, <1>8, <1>9, <1>10, <1>11, <1>12, <1>13,
       <1>14, <1>15, <1>16, <1>17, <1>18, <1>19, <1>20, <1>21, <1>22, <1>23, <1>24, <1>25,
       <1>26, <1>27, <1>28, <1>29, <1>30, <1>31, <1>32, <1>33, <1>34
       DEF Next, Serve, Read

\* A published runtime stays published while its thread starts the reader.
LEMMA TrackStep == TypeOK /\ LockInv /\ TrackInv /\ [Next]_vars => TrackInv'
<1> SUFFICES ASSUME TypeOK, LockInv, TrackInv, [Next]_vars PROVE TrackInv'
    OBVIOUS
<1> USE LauncherAssumption DEF TypeOK, LockInv, TrackInv, StopPCs, SpawnPCs, SnapshotPCs, Ops, NoState, procVars, scanVars, reqVars
<1>1. ASSUME NEW t \in Threads, Acquire(t) PROVE TrackInv'
    BY <1>1 DEF Acquire, Goto
<1>2. ASSUME NEW t \in Threads, ReadManaged(t) PROVE TrackInv'
    BY <1>2 DEF ReadManaged, Goto, Found
<1>3. ASSUME NEW t \in Threads, UnlinkStale(t) PROVE TrackInv'
    BY <1>3 DEF UnlinkStale, Goto
<1>4. ASSUME NEW t \in Threads, ScanEnds(t) PROVE TrackInv'
    BY <1>4 DEF ScanEnds, Goto
<1>5. ASSUME NEW t \in Threads, Probe(t) PROVE TrackInv'
    BY <1>5 DEF Probe, Goto, Found
<1>6. ASSUME NEW t \in Threads, NEW p \in Projects, Scan(t, p) PROVE TrackInv'
    BY <1>6 DEF Scan, Goto, Found
<1>7. ASSUME NEW t \in Threads, NEW p \in Projects, Rescan(t, p) PROVE TrackInv'
    BY <1>7 DEF Rescan, Goto, Found
<1>8. ASSUME NEW t \in Threads, DecideRefuse(t) PROVE TrackInv'
    BY <1>8 DEF DecideRefuse, Answer, Goto
<1>9. ASSUME NEW t \in Threads, DecideGo(t) PROVE TrackInv'
    BY <1>9 DEF DecideGo, Goto, Drop, Found, Refuses, Running
<1>10. ASSUME NEW t \in Threads, PrepareRefuse(t) PROVE TrackInv'
    BY <1>10 DEF PrepareRefuse, Answer, Goto
<1>11. ASSUME NEW t \in Threads, PrepareGo(t) PROVE TrackInv'
    BY <1>11 DEF PrepareGo, Goto
<1>12. ASSUME NEW t \in Threads, StopReadState(t) PROVE TrackInv'
    BY <1>12 DEF StopReadState, Goto
<1>13. ASSUME NEW t \in Threads, KillManaged(t) PROVE TrackInv'
    BY <1>13 DEF KillManaged, AfterStop, Answer, Goto, Drop, Found
<1>14. ASSUME NEW t \in Threads, RescanEnds(t) PROVE TrackInv'
    BY <1>14 DEF RescanEnds, AfterStop, Answer, Goto, Drop, Found
<1>15. ASSUME NEW t \in Threads, TerminateDetached(t) PROVE TrackInv'
    BY <1>15 DEF TerminateDetached, Goto
<1>16. ASSUME NEW t \in Threads, ForgetDetached(t) PROVE TrackInv'
    BY <1>16 DEF ForgetDetached, AfterStop, Answer, Goto, Drop, Found
<1>17. ASSUME NEW t \in Threads, Popen(t) PROVE TrackInv'
    BY <1>17 DEF Popen, Goto
<1>18. ASSUME NEW t \in Threads, PopenFails(t) PROVE TrackInv'
    BY <1>18 DEF PopenFails, Answer, Goto
<1>19. ASSUME NEW t \in Threads, OpenLog(t) PROVE TrackInv'
    BY <1>19 DEF OpenLog, Goto
<1>20. ASSUME NEW t \in Threads, OpenRecord(t) PROVE TrackInv'
    BY <1>20 DEF OpenRecord, Goto
<1>21. ASSUME NEW t \in Threads, WriteRecord(t) PROVE TrackInv'
    BY <1>21 DEF WriteRecord, Goto
<1>22. ASSUME NEW t \in Threads, Publish(t) PROVE TrackInv'
    BY <1>22 DEF Publish, Goto
<1>23. ASSUME NEW t \in Threads, StartReader(t) PROVE TrackInv'
    BY <1>23 DEF StartReader, Answer, Goto
<1>24. ASSUME NEW t \in Threads, SpawnFails(t) PROVE TrackInv'
    BY <1>24 DEF SpawnFails, Goto
<1>25. ASSUME NEW t \in Threads, AbortClear(t) PROVE TrackInv'
    BY <1>25 DEF AbortClear, Goto
<1>26. ASSUME NEW t \in Threads, AbortKill(t) PROVE TrackInv'
    BY <1>26 DEF AbortKill, Answer, Goto
<1>27. ASSUME NEW t \in Threads, Poll(t) PROVE TrackInv'
    BY <1>27 DEF Poll, Goto
<1>28. ASSUME NEW t \in Threads, NEW o \in Ops, NEW p \in Projects, Arrive(t, o, p) PROVE TrackInv'
    BY <1>28 DEF Arrive, Goto
<1>29. ASSUME NEW x \in Pids, ReaderCleanup(x) PROVE TrackInv'
    BY <1>29 DEF ReaderCleanup
<1>30. ASSUME NEW x \in Pids, ReaderUnlink(x) PROVE TrackInv'
    BY <1>30 DEF ReaderUnlink
<1>31. ASSUME NEW x \in Pids, ReaderFails(x) PROVE TrackInv'
    BY <1>31 DEF ReaderFails
<1>32. ASSUME NEW x \in Pids, RuntimeExits(x) PROVE TrackInv'
    BY <1>32 DEF RuntimeExits
<1>33. ASSUME CrashRestart PROVE TrackInv'
    BY <1>33 DEF CrashRestart
<1>34. CASE UNCHANGED vars
    BY <1>34 DEF vars
<1>35. QED
    BY <1>1, <1>2, <1>3, <1>4, <1>5, <1>6, <1>7, <1>8, <1>9, <1>10, <1>11, <1>12, <1>13,
       <1>14, <1>15, <1>16, <1>17, <1>18, <1>19, <1>20, <1>21, <1>22, <1>23, <1>24, <1>25,
       <1>26, <1>27, <1>28, <1>29, <1>30, <1>31, <1>32, <1>33, <1>34
       DEF Next, Serve, Read

\* A runtime is started for a project.
LEMMA OwnerStep == TypeOK /\ LockInv /\ OwnerInv /\ [Next]_vars => OwnerInv'
<1> SUFFICES ASSUME TypeOK, LockInv, OwnerInv, [Next]_vars PROVE OwnerInv'
    OBVIOUS
<1> USE LauncherAssumption DEF TypeOK, LockInv, OwnerInv, StopPCs, SpawnPCs, SnapshotPCs, Ops, NoState, procVars, scanVars, reqVars
<1>1. ASSUME NEW t \in Threads, Acquire(t) PROVE OwnerInv'
    BY <1>1 DEF Acquire, Goto
<1>2. ASSUME NEW t \in Threads, ReadManaged(t) PROVE OwnerInv'
    BY <1>2 DEF ReadManaged, Goto, Found
<1>3. ASSUME NEW t \in Threads, UnlinkStale(t) PROVE OwnerInv'
    BY <1>3 DEF UnlinkStale, Goto
<1>4. ASSUME NEW t \in Threads, ScanEnds(t) PROVE OwnerInv'
    BY <1>4 DEF ScanEnds, Goto
<1>5. ASSUME NEW t \in Threads, Probe(t) PROVE OwnerInv'
    BY <1>5 DEF Probe, Goto, Found
<1>6. ASSUME NEW t \in Threads, NEW p \in Projects, Scan(t, p) PROVE OwnerInv'
    BY <1>6 DEF Scan, Goto, Found
<1>7. ASSUME NEW t \in Threads, NEW p \in Projects, Rescan(t, p) PROVE OwnerInv'
    BY <1>7 DEF Rescan, Goto, Found
<1>8. ASSUME NEW t \in Threads, DecideRefuse(t) PROVE OwnerInv'
    BY <1>8 DEF DecideRefuse, Answer, Goto
<1>9. ASSUME NEW t \in Threads, DecideGo(t) PROVE OwnerInv'
    BY <1>9 DEF DecideGo, Goto, Drop, Found, Refuses, Running
<1>10. ASSUME NEW t \in Threads, PrepareRefuse(t) PROVE OwnerInv'
    BY <1>10 DEF PrepareRefuse, Answer, Goto
<1>11. ASSUME NEW t \in Threads, PrepareGo(t) PROVE OwnerInv'
    BY <1>11 DEF PrepareGo, Goto
<1>12. ASSUME NEW t \in Threads, StopReadState(t) PROVE OwnerInv'
    BY <1>12 DEF StopReadState, Goto
<1>13. ASSUME NEW t \in Threads, KillManaged(t) PROVE OwnerInv'
    BY <1>13 DEF KillManaged, AfterStop, Answer, Goto, Drop, Found
<1>14. ASSUME NEW t \in Threads, RescanEnds(t) PROVE OwnerInv'
    BY <1>14 DEF RescanEnds, AfterStop, Answer, Goto, Drop, Found
<1>15. ASSUME NEW t \in Threads, TerminateDetached(t) PROVE OwnerInv'
    BY <1>15 DEF TerminateDetached, Goto
<1>16. ASSUME NEW t \in Threads, ForgetDetached(t) PROVE OwnerInv'
    BY <1>16 DEF ForgetDetached, AfterStop, Answer, Goto, Drop, Found
<1>17. ASSUME NEW t \in Threads, Popen(t) PROVE OwnerInv'
    BY <1>17 DEF Popen, Goto
<1>18. ASSUME NEW t \in Threads, PopenFails(t) PROVE OwnerInv'
    BY <1>18 DEF PopenFails, Answer, Goto
<1>19. ASSUME NEW t \in Threads, OpenLog(t) PROVE OwnerInv'
    BY <1>19 DEF OpenLog, Goto
<1>20. ASSUME NEW t \in Threads, OpenRecord(t) PROVE OwnerInv'
    BY <1>20 DEF OpenRecord, Goto
<1>21. ASSUME NEW t \in Threads, WriteRecord(t) PROVE OwnerInv'
    BY <1>21 DEF WriteRecord, Goto
<1>22. ASSUME NEW t \in Threads, Publish(t) PROVE OwnerInv'
    BY <1>22 DEF Publish, Goto
<1>23. ASSUME NEW t \in Threads, StartReader(t) PROVE OwnerInv'
    BY <1>23 DEF StartReader, Answer, Goto
<1>24. ASSUME NEW t \in Threads, SpawnFails(t) PROVE OwnerInv'
    BY <1>24 DEF SpawnFails, Goto
<1>25. ASSUME NEW t \in Threads, AbortClear(t) PROVE OwnerInv'
    BY <1>25 DEF AbortClear, Goto
<1>26. ASSUME NEW t \in Threads, AbortKill(t) PROVE OwnerInv'
    BY <1>26 DEF AbortKill, Answer, Goto
<1>27. ASSUME NEW t \in Threads, Poll(t) PROVE OwnerInv'
    BY <1>27 DEF Poll, Goto
<1>28. ASSUME NEW t \in Threads, NEW o \in Ops, NEW p \in Projects, Arrive(t, o, p) PROVE OwnerInv'
    BY <1>28 DEF Arrive, Goto
<1>29. ASSUME NEW x \in Pids, ReaderCleanup(x) PROVE OwnerInv'
    BY <1>29 DEF ReaderCleanup
<1>30. ASSUME NEW x \in Pids, ReaderUnlink(x) PROVE OwnerInv'
    BY <1>30 DEF ReaderUnlink
<1>31. ASSUME NEW x \in Pids, ReaderFails(x) PROVE OwnerInv'
    BY <1>31 DEF ReaderFails
<1>32. ASSUME NEW x \in Pids, RuntimeExits(x) PROVE OwnerInv'
    BY <1>32 DEF RuntimeExits
<1>33. ASSUME CrashRestart PROVE OwnerInv'
    BY <1>33 DEF CrashRestart
<1>34. CASE UNCHANGED vars
    BY <1>34 DEF vars
<1>35. QED
    BY <1>1, <1>2, <1>3, <1>4, <1>5, <1>6, <1>7, <1>8, <1>9, <1>10, <1>11, <1>12, <1>13,
       <1>14, <1>15, <1>16, <1>17, <1>18, <1>19, <1>20, <1>21, <1>22, <1>23, <1>24, <1>25,
       <1>26, <1>27, <1>28, <1>29, <1>30, <1>31, <1>32, <1>33, <1>34
       DEF Next, Serve, Read

\* A runtime is tracked, or held by the thread that spawns it, until it has exited.
LEMMA UntrackedStep == TypeOK /\ LockInv /\ QuietInv /\ HeldInv /\ TrackInv /\ NoUntracked /\ [Next]_vars => NoUntracked'
<1> SUFFICES ASSUME TypeOK, LockInv, QuietInv, HeldInv, TrackInv, NoUntracked, [Next]_vars PROVE NoUntracked'
    OBVIOUS
<1> USE LauncherAssumption DEF TypeOK, LockInv, QuietInv, HeldInv, TrackInv, NoUntracked, Spawning, Quiet, StopPCs,
           SpawnPCs, SnapshotPCs, Ops, NoState, procVars, scanVars, reqVars
<1>1. ASSUME NEW t \in Threads, Acquire(t) PROVE NoUntracked'
    BY <1>1 DEF Acquire, Goto
<1>2. ASSUME NEW t \in Threads, ReadManaged(t) PROVE NoUntracked'
    BY <1>2 DEF ReadManaged, Goto, Found
<1>3. ASSUME NEW t \in Threads, UnlinkStale(t) PROVE NoUntracked'
    BY <1>3 DEF UnlinkStale, Goto
<1>4. ASSUME NEW t \in Threads, ScanEnds(t) PROVE NoUntracked'
    BY <1>4 DEF ScanEnds, Goto
<1>5. ASSUME NEW t \in Threads, Probe(t) PROVE NoUntracked'
    BY <1>5 DEF Probe, Goto, Found
<1>6. ASSUME NEW t \in Threads, NEW p \in Projects, Scan(t, p) PROVE NoUntracked'
    BY <1>6 DEF Scan, Goto, Found
<1>7. ASSUME NEW t \in Threads, NEW p \in Projects, Rescan(t, p) PROVE NoUntracked'
    BY <1>7 DEF Rescan, Goto, Found
<1>8. ASSUME NEW t \in Threads, DecideRefuse(t) PROVE NoUntracked'
    BY <1>8 DEF DecideRefuse, Answer, Goto
<1>9. ASSUME NEW t \in Threads, DecideGo(t) PROVE NoUntracked'
    BY <1>9 DEF DecideGo, Goto, Drop, Found, Refuses, Running
<1>10. ASSUME NEW t \in Threads, PrepareRefuse(t) PROVE NoUntracked'
    BY <1>10 DEF PrepareRefuse, Answer, Goto
<1>11. ASSUME NEW t \in Threads, PrepareGo(t) PROVE NoUntracked'
    BY <1>11 DEF PrepareGo, Goto
<1>12. ASSUME NEW t \in Threads, StopReadState(t) PROVE NoUntracked'
    BY <1>12 DEF StopReadState, Goto
<1>13. ASSUME NEW t \in Threads, KillManaged(t) PROVE NoUntracked'
    BY <1>13 DEF KillManaged, AfterStop, Answer, Goto, Drop, Found
<1>14. ASSUME NEW t \in Threads, RescanEnds(t) PROVE NoUntracked'
    BY <1>14 DEF RescanEnds, AfterStop, Answer, Goto, Drop, Found
<1>15. ASSUME NEW t \in Threads, TerminateDetached(t) PROVE NoUntracked'
    BY <1>15 DEF TerminateDetached, Goto
<1>16. ASSUME NEW t \in Threads, ForgetDetached(t) PROVE NoUntracked'
    BY <1>16 DEF ForgetDetached, AfterStop, Answer, Goto, Drop, Found
<1>17. ASSUME NEW t \in Threads, Popen(t) PROVE NoUntracked'
    BY <1>17 DEF Popen, Goto
<1>18. ASSUME NEW t \in Threads, PopenFails(t) PROVE NoUntracked'
    BY <1>18 DEF PopenFails, Answer, Goto
<1>19. ASSUME NEW t \in Threads, OpenLog(t) PROVE NoUntracked'
    BY <1>19 DEF OpenLog, Goto
<1>20. ASSUME NEW t \in Threads, OpenRecord(t) PROVE NoUntracked'
    BY <1>20 DEF OpenRecord, Goto
<1>21. ASSUME NEW t \in Threads, WriteRecord(t) PROVE NoUntracked'
    BY <1>21 DEF WriteRecord, Goto
<1>22. ASSUME NEW t \in Threads, Publish(t) PROVE NoUntracked'
    BY <1>22 DEF Publish, Goto
<1>23. ASSUME NEW t \in Threads, StartReader(t) PROVE NoUntracked'
    BY <1>23 DEF StartReader, Answer, Goto
<1>24. ASSUME NEW t \in Threads, SpawnFails(t) PROVE NoUntracked'
    BY <1>24 DEF SpawnFails, Goto
<1>25. ASSUME NEW t \in Threads, AbortClear(t) PROVE NoUntracked'
    BY <1>25 DEF AbortClear, Goto
<1>26. ASSUME NEW t \in Threads, AbortKill(t) PROVE NoUntracked'
    BY <1>26 DEF AbortKill, Answer, Goto
<1>27. ASSUME NEW t \in Threads, Poll(t) PROVE NoUntracked'
    BY <1>27 DEF Poll, Goto
<1>28. ASSUME NEW t \in Threads, NEW o \in Ops, NEW p \in Projects, Arrive(t, o, p) PROVE NoUntracked'
    BY <1>28 DEF Arrive, Goto
<1>29. ASSUME NEW x \in Pids, ReaderCleanup(x) PROVE NoUntracked'
    BY <1>29 DEF ReaderCleanup
<1>30. ASSUME NEW x \in Pids, ReaderUnlink(x) PROVE NoUntracked'
    BY <1>30 DEF ReaderUnlink
<1>31. ASSUME NEW x \in Pids, ReaderFails(x) PROVE NoUntracked'
    BY <1>31 DEF ReaderFails
<1>32. ASSUME NEW x \in Pids, RuntimeExits(x) PROVE NoUntracked'
    BY <1>32 DEF RuntimeExits
<1>33. ASSUME CrashRestart PROVE NoUntracked'
    BY <1>33 DEF CrashRestart
<1>34. CASE UNCHANGED vars
    BY <1>34 DEF vars
<1>35. QED
    BY <1>1, <1>2, <1>3, <1>4, <1>5, <1>6, <1>7, <1>8, <1>9, <1>10, <1>11, <1>12, <1>13,
       <1>14, <1>15, <1>16, <1>17, <1>18, <1>19, <1>20, <1>21, <1>22, <1>23, <1>24, <1>25,
       <1>26, <1>27, <1>28, <1>29, <1>30, <1>31, <1>32, <1>33, <1>34
       DEF Next, Serve, Read

-----------------------------------------------------------------------------

\* The initial state satisfies every part of the invariant.
LEMMA InvInit == Init => IInv
<1> SUFFICES ASSUME Init PROVE IInv
    OBVIOUS
<1>1. TypeOK
    BY TypeInit
<1>2. LockInv /\ QuietInv /\ HeldInv /\ TrackInv /\ OwnerInv /\ NoUntracked
    BY LauncherAssumption DEF Init, LockInv, QuietInv, HeldInv, TrackInv, OwnerInv, NoUntracked,
       StopPCs, SpawnPCs, SnapshotPCs, Quiet, Ops
<1>3. QED
    BY <1>1, <1>2 DEF IInv

\* The invariant is inductive: each part follows from the parts its lemma names.
LEMMA InvStep == IInv /\ [Next]_vars => IInv'
BY TypeStep, LockStep, QuietStep, HeldStep, TrackStep, OwnerStep, UntrackedStep DEF IInv

\* The inductive invariant of the launcher.
THEOREM LauncherInv == Spec => []IInv
BY InvInit, InvStep, PTL DEF Spec

\* Whatever requests overlap and whatever fails, nothing that this workbench
\* started runs untracked (_spawn's docstring).
THEOREM LauncherNoUntracked == Spec => []NoUntracked
<1>1. IInv => NoUntracked
    BY DEF IInv
<1>2. QED
    BY <1>1, LauncherInv, PTL

\* A spawning thread holds the only runtime; with no thread spawning, _state's
\* process is the only one.
LEMMA InvOneManaged == IInv => OneManaged
<1> SUFFICES ASSUME IInv, NEW x \in mine \cap alive, NEW y \in mine \cap alive PROVE x = y
    BY DEF OneManaged
<1>1. CASE \E t \in Threads : Spawning(t)
    <2>1. PICK t \in Threads : Spawning(t)
        BY <1>1
    <2>2. mine \cap alive \subseteq {pid[t]}
        BY <2>1 DEF IInv, HeldInv, Spawning, SpawnPCs
    <2>3. QED
        BY <2>2
<1>2. CASE ~ \E t \in Threads : Spawning(t)
    BY <1>2 DEF IInv, NoUntracked
<1>3. QED
    BY <1>1, <1>2

\* Overlapping launches, restarts and stops have one runtime run (#671).
THEOREM LauncherOneManaged == Spec => []OneManaged
BY InvOneManaged, LauncherInv, PTL

-----------------------------------------------------------------------------
(* Whose runtime a stop ends, and whose running.json names a live process. *)

\* _state and a spawning thread name the project of the runtime they hold, and a
\* running.json a process of its own project.
NamedInv ==
    /\ state.process # None =>
          state.process \in mine /\ owner[state.process] = state.project
    /\ \A t \in Threads : pc[t] \in SpawnPCs => pid[t] \in mine /\ owner[pid[t]] = name[t]
    /\ \A p \in Projects : record[p] \in Pids => owner[record[p]] = p

\* While a runtime of this workbench runs, no other project's is recorded: before its
\* launch a scan found none.
SameInv ==
    \A p \in Projects : record[p] \in alive => \A y \in mine \cap alive : owner[y] = p

\* No live process is recorded but among the projects of S.
RecordedIn(S) == \A p \in Projects : record[p] \in alive => p \in S

\* The runtime _state tracks, if it runs, is of project p.
TrackedIs(p) == state.process \in alive => state.project = p

\* What the holder of the lock knows from its snapshot is so until its Popen: which
\* project's runtime is running.
AimInv ==
    \A t \in Threads : lock = t =>
        /\ pc[t] \in {"scan", "unlink"} => RecordedIn(todo[t])
        /\ pc[t] = "external" => RecordedIn({})
        /\ pc[t] = "decide" =>
              /\ RecordedIn(IF kind[t] \in {"none", "external"} THEN {} ELSE {cur[t]})
              /\ TrackedIs(cur[t])
        /\ pc[t] \in {"prepare", "stop", "kill", "rescan", "terminate", "forget", "popen"} =>
              RecordedIn({name[t]})
        /\ pc[t] \in {"prepare", "stop"} => TrackedIs(name[t])
        /\ pc[t] \in {"kill", "terminate"} => pid[t] \in Pids /\ owner[pid[t]] = name[t]

AimedInv == NamedInv /\ SameInv /\ OneRecorded /\ AimInv

\* What is named is of the project that names it.
LEMMA NamedStep == TypeOK /\ LockInv /\ OwnerInv /\ NamedInv /\ [Next]_vars => NamedInv'
<1> SUFFICES ASSUME TypeOK, LockInv, OwnerInv, NamedInv, [Next]_vars PROVE NamedInv'
    OBVIOUS
<1> USE LauncherAssumption DEF TypeOK, PCs, LockInv, StopPCs, SpawnPCs, SnapshotPCs, Ops, Kinds, NoState, procVars, scanVars, reqVars, NamedInv, OwnerInv
<1>1. ASSUME NEW t \in Threads, Acquire(t) PROVE NamedInv'
    BY <1>1 DEF Acquire, Goto
<1>2. ASSUME NEW t \in Threads, ReadManaged(t) PROVE NamedInv'
    BY <1>2 DEF ReadManaged, Goto, Found
<1>3. ASSUME NEW t \in Threads, UnlinkStale(t) PROVE NamedInv'
    BY <1>3 DEF UnlinkStale, Goto
<1>4. ASSUME NEW t \in Threads, ScanEnds(t) PROVE NamedInv'
    BY <1>4 DEF ScanEnds, Goto
<1>5. ASSUME NEW t \in Threads, Probe(t) PROVE NamedInv'
    BY <1>5 DEF Probe, Goto, Found
<1>6. ASSUME NEW t \in Threads, NEW p \in Projects, Scan(t, p) PROVE NamedInv'
    BY <1>6 DEF Scan, Goto, Found, CleansStale
<1>7. ASSUME NEW t \in Threads, NEW p \in Projects, Rescan(t, p) PROVE NamedInv'
    BY <1>7 DEF Rescan, Goto, Found
<1>8. ASSUME NEW t \in Threads, DecideRefuse(t) PROVE NamedInv'
    BY <1>8 DEF DecideRefuse, Answer, Goto
<1>9. ASSUME NEW t \in Threads, DecideGo(t) PROVE NamedInv'
    BY <1>9 DEF DecideGo, Goto, Drop, Found, Refuses, Running
<1>10. ASSUME NEW t \in Threads, PrepareRefuse(t) PROVE NamedInv'
    BY <1>10 DEF PrepareRefuse, Answer, Goto
<1>11. ASSUME NEW t \in Threads, PrepareGo(t) PROVE NamedInv'
    BY <1>11 DEF PrepareGo, Goto
<1>12. ASSUME NEW t \in Threads, StopReadState(t) PROVE NamedInv'
    BY <1>12 DEF StopReadState, Goto
<1>13. ASSUME NEW t \in Threads, KillManaged(t) PROVE NamedInv'
    BY <1>13 DEF KillManaged, AfterStop, Answer, Goto, Drop, Found
<1>14. ASSUME NEW t \in Threads, RescanEnds(t) PROVE NamedInv'
    BY <1>14 DEF RescanEnds, AfterStop, Answer, Goto, Drop, Found
<1>15. ASSUME NEW t \in Threads, TerminateDetached(t) PROVE NamedInv'
    BY <1>15 DEF TerminateDetached, Goto
<1>16. ASSUME NEW t \in Threads, ForgetDetached(t) PROVE NamedInv'
    BY <1>16 DEF ForgetDetached, AfterStop, Answer, Goto, Drop, Found
<1>17. ASSUME NEW t \in Threads, Popen(t) PROVE NamedInv'
    BY <1>17 DEF Popen, Goto
<1>18. ASSUME NEW t \in Threads, PopenFails(t) PROVE NamedInv'
    BY <1>18 DEF PopenFails, Answer, Goto
<1>19. ASSUME NEW t \in Threads, OpenLog(t) PROVE NamedInv'
    BY <1>19 DEF OpenLog, Goto
<1>20. ASSUME NEW t \in Threads, OpenRecord(t) PROVE NamedInv'
    BY <1>20 DEF OpenRecord, Goto
<1>21. ASSUME NEW t \in Threads, WriteRecord(t) PROVE NamedInv'
    BY <1>21 DEF WriteRecord, Goto
<1>22. ASSUME NEW t \in Threads, Publish(t) PROVE NamedInv'
    BY <1>22 DEF Publish, Goto
<1>23. ASSUME NEW t \in Threads, StartReader(t) PROVE NamedInv'
    BY <1>23 DEF StartReader, Answer, Goto
<1>24. ASSUME NEW t \in Threads, SpawnFails(t) PROVE NamedInv'
    BY <1>24 DEF SpawnFails, Goto
<1>25. ASSUME NEW t \in Threads, AbortClear(t) PROVE NamedInv'
    BY <1>25 DEF AbortClear, Goto
<1>26. ASSUME NEW t \in Threads, AbortKill(t) PROVE NamedInv'
    BY <1>26 DEF AbortKill, Answer, Goto
<1>27. ASSUME NEW t \in Threads, Poll(t) PROVE NamedInv'
    BY <1>27 DEF Poll, Goto
<1>28. ASSUME NEW t \in Threads, NEW o \in Ops, NEW p \in Projects, Arrive(t, o, p) PROVE NamedInv'
    BY <1>28 DEF Arrive, Goto
<1>29. ASSUME NEW x \in Pids, ReaderCleanup(x) PROVE NamedInv'
    BY <1>29 DEF ReaderCleanup
<1>30. ASSUME NEW x \in Pids, ReaderUnlink(x) PROVE NamedInv'
    BY <1>30 DEF ReaderUnlink
<1>31. ASSUME NEW x \in Pids, ReaderFails(x) PROVE NamedInv'
    BY <1>31 DEF ReaderFails
<1>32. ASSUME NEW x \in Pids, RuntimeExits(x) PROVE NamedInv'
    BY <1>32 DEF RuntimeExits
<1>33. ASSUME CrashRestart PROVE NamedInv'
    BY <1>33 DEF CrashRestart
<1>34. CASE UNCHANGED vars
    BY <1>34 DEF vars
<1>35. QED
    BY <1>1, <1>2, <1>3, <1>4, <1>5, <1>6, <1>7, <1>8, <1>9, <1>10, <1>11, <1>12, <1>13,
       <1>14, <1>15, <1>16, <1>17, <1>18, <1>19, <1>20, <1>21, <1>22, <1>23, <1>24, <1>25,
       <1>26, <1>27, <1>28, <1>29, <1>30, <1>31, <1>32, <1>33, <1>34
       DEF Next, Serve, Read

\* A runtime is recorded beside another one's only in the project of both.
LEMMA SameStep == TypeOK /\ LockInv /\ QuietInv /\ HeldInv /\ NamedInv /\ AimInv /\ SameInv /\ [Next]_vars => SameInv'
<1> SUFFICES ASSUME TypeOK, LockInv, QuietInv, HeldInv, NamedInv, AimInv, SameInv, [Next]_vars PROVE SameInv'
    OBVIOUS
<1> USE LauncherAssumption DEF TypeOK, PCs, LockInv, StopPCs, SpawnPCs, SnapshotPCs, Ops, Kinds, NoState, procVars, scanVars, reqVars, NamedInv, SameInv, QuietInv, HeldInv, Quiet, AimInv, RecordedIn, TrackedIs
<1>1. ASSUME NEW t \in Threads, Acquire(t) PROVE SameInv'
    BY <1>1 DEF Acquire, Goto
<1>2. ASSUME NEW t \in Threads, ReadManaged(t) PROVE SameInv'
    BY <1>2 DEF ReadManaged, Goto, Found
<1>3. ASSUME NEW t \in Threads, UnlinkStale(t) PROVE SameInv'
    BY <1>3 DEF UnlinkStale, Goto
<1>4. ASSUME NEW t \in Threads, ScanEnds(t) PROVE SameInv'
    BY <1>4 DEF ScanEnds, Goto
<1>5. ASSUME NEW t \in Threads, Probe(t) PROVE SameInv'
    BY <1>5 DEF Probe, Goto, Found
<1>6. ASSUME NEW t \in Threads, NEW p \in Projects, Scan(t, p) PROVE SameInv'
    BY <1>6 DEF Scan, Goto, Found, CleansStale
<1>7. ASSUME NEW t \in Threads, NEW p \in Projects, Rescan(t, p) PROVE SameInv'
    BY <1>7 DEF Rescan, Goto, Found
<1>8. ASSUME NEW t \in Threads, DecideRefuse(t) PROVE SameInv'
    BY <1>8 DEF DecideRefuse, Answer, Goto
<1>9. ASSUME NEW t \in Threads, DecideGo(t) PROVE SameInv'
    BY <1>9 DEF DecideGo, Goto, Drop, Found, Refuses, Running
<1>10. ASSUME NEW t \in Threads, PrepareRefuse(t) PROVE SameInv'
    BY <1>10 DEF PrepareRefuse, Answer, Goto
<1>11. ASSUME NEW t \in Threads, PrepareGo(t) PROVE SameInv'
    BY <1>11 DEF PrepareGo, Goto
<1>12. ASSUME NEW t \in Threads, StopReadState(t) PROVE SameInv'
    BY <1>12 DEF StopReadState, Goto
<1>13. ASSUME NEW t \in Threads, KillManaged(t) PROVE SameInv'
    BY <1>13 DEF KillManaged, AfterStop, Answer, Goto, Drop, Found
<1>14. ASSUME NEW t \in Threads, RescanEnds(t) PROVE SameInv'
    BY <1>14 DEF RescanEnds, AfterStop, Answer, Goto, Drop, Found
<1>15. ASSUME NEW t \in Threads, TerminateDetached(t) PROVE SameInv'
    BY <1>15 DEF TerminateDetached, Goto
<1>16. ASSUME NEW t \in Threads, ForgetDetached(t) PROVE SameInv'
    BY <1>16 DEF ForgetDetached, AfterStop, Answer, Goto, Drop, Found
<1>17. ASSUME NEW t \in Threads, Popen(t) PROVE SameInv'
    BY <1>17 DEF Popen, Goto
<1>18. ASSUME NEW t \in Threads, PopenFails(t) PROVE SameInv'
    BY <1>18 DEF PopenFails, Answer, Goto
<1>19. ASSUME NEW t \in Threads, OpenLog(t) PROVE SameInv'
    BY <1>19 DEF OpenLog, Goto
<1>20. ASSUME NEW t \in Threads, OpenRecord(t) PROVE SameInv'
    BY <1>20 DEF OpenRecord, Goto
<1>21. ASSUME NEW t \in Threads, WriteRecord(t) PROVE SameInv'
    BY <1>21 DEF WriteRecord, Goto
<1>22. ASSUME NEW t \in Threads, Publish(t) PROVE SameInv'
    BY <1>22 DEF Publish, Goto
<1>23. ASSUME NEW t \in Threads, StartReader(t) PROVE SameInv'
    BY <1>23 DEF StartReader, Answer, Goto
<1>24. ASSUME NEW t \in Threads, SpawnFails(t) PROVE SameInv'
    BY <1>24 DEF SpawnFails, Goto
<1>25. ASSUME NEW t \in Threads, AbortClear(t) PROVE SameInv'
    BY <1>25 DEF AbortClear, Goto
<1>26. ASSUME NEW t \in Threads, AbortKill(t) PROVE SameInv'
    BY <1>26 DEF AbortKill, Answer, Goto
<1>27. ASSUME NEW t \in Threads, Poll(t) PROVE SameInv'
    BY <1>27 DEF Poll, Goto
<1>28. ASSUME NEW t \in Threads, NEW o \in Ops, NEW p \in Projects, Arrive(t, o, p) PROVE SameInv'
    BY <1>28 DEF Arrive, Goto
<1>29. ASSUME NEW x \in Pids, ReaderCleanup(x) PROVE SameInv'
    BY <1>29 DEF ReaderCleanup
<1>30. ASSUME NEW x \in Pids, ReaderUnlink(x) PROVE SameInv'
    BY <1>30 DEF ReaderUnlink
<1>31. ASSUME NEW x \in Pids, ReaderFails(x) PROVE SameInv'
    BY <1>31 DEF ReaderFails
<1>32. ASSUME NEW x \in Pids, RuntimeExits(x) PROVE SameInv'
    BY <1>32 DEF RuntimeExits
<1>33. ASSUME CrashRestart PROVE SameInv'
    BY <1>33 DEF CrashRestart
<1>34. CASE UNCHANGED vars
    BY <1>34 DEF vars
<1>35. QED
    BY <1>1, <1>2, <1>3, <1>4, <1>5, <1>6, <1>7, <1>8, <1>9, <1>10, <1>11, <1>12, <1>13,
       <1>14, <1>15, <1>16, <1>17, <1>18, <1>19, <1>20, <1>21, <1>22, <1>23, <1>24, <1>25,
       <1>26, <1>27, <1>28, <1>29, <1>30, <1>31, <1>32, <1>33, <1>34
       DEF Next, Serve, Read

\* Only a new runtime is newly recorded, and SameInv says beside whom.
LEMMA SoleStep == TypeOK /\ LockInv /\ NamedInv /\ SameInv /\ OneRecorded /\ [Next]_vars => OneRecorded'
<1> SUFFICES ASSUME TypeOK, LockInv, NamedInv, SameInv, OneRecorded, [Next]_vars PROVE OneRecorded'
    OBVIOUS
<1> USE LauncherAssumption DEF TypeOK, PCs, LockInv, StopPCs, SpawnPCs, SnapshotPCs, Ops, Kinds, NoState, procVars, scanVars, reqVars, NamedInv, SameInv, OneRecorded
<1>1. ASSUME NEW t \in Threads, Acquire(t) PROVE OneRecorded'
    BY <1>1 DEF Acquire, Goto
<1>2. ASSUME NEW t \in Threads, ReadManaged(t) PROVE OneRecorded'
    BY <1>2 DEF ReadManaged, Goto, Found
<1>3. ASSUME NEW t \in Threads, UnlinkStale(t) PROVE OneRecorded'
    BY <1>3 DEF UnlinkStale, Goto
<1>4. ASSUME NEW t \in Threads, ScanEnds(t) PROVE OneRecorded'
    BY <1>4 DEF ScanEnds, Goto
<1>5. ASSUME NEW t \in Threads, Probe(t) PROVE OneRecorded'
    BY <1>5 DEF Probe, Goto, Found
<1>6. ASSUME NEW t \in Threads, NEW p \in Projects, Scan(t, p) PROVE OneRecorded'
    BY <1>6 DEF Scan, Goto, Found, CleansStale
<1>7. ASSUME NEW t \in Threads, NEW p \in Projects, Rescan(t, p) PROVE OneRecorded'
    BY <1>7 DEF Rescan, Goto, Found
<1>8. ASSUME NEW t \in Threads, DecideRefuse(t) PROVE OneRecorded'
    BY <1>8 DEF DecideRefuse, Answer, Goto
<1>9. ASSUME NEW t \in Threads, DecideGo(t) PROVE OneRecorded'
    BY <1>9 DEF DecideGo, Goto, Drop, Found, Refuses, Running
<1>10. ASSUME NEW t \in Threads, PrepareRefuse(t) PROVE OneRecorded'
    BY <1>10 DEF PrepareRefuse, Answer, Goto
<1>11. ASSUME NEW t \in Threads, PrepareGo(t) PROVE OneRecorded'
    BY <1>11 DEF PrepareGo, Goto
<1>12. ASSUME NEW t \in Threads, StopReadState(t) PROVE OneRecorded'
    BY <1>12 DEF StopReadState, Goto
<1>13. ASSUME NEW t \in Threads, KillManaged(t) PROVE OneRecorded'
    BY <1>13 DEF KillManaged, AfterStop, Answer, Goto, Drop, Found
<1>14. ASSUME NEW t \in Threads, RescanEnds(t) PROVE OneRecorded'
    BY <1>14 DEF RescanEnds, AfterStop, Answer, Goto, Drop, Found
<1>15. ASSUME NEW t \in Threads, TerminateDetached(t) PROVE OneRecorded'
    BY <1>15 DEF TerminateDetached, Goto
<1>16. ASSUME NEW t \in Threads, ForgetDetached(t) PROVE OneRecorded'
    BY <1>16 DEF ForgetDetached, AfterStop, Answer, Goto, Drop, Found
<1>17. ASSUME NEW t \in Threads, Popen(t) PROVE OneRecorded'
    BY <1>17 DEF Popen, Goto
<1>18. ASSUME NEW t \in Threads, PopenFails(t) PROVE OneRecorded'
    BY <1>18 DEF PopenFails, Answer, Goto
<1>19. ASSUME NEW t \in Threads, OpenLog(t) PROVE OneRecorded'
    BY <1>19 DEF OpenLog, Goto
<1>20. ASSUME NEW t \in Threads, OpenRecord(t) PROVE OneRecorded'
    BY <1>20 DEF OpenRecord, Goto
<1>21. ASSUME NEW t \in Threads, WriteRecord(t) PROVE OneRecorded'
    BY <1>21 DEF WriteRecord, Goto
<1>22. ASSUME NEW t \in Threads, Publish(t) PROVE OneRecorded'
    BY <1>22 DEF Publish, Goto
<1>23. ASSUME NEW t \in Threads, StartReader(t) PROVE OneRecorded'
    BY <1>23 DEF StartReader, Answer, Goto
<1>24. ASSUME NEW t \in Threads, SpawnFails(t) PROVE OneRecorded'
    BY <1>24 DEF SpawnFails, Goto
<1>25. ASSUME NEW t \in Threads, AbortClear(t) PROVE OneRecorded'
    BY <1>25 DEF AbortClear, Goto
<1>26. ASSUME NEW t \in Threads, AbortKill(t) PROVE OneRecorded'
    BY <1>26 DEF AbortKill, Answer, Goto
<1>27. ASSUME NEW t \in Threads, Poll(t) PROVE OneRecorded'
    BY <1>27 DEF Poll, Goto
<1>28. ASSUME NEW t \in Threads, NEW o \in Ops, NEW p \in Projects, Arrive(t, o, p) PROVE OneRecorded'
    BY <1>28 DEF Arrive, Goto
<1>29. ASSUME NEW x \in Pids, ReaderCleanup(x) PROVE OneRecorded'
    BY <1>29 DEF ReaderCleanup
<1>30. ASSUME NEW x \in Pids, ReaderUnlink(x) PROVE OneRecorded'
    BY <1>30 DEF ReaderUnlink
<1>31. ASSUME NEW x \in Pids, ReaderFails(x) PROVE OneRecorded'
    BY <1>31 DEF ReaderFails
<1>32. ASSUME NEW x \in Pids, RuntimeExits(x) PROVE OneRecorded'
    BY <1>32 DEF RuntimeExits
<1>33. ASSUME CrashRestart PROVE OneRecorded'
    BY <1>33 DEF CrashRestart
<1>34. CASE UNCHANGED vars
    BY <1>34 DEF vars
<1>35. QED
    BY <1>1, <1>2, <1>3, <1>4, <1>5, <1>6, <1>7, <1>8, <1>9, <1>10, <1>11, <1>12, <1>13,
       <1>14, <1>15, <1>16, <1>17, <1>18, <1>19, <1>20, <1>21, <1>22, <1>23, <1>24, <1>25,
       <1>26, <1>27, <1>28, <1>29, <1>30, <1>31, <1>32, <1>33, <1>34
       DEF Next, Serve, Read

\* What the holder knows of the runtime that runs stays so: nobody else starts one.
LEMMA AimStep == TypeOK /\ LockInv /\ QuietInv /\ NamedInv /\ SameInv /\ OneRecorded /\ AimInv /\ [Next]_vars => AimInv'
<1> SUFFICES ASSUME TypeOK, LockInv, QuietInv, NamedInv, SameInv, OneRecorded, AimInv, [Next]_vars PROVE AimInv'
    OBVIOUS
<1> USE LauncherAssumption DEF TypeOK, PCs, LockInv, StopPCs, SpawnPCs, SnapshotPCs, Ops, Kinds, NoState, procVars, scanVars, reqVars, NamedInv, SameInv, OneRecorded, QuietInv, Quiet, AimInv, RecordedIn, TrackedIs
<1>1. ASSUME NEW t \in Threads, Acquire(t) PROVE AimInv'
    BY <1>1 DEF Acquire, Goto
<1>2. ASSUME NEW t \in Threads, ReadManaged(t) PROVE AimInv'
    BY <1>2 DEF ReadManaged, Goto, Found
<1>3. ASSUME NEW t \in Threads, UnlinkStale(t) PROVE AimInv'
    BY <1>3 DEF UnlinkStale, Goto
<1>4. ASSUME NEW t \in Threads, ScanEnds(t) PROVE AimInv'
    BY <1>4 DEF ScanEnds, Goto
<1>5. ASSUME NEW t \in Threads, Probe(t) PROVE AimInv'
    BY <1>5 DEF Probe, Goto, Found
<1>6. ASSUME NEW t \in Threads, NEW p \in Projects, Scan(t, p) PROVE AimInv'
    BY <1>6 DEF Scan, Goto, Found, CleansStale
<1>7. ASSUME NEW t \in Threads, NEW p \in Projects, Rescan(t, p) PROVE AimInv'
    BY <1>7 DEF Rescan, Goto, Found
<1>8. ASSUME NEW t \in Threads, DecideRefuse(t) PROVE AimInv'
    BY <1>8 DEF DecideRefuse, Answer, Goto
<1>9. ASSUME NEW t \in Threads, DecideGo(t) PROVE AimInv'
    BY <1>9 DEF DecideGo, Goto, Drop, Found, Refuses, Running
<1>10. ASSUME NEW t \in Threads, PrepareRefuse(t) PROVE AimInv'
    BY <1>10 DEF PrepareRefuse, Answer, Goto
<1>11. ASSUME NEW t \in Threads, PrepareGo(t) PROVE AimInv'
    BY <1>11 DEF PrepareGo, Goto
<1>12. ASSUME NEW t \in Threads, StopReadState(t) PROVE AimInv'
    BY <1>12 DEF StopReadState, Goto
<1>13. ASSUME NEW t \in Threads, KillManaged(t) PROVE AimInv'
    BY <1>13 DEF KillManaged, AfterStop, Answer, Goto, Drop, Found
<1>14. ASSUME NEW t \in Threads, RescanEnds(t) PROVE AimInv'
    BY <1>14 DEF RescanEnds, AfterStop, Answer, Goto, Drop, Found
<1>15. ASSUME NEW t \in Threads, TerminateDetached(t) PROVE AimInv'
    BY <1>15 DEF TerminateDetached, Goto
<1>16. ASSUME NEW t \in Threads, ForgetDetached(t) PROVE AimInv'
    BY <1>16 DEF ForgetDetached, AfterStop, Answer, Goto, Drop, Found
<1>17. ASSUME NEW t \in Threads, Popen(t) PROVE AimInv'
    BY <1>17 DEF Popen, Goto
<1>18. ASSUME NEW t \in Threads, PopenFails(t) PROVE AimInv'
    BY <1>18 DEF PopenFails, Answer, Goto
<1>19. ASSUME NEW t \in Threads, OpenLog(t) PROVE AimInv'
    BY <1>19 DEF OpenLog, Goto
<1>20. ASSUME NEW t \in Threads, OpenRecord(t) PROVE AimInv'
    BY <1>20 DEF OpenRecord, Goto
<1>21. ASSUME NEW t \in Threads, WriteRecord(t) PROVE AimInv'
    BY <1>21 DEF WriteRecord, Goto
<1>22. ASSUME NEW t \in Threads, Publish(t) PROVE AimInv'
    BY <1>22 DEF Publish, Goto
<1>23. ASSUME NEW t \in Threads, StartReader(t) PROVE AimInv'
    BY <1>23 DEF StartReader, Answer, Goto
<1>24. ASSUME NEW t \in Threads, SpawnFails(t) PROVE AimInv'
    BY <1>24 DEF SpawnFails, Goto
<1>25. ASSUME NEW t \in Threads, AbortClear(t) PROVE AimInv'
    BY <1>25 DEF AbortClear, Goto
<1>26. ASSUME NEW t \in Threads, AbortKill(t) PROVE AimInv'
    BY <1>26 DEF AbortKill, Answer, Goto
<1>27. ASSUME NEW t \in Threads, Poll(t) PROVE AimInv'
    BY <1>27 DEF Poll, Goto
<1>28. ASSUME NEW t \in Threads, NEW o \in Ops, NEW p \in Projects, Arrive(t, o, p) PROVE AimInv'
    BY <1>28 DEF Arrive, Goto
<1>29. ASSUME NEW x \in Pids, ReaderCleanup(x) PROVE AimInv'
    BY <1>29 DEF ReaderCleanup
<1>30. ASSUME NEW x \in Pids, ReaderUnlink(x) PROVE AimInv'
    BY <1>30 DEF ReaderUnlink
<1>31. ASSUME NEW x \in Pids, ReaderFails(x) PROVE AimInv'
    BY <1>31 DEF ReaderFails
<1>32. ASSUME NEW x \in Pids, RuntimeExits(x) PROVE AimInv'
    BY <1>32 DEF RuntimeExits
<1>33. ASSUME CrashRestart PROVE AimInv'
    BY <1>33 DEF CrashRestart
<1>34. CASE UNCHANGED vars
    BY <1>34 DEF vars
<1>35. QED
    BY <1>1, <1>2, <1>3, <1>4, <1>5, <1>6, <1>7, <1>8, <1>9, <1>10, <1>11, <1>12, <1>13,
       <1>14, <1>15, <1>16, <1>17, <1>18, <1>19, <1>20, <1>21, <1>22, <1>23, <1>24, <1>25,
       <1>26, <1>27, <1>28, <1>29, <1>30, <1>31, <1>32, <1>33, <1>34
       DEF Next, Serve, Read

LEMMA AimedInit == Init => AimedInv
BY LauncherAssumption DEF Init, AimedInv, NamedInv, SameInv, OneRecorded, AimInv, NoState,
   StopPCs, SpawnPCs

LEMMA AimedStep == IInv /\ AimedInv /\ [Next]_vars => AimedInv'
BY NamedStep, SameStep, SoleStep, AimStep DEF IInv, AimedInv

\* The inductive invariant, together with what the holder of the lock knows.
THEOREM LauncherAimed == Spec => [](IInv /\ AimedInv)
<1>1. Init => IInv /\ AimedInv
    BY InvInit, AimedInit
<1>2. IInv /\ AimedInv /\ [Next]_vars => (IInv /\ AimedInv)'
    BY InvStep, AimedStep
<1>3. QED
    BY <1>1, <1>2, PTL DEF Spec

\* For any projects, threads and pids, also those _terminate_pid cannot end: at most one
\* running.json names a live process.
THEOREM LauncherOneRecorded == Spec => []OneRecorded
<1>1. IInv /\ AimedInv => OneRecorded
    BY DEF AimedInv
<1>2. QED
    BY <1>1, LauncherAimed, PTL

\* What is stopped in these steps is what the snapshot found, which is the project's own.
LEMMA StopsStep ==
    ASSUME IInv, AimedInv, [Next]_vars, NEW t \in Threads, pc[t] \in {"kill", "terminate"},
           pc'[t] # pc[t], NEW x \in alive \ alive'
    PROVE  owner[x] = name[t]
<1>1. lock = t /\ owner[pid[t]] = name[t]
    BY DEF IInv, LockInv, StopPCs, AimedInv, AimInv
<1>2. pc \in [Threads -> PCs] /\ \A u \in Threads : pc[u] \in {"kill", "terminate", "reap"} => lock = u
    BY DEF IInv, TypeOK, LockInv, StopPCs, SpawnPCs
<1>3. CASE \E u \in Threads : KillManaged(u) \/ TerminateDetached(u) \/ AbortKill(u)
    <2>1. PICK u \in Threads : KillManaged(u) \/ TerminateDetached(u) \/ AbortKill(u)
        BY <1>3
    <2>2. u = t
        BY <1>1, <1>2, <2>1 DEF KillManaged, TerminateDetached, AbortKill
    <2>3. alive \ alive' \subseteq {pid[t]}
        BY <2>1, <2>2 DEF KillManaged, TerminateDetached, AbortKill
    <2>4. QED
        BY <1>1, <2>3
<1>4. CASE (\E y \in Pids : RuntimeExits(y)) \/ CrashRestart \/ UNCHANGED vars
    BY <1>4 DEF RuntimeExits, CrashRestart, vars, reqVars
<1>5. CASE \E u \in Threads : Serve(u) /\ ~(KillManaged(u) \/ TerminateDetached(u) \/ AbortKill(u))
    BY <1>5 DEF Serve, Acquire, ReadManaged, UnlinkStale, ScanEnds, Probe, Scan, Rescan, DecideRefuse,
       DecideGo, PrepareRefuse, PrepareGo, StopReadState, RescanEnds, ForgetDetached, Popen,
       PopenFails, OpenLog, OpenRecord, WriteRecord, Publish, StartReader, SpawnFails,
       AbortClear, procVars
<1>6. CASE \E y \in Pids : Read(y)
    BY <1>6 DEF Read, ReaderCleanup, ReaderUnlink, ReaderFails, procVars
<1>7. CASE \E u \in Threads : Poll(u) \/ \E o \in Ops, p \in Projects : Arrive(u, o, p)
    BY <1>7 DEF Poll, Arrive, procVars
<1>8. QED
    BY <1>3, <1>4, <1>5, <1>6, <1>7 DEF Next

\* For any projects, threads and pids: a stop or a restart ends no runtime but its own
\* project's (#670), also when that runtime exits, or another request acts, after the check.
THEOREM LauncherStopsOnlyOwn == Spec => StopsOnlyOwn
<1> DEFINE Own == \A t \in Threads :
          pc[t] \in {"kill", "terminate"} /\ pc'[t] # pc[t]
              => \A x \in alive \ alive' : owner[x] = name[t]
<1>1. IInv /\ AimedInv /\ [Next]_vars => [Own]_vars
    BY StopsStep
<1>2. QED
    BY <1>1, LauncherAimed, PTL DEF Spec, StopsOnlyOwn

-----------------------------------------------------------------------------
(* The refinement of RuntimeSlot.                                          *)

\* The slot shows the project of the runtime that runs.
LEMMA SlotShows == ASSUME OneManaged, NEW x \in mine \cap alive PROVE SlotRun = {<<owner[x], x>>}
BY DEF OneManaged, SlotRun

\* The same, one state later.
LEMMA SlotShowsNext == ASSUME OneManaged', NEW x, x \in mine' \cap alive' PROVE SlotRun' = {<<owner'[x], x>>}
BY DEF OneManaged, SlotRun

\* A step that starts nothing keeps the slot or empties it.
LEMMA SlotShrinks ==
    ASSUME IInv, IInv', mine' \cap alive' \subseteq mine \cap alive, owner' = owner
    PROVE  SlotRun' \in {SlotRun, {}}
<1>1. CASE mine' \cap alive' = {}
    BY <1>1 DEF SlotRun
<1>2. CASE mine' \cap alive' # {}
    <2>1. PICK x : x \in mine' \cap alive'
        BY <1>2
    <2>2. OneManaged /\ OneManaged'
        BY InvOneManaged, PTL
    <2>3. SlotRun = {<<owner[x], x>>}
        BY <2>1, <2>2, SlotShows
    <2>4. SlotRun' = {<<owner'[x], x>>}
        BY <2>1, <2>2, SlotShowsNext
    <2>5. QED
        BY <2>3, <2>4
<1>3. QED
    BY <1>1, <1>2

\* A step that starts nothing and serves on: the slot stutters or empties.
LEMMA SlotKeepsOn ==
    ASSUME IInv, IInv', mine' \cap alive' \subseteq mine \cap alive, owner' = owner,
           UNCHANGED <<op, name>>
    PROVE  [Slot!Next]_(Slot!slotVars)
<1>1. SlotRun' \in {SlotRun, {}}
    BY SlotShrinks
<1>2. SlotWant' = SlotWant
    BY DEF SlotWant
<1>3. QED
    BY <1>1, <1>2 DEF Slot!Next, Slot!Leave, Slot!slotVars

\* A step that answers a request finishes it.
LEMMA SlotAnswers ==
    ASSUME IInv, IInv', NEW t \in Threads, Answer(t),
           mine' \cap alive' \subseteq mine \cap alive, owner' = owner
    PROVE  [Slot!Next]_(Slot!slotVars)
<1>1. SlotRun' \in {SlotRun, {}}
    BY SlotShrinks
<1>2. SlotWant' = [SlotWant EXCEPT ![t] = None]
    BY LauncherAssumption DEF SlotWant, Answer, IInv, TypeOK, Ops
<1>3. Slot!Finish(t)
    BY <1>1, <1>2 DEF Slot!Finish
<1>4. QED
    BY <1>3 DEF Slot!Next

\* A workbench that starts has an empty slot and nobody who asks.
LEMMA SlotInit == Init => Slot!Init
BY LauncherAssumption DEF Init, Slot!Init, SlotRun, SlotWant, Ops

\* A request arrives: a wish is asked for, and nothing starts.
LEMMA SlotAsks ==
    ASSUME IInv, IInv', NEW t \in Threads, NEW o \in Ops, NEW p \in Projects, Arrive(t, o, p)
    PROVE  [Slot!Next]_(Slot!slotVars)
<1>1. SlotRun' = SlotRun
    BY DEF Arrive, SlotRun, procVars
<1>2. SlotWant[t] = None
    BY LauncherAssumption DEF Arrive, SlotWant, IInv, LockInv, Ops
<1>3. SlotWant' = [SlotWant EXCEPT ![t] = <<o, p>>]
    BY DEF Arrive, SlotWant, IInv, TypeOK
<1>4. <<o, p>> \in Slot!Wishes
    BY DEF Slot!Wishes, Ops
<1>5. Slot!Ask(t, <<o, p>>)
    BY <1>1, <1>2, <1>3 DEF Slot!Ask
<1>6. QED
    BY <1>4, <1>5 DEF Slot!Next

\* Popen is where a runtime enters the slot, which is empty then.
LEMMA SlotEnters ==
    ASSUME IInv, IInv', NEW t \in Threads, Popen(t)
    PROVE  [Slot!Next]_(Slot!slotVars)
<1>1. PICK x \in Pids : /\ alive' = alive \cup {x}
                        /\ mine' = mine \cup {x}
                        /\ owner' = [owner EXCEPT ![x] = name[t]]
    BY DEF Popen
<1>2. SlotRun = {}
    <2>1. lock = t /\ Quiet(t)
        BY DEF Popen, IInv, LockInv, Quiet
    <2>2. mine \cap alive = {}
        BY <2>1 DEF IInv, QuietInv
    <2>3. QED
        BY <2>2 DEF SlotRun
<1>3. name[t] \in Projects /\ op[t] \in {"launch", "restart"} /\ op[t] \in Ops
    BY DEF Popen, IInv, LockInv, Ops
<1>4. SlotRun' = {<<name[t], x>>}
    <2>1. OneManaged'
        BY InvOneManaged, PTL
    <2>2. x \in mine' \cap alive'
        BY <1>1
    <2>3. SlotRun' = {<<owner'[x], x>>}
        BY <2>1, <2>2, SlotShowsNext
    <2>4. owner'[x] = name[t]
        BY <1>1 DEF IInv, TypeOK
    <2>5. QED
        BY <2>3, <2>4
<1>5. SlotWant' = SlotWant
    BY DEF Popen, SlotWant
<1>6. SlotWant[t] \in {"launch", "restart"} \X {name[t]}
    BY <1>3 DEF SlotWant
<1>7. Slot!Enter(t, name[t], x)
    BY <1>2, <1>4, <1>5, <1>6 DEF Slot!Enter
<1>8. QED
    BY <1>3, <1>7 DEF Slot!Next

\* A crash empties the slot and forgets who asked.
LEMMA SlotForgets ==
    ASSUME CrashRestart PROVE [Slot!Next]_(Slot!slotVars)
<1>1. SlotRun' = {}
    BY DEF CrashRestart, SlotRun
<1>2. SlotWant' = [t \in Threads |-> None]
    BY LauncherAssumption DEF CrashRestart, SlotWant, Ops
<1>3. QED
    BY <1>1, <1>2 DEF Slot!Forget, Slot!Next

\* Every step of the launcher is a step of the slot or leaves it as it is.
LEMMA SlotStep ==
    ASSUME IInv, IInv', [Next]_vars PROVE [Slot!Next]_(Slot!slotVars)
<1> USE DEF procVars, scanVars, reqVars
<1>1. CASE \E t \in Threads : Popen(t)
    BY <1>1, SlotEnters
<1>2. CASE CrashRestart
    BY <1>2, SlotForgets
<1>3. ASSUME NEW t \in Threads, NEW o \in Ops, NEW p \in Projects, Arrive(t, o, p)
      PROVE  [Slot!Next]_(Slot!slotVars)
    BY <1>3, SlotAsks
<1>4. ASSUME NEW t \in Threads, Poll(t) PROVE [Slot!Next]_(Slot!slotVars)
    <2>1. SlotRun' = SlotRun
        BY <1>4 DEF Poll, SlotRun
    <2>2. SlotWant' = SlotWant
        <3>1. op[t] \notin Ops /\ op'[t] \notin Ops
            BY <1>4, LauncherAssumption DEF Poll, IInv, LockInv, TypeOK, Ops
        <3>2. \A s \in Threads : s # t => op'[s] = op[s]
            BY <1>4 DEF Poll, IInv, TypeOK
        <3>3. name' = name
            BY <1>4 DEF Poll
        <3>4. QED
            BY <3>1, <3>2, <3>3 DEF SlotWant
    <2>3. QED
        BY <2>1, <2>2 DEF Slot!slotVars
\* The steps that answer a request.
<1>5. ASSUME NEW t \in Threads,
             DecideRefuse(t) \/ PrepareRefuse(t) \/ PopenFails(t) \/ StartReader(t) \/ AbortKill(t)
      PROVE  [Slot!Next]_(Slot!slotVars)
    <2>1. Answer(t) /\ mine' \cap alive' \subseteq mine \cap alive /\ owner' = owner
        BY <1>5 DEF DecideRefuse, PrepareRefuse, PopenFails, StartReader, AbortKill
    <2>2. QED
        BY <2>1, SlotAnswers
\* The steps that end _stop_locked: they answer a stop, and a restart goes on.
<1>6. ASSUME NEW t \in Threads, KillManaged(t) \/ RescanEnds(t) \/ ForgetDetached(t)
      PROVE  [Slot!Next]_(Slot!slotVars)
    <2>1. mine' \cap alive' \subseteq mine \cap alive /\ owner' = owner /\ AfterStop(t)
        BY <1>6 DEF KillManaged, RescanEnds, ForgetDetached
    <2>2. CASE Answer(t)
        BY <2>1, <2>2, SlotAnswers
    <2>3. CASE UNCHANGED <<lock, op, name>>
        BY <2>1, <2>3, SlotKeepsOn
    <2>4. QED
        BY <2>1, <2>2, <2>3 DEF AfterStop
\* The steps in the middle of a request.
<1>7. ASSUME NEW t \in Threads,
             \/ Acquire(t) \/ ReadManaged(t) \/ UnlinkStale(t) \/ ScanEnds(t) \/ Probe(t)
             \/ \E p \in Projects : Scan(t, p) \/ Rescan(t, p)
             \/ DecideGo(t) \/ PrepareGo(t) \/ StopReadState(t) \/ TerminateDetached(t)
             \/ OpenLog(t) \/ OpenRecord(t) \/ WriteRecord(t) \/ Publish(t)
             \/ SpawnFails(t) \/ AbortClear(t)
      PROVE  [Slot!Next]_(Slot!slotVars)
    <2>1. mine' \cap alive' \subseteq mine \cap alive /\ owner' = owner /\ UNCHANGED <<op, name>>
        BY <1>7 DEF Acquire, ReadManaged, UnlinkStale, ScanEnds, Probe, Scan, Rescan, DecideGo,
           PrepareGo, StopReadState, TerminateDetached, OpenLog, OpenRecord, WriteRecord,
           Publish, SpawnFails, AbortClear
    <2>2. QED
        BY <2>1, SlotKeepsOn
\* The readers, and the runtimes that exit.
<1>8. ASSUME NEW x \in Pids, Read(x) \/ RuntimeExits(x) PROVE [Slot!Next]_(Slot!slotVars)
    <2>1. mine' \cap alive' \subseteq mine \cap alive /\ owner' = owner /\ UNCHANGED <<op, name>>
        BY <1>8 DEF Read, ReaderCleanup, ReaderUnlink, ReaderFails, RuntimeExits
    <2>2. QED
        BY <2>1, SlotKeepsOn
<1>9. CASE UNCHANGED vars
    BY <1>9 DEF vars, SlotRun, SlotWant, Slot!slotVars
<1>10. QED
    BY <1>1, <1>2, <1>3, <1>4, <1>5, <1>6, <1>7, <1>8, <1>9 DEF Next, Serve

\* The launcher implements RuntimeSlot: one slot, entered only when it is empty
\* and only on a launch or restart that names the project.
THEOREM LauncherSlot == Spec => SlotSpec
<1>1. Init => Slot!Init
    BY SlotInit
<1>2. IInv /\ IInv' /\ [Next]_vars => [Slot!Next]_(Slot!slotVars)
    BY SlotStep
<1>3. QED
    BY <1>1, <1>2, LauncherInv, PTL DEF Spec, SlotSpec, Slot!Spec

=============================================================================
