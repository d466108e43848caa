----------------------------- MODULE ProjectFiles -----------------------------
(***************************************************************************)
(* The files of one project: core/projects.py (reading and saving),        *)
(* core/canonical.py (read_project and its cache, write_project, pruning)  *)
(* and core/migrations.py (a legacy system.json project is migrated the    *)
(* first time a request sees it). Saves hold _WRITE_LOCK; reads and        *)
(* migrations hold nothing. The workbench can crash between any two steps. *)
(*                                                                         *)
(* One action reads or replaces one file (_write_text_atomic renames a     *)
(* whole file into place). A file's content is the number of the save or   *)
(* migration that wrote it, which is also its stamp: a rewritten file has  *)
(* another inode, size or time.                                            *)
(***************************************************************************)
EXTENDS Naturals, FiniteSets

CONSTANTS
    Threads,      \* the request threads of the HTTP server
    Configs,      \* the config files a profile may declare
    Manual,       \* the config of the manual variant, which every profile declares
    MaxWriters,   \* bounds the saves and migrations of a run
    MaxGets,      \* bounds the gets that are served at a time
    MaxCrashes,   \* bounds the crashes of the workbench
    None          \* Python's None

ASSUME FilesAssumption ==
    /\ Manual \in Configs
    /\ None \notin Threads \cup Configs
    /\ Configs \cap {"profile", "sidecar"} = {}
    /\ MaxWriters \in Nat \ {0} /\ MaxGets \in Nat /\ MaxCrashes \in Nat

VARIABLES
    system,    \* whether system.json is there
    backup,    \* system.json.pre255.bak: "none", "partial" or "whole"
    profile,   \* machine-profile.yaml: its writer and the configs it declares
    config,    \* config[c]: the writer of c, Absent while there is no such file
    sidecar,   \* the writer of the sidecar, or Absent
    lock,      \* the thread that holds _WRITE_LOCK, or None
    cache,     \* _READ_CACHE's entry: what was stamped and what was read
    pc,        \* pc[t]: where request thread t is
    op,        \* op[t]: what it serves
    new,       \* new[t]: the document it writes
    owned,     \* owned[t]: the configs of the profile it found (previously_owned);
               \* of a read, the config that is stamped and not yet read
    todo,      \* todo[t]: the files it has yet to write, retire, check or read
    read,      \* read[t]: the stamps and contents it has read, shaped as cache
    \* History:
    writers,   \* the last save or migration that has begun; 1 came before this workbench
    saved,     \* the writer of the last save that was answered with ok
    floor,     \* floor[t]: what saved was when t's request came
    raced,     \* whether a save began beside a migration, or before its end
    crashes    \* how often the workbench crashed

disk    == <<system, backup, profile, config, sidecar>>
threads == <<pc, op, new, owned, todo, read, floor>>
vars == <<disk, lock, cache, threads, writers, saved, raced, crashes>>

Absent == 0                              \* writers are counted from 1
Writers == 0..MaxWriters
Documents == [writer : Writers, declares : SUBSET Configs]
NoProfile == [writer |-> Absent, declares |-> {}]
Files == Configs \cup {"profile", "sidecar"}
Entries == [stamp : [Files -> Writers], content : [Files -> Writers], declares : SUBSET Configs]
Blank == [stamp |-> [f \in Files |-> Absent], content |-> [f \in Files |-> Absent], declares |-> {}]

\* The content of file f on disk.
OnDisk(f) ==
    IF f = "profile" THEN profile.writer ELSE IF f = "sidecar" THEN sidecar ELSE config[f]

Writing == {"own", "configs", "list", "prune", "sidecar"}
Retiring == {"backup", "copy", "retire"}
Reading == {"look", "check", "stat", "profile", "sidecar of it", "configs of it", "config", "return"}

TypeOK ==
    /\ system \in BOOLEAN
    /\ backup \in {"none", "partial", "whole"}
    /\ profile \in Documents
    /\ config \in [Configs -> Writers]
    /\ sidecar \in Writers
    /\ lock \in Threads \cup {None}
    /\ cache \in Entries \cup {None}
    /\ read \in [Threads -> Entries]
    /\ pc \in [Threads -> {"idle", "wait", "parse"} \cup Writing \cup Retiring \cup Reading]
    /\ op \in [Threads -> {"get", "list", "save", None}]
    /\ new \in [Threads -> Documents]
    /\ owned \in [Threads -> SUBSET Configs]
    /\ todo \in [Threads -> SUBSET Files]
    /\ writers \in Writers /\ saved \in Writers
    /\ floor \in [Threads -> Writers]
    /\ raced \in BOOLEAN
    /\ crashes \in 0..MaxCrashes

\* A legacy project that no request has seen yet: writer 1 wrote system.json.
LegacyProject ==
    /\ system = TRUE
    /\ profile = NoProfile
    /\ config = [c \in Configs |-> Absent]
    /\ sidecar = Absent

\* A project that an earlier workbench wrote, which may have died before it retired
\* what the project no longer declares.
AuthoredProject ==
    /\ system = FALSE
    /\ profile \in [writer : {1}, declares : {d \in SUBSET Configs : Manual \in d}]
    /\ config \in [Configs -> {Absent, 1}]
    /\ \A c \in profile.declares : config[c] = 1
    /\ sidecar = 1

Init ==
    /\ LegacyProject \/ AuthoredProject
    /\ writers = 1
    /\ backup = IF system THEN "none" ELSE "whole"
    /\ lock = None
    /\ cache = None
    /\ pc = [t \in Threads |-> "idle"]
    /\ op = [t \in Threads |-> None]
    /\ new = [t \in Threads |-> NoProfile]
    /\ owned = [t \in Threads |-> {}]
    /\ todo = [t \in Threads |-> {}]
    /\ read = [t \in Threads |-> Blank]
    /\ saved = 0
    /\ floor = [t \in Threads |-> 0]
    /\ raced = FALSE
    /\ crashes = 0

Goto(t, label) == pc' = [pc EXCEPT ![t] = label]

\* The request ends, with an answer or an error: its thread is gone, and with it
\* its hold on the lock.
Answer(t) ==
    /\ Goto(t, "idle")
    /\ op' = [op EXCEPT ![t] = None]
    /\ new' = [new EXCEPT ![t] = NoProfile]
    /\ owned' = [owned EXCEPT ![t] = {}]
    /\ todo' = [todo EXCEPT ![t] = {}]
    /\ read' = [read EXCEPT ![t] = Blank]
    /\ floor' = [floor EXCEPT ![t] = 0]
    /\ lock' = IF lock = t THEN None ELSE lock

\* t moves on; of its own variables only todo changes.
Step(t, label, rest) ==
    /\ Goto(t, label)
    /\ todo' = [todo EXCEPT ![t] = rest]
    /\ UNCHANGED <<lock, op, new, owned, read, floor, writers, saved, raced, crashes>>

-----------------------------------------------------------------------------
(* The requests: list_projects, get_project, save_project.                 *)

\* A list or get migrates first if system.json is there (_dir_format).
Ask(t, o) ==
    /\ pc[t] = "idle"
    /\ op' = [op EXCEPT ![t] = o]
    /\ floor' = [floor EXCEPT ![t] = IF o = "get" THEN saved ELSE 0]
    /\ Goto(t, IF o = "save" THEN "wait" ELSE IF system THEN "parse" ELSE "look")
    /\ o = "list" => system
    /\ o = "get" => Cardinality({u \in Threads : op[u] = "get"}) < MaxGets
    /\ UNCHANGED <<disk, lock, cache, new, owned, todo, read, writers, saved, raced, crashes>>

\* t begins to write a document that declares d.
Compose(t, d) ==
    /\ writers < MaxWriters
    /\ writers' = writers + 1
    /\ new' = [new EXCEPT ![t] = [writer |-> writers + 1, declares |-> d]]
    /\ Goto(t, "own")
    /\ UNCHANGED <<disk, cache, op, owned, todo, read, floor, saved, crashes>>

\* A migration of this project is under way in t.
Migrates(t) == op[t] # "save" /\ pc[t] \in {"parse"} \cup Writing \cup Retiring

\* _serialized. The project is authored, and the document passed validation, so it
\* declares the manual variant and has a config for all it declares.
BeginSave(t) ==
    /\ pc[t] = "wait"
    /\ lock = None
    /\ lock' = t
    /\ sidecar # Absent
    /\ \E d \in SUBSET Configs : Manual \in d /\ Compose(t, d)
    /\ raced' = (raced \/ system \/ \E u \in Threads : Migrates(u))

\* The project is not authored: it has no sidecar, or the document is invalid.
RefuseSave(t) ==
    /\ pc[t] = "wait"
    /\ lock = None
    /\ Answer(t)
    /\ UNCHANGED <<disk, cache, writers, saved, raced, crashes>>

-----------------------------------------------------------------------------
(* migrate_project_dir: what is written is write_project's.                *)

\* Mutant: system.json is renamed first.
ParseRenames(t) ==
    /\ pc[t] = "parse"
    /\ system
    /\ system' = FALSE
    /\ writers < MaxWriters
    /\ writers' = writers + 1
    /\ new' = [new EXCEPT ![t] = [writer |-> writers + 1, declares |-> Configs]]
    /\ Goto(t, "own")
    /\ UNCHANGED <<backup, profile, config, sidecar, lock, cache, op, owned, todo, read, floor, saved, raced, crashes>>

\* system.json is read. It can be gone since it was seen: another thread was first.
Parse(t) ==
    /\ pc[t] = "parse"
    /\ system
    /\ Compose(t, Configs)
    /\ UNCHANGED <<lock, raced>>

\* read_text found nothing, or another step failed: the project is reported as a
\* legacy one that could not be migrated.
ParseFails(t) ==
    /\ pc[t] = "parse"
    /\ Answer(t)
    /\ UNCHANGED <<disk, cache, writers, saved, raced, crashes>>

\* After the sidecar. A backup that is there is kept, whatever it holds.
OpenBackup(t) ==
    /\ pc[t] = "backup"
    /\ IF backup = "none"
       THEN backup' = "partial" /\ Step(t, "copy", {})
       ELSE UNCHANGED backup /\ Step(t, "retire", {})
    /\ UNCHANGED <<system, profile, config, sidecar, cache>>

WriteBackup(t) ==
    /\ pc[t] = "copy"
    /\ backup' = "whole"
    /\ Step(t, "retire", {})
    /\ UNCHANGED <<system, profile, config, sidecar, cache>>

\* The legacy files that system.json rendered go too; no reader looks at them.
RetireSystem(t) ==
    /\ pc[t] = "retire"
    /\ system
    /\ system' = FALSE
    /\ Step(t, "look", {})
    /\ UNCHANGED <<backup, profile, config, sidecar, cache>>

-----------------------------------------------------------------------------
(* write_project, and the sidecar that save and migration write after it.  *)

ReadOwned(t) ==
    /\ pc[t] = "own"
    /\ owned' = [owned EXCEPT ![t] = profile.declares]
    /\ todo' = [todo EXCEPT ![t] = new[t].declares]
    /\ Goto(t, "configs")
    /\ UNCHANGED <<disk, lock, cache, op, new, read, floor, writers, saved, raced, crashes>>

WriteConfig(t, c) ==
    /\ pc[t] = "configs"
    /\ c \in todo[t]
    /\ config' = [config EXCEPT ![c] = new[t].writer]
    /\ Step(t, "configs", todo[t] \ {c})
    /\ UNCHANGED <<system, backup, profile, sidecar, cache>>

\* Mutant: the profile is written while configs are still to come.
WriteProfileEarly(t) ==
    /\ pc[t] = "configs"
    /\ profile' = new[t]
    /\ Step(t, IF todo[t] = {} THEN "list" ELSE "configs", todo[t])
    /\ UNCHANGED <<system, backup, config, sidecar, cache>>

\* The profile comes after all it declares.
WriteProfile(t) ==
    /\ pc[t] = "configs"
    /\ todo[t] = {}
    /\ profile' = new[t]
    /\ Step(t, "list", {})
    /\ UNCHANGED <<system, backup, config, sidecar, cache>>

\* Mutant: only what the profile before this save declared is retired.
ListOwned(t) ==
    /\ pc[t] = "list"
    /\ LET orphans == owned[t] \ new[t].declares
       IN  Step(t, IF orphans = {} THEN "sidecar" ELSE "prune", orphans)
    /\ UNCHANGED <<disk, cache>>

\* What install.sh would find in config/, and what the profile on disk declared,
\* but for what this document declares.
ListOrphans(t) ==
    /\ pc[t] = "list"
    /\ LET orphans == (owned[t] \cup {c \in Configs : config[c] # Absent}) \ new[t].declares
       IN  Step(t, IF orphans = {} THEN "sidecar" ELSE "prune", orphans)
    /\ UNCHANGED <<disk, cache>>

\* Moved to .workbench/retired, or already gone.
Retire(t, c) ==
    /\ pc[t] = "prune"
    /\ c \in todo[t]
    /\ config' = [config EXCEPT ![c] = Absent]
    /\ Step(t, IF todo[t] = {c} THEN "sidecar" ELSE "prune", todo[t] \ {c})
    /\ UNCHANGED <<system, backup, profile, sidecar, cache>>

\* A save ends here; a migration goes on to retire system.json.
WriteSidecar(t) ==
    /\ pc[t] = "sidecar"
    /\ sidecar' = new[t].writer
    /\ IF op[t] = "save"
       THEN /\ Answer(t)
            /\ saved' = new[t].writer
            /\ UNCHANGED <<writers, raced, crashes>>
       ELSE Step(t, "backup", {})
    /\ UNCHANGED <<system, backup, profile, config, cache>>

\* A file cannot be written, moved or removed: what was done stays done.
WriteFails(t) ==
    /\ pc[t] \in Writing \cup Retiring
    /\ Answer(t)
    /\ UNCHANGED <<disk, cache, writers, saved, raced, crashes>>

-----------------------------------------------------------------------------
(* read_project.                                                           *)

\* A step of a read: t goes on with the files in rest, having read r.
ReadStep(t, label, rest, r) ==
    /\ Goto(t, label)
    /\ todo' = [todo EXCEPT ![t] = rest]
    /\ read' = [read EXCEPT ![t] = r]
    /\ UNCHANGED <<disk, lock, op, new, floor, writers, saved, raced, crashes>>

Stamp(t, f) == [read[t] EXCEPT !.stamp[f] = OnDisk(f)]
Load(t, f) == [read[t] EXCEPT !.content[f] = OnDisk(f)]
Afresh(t) == ReadStep(t, "stat", {"profile", "sidecar"}, Blank)
\* The files of a list of stamps are taken in its order: profile, sidecar, configs.
First(t, f) ==
    /\ f \in todo[t]
    /\ f # "profile" => "profile" \notin todo[t]
    /\ f \in Configs => "sidecar" \notin todo[t]

\* A list is answered from the sidecar; a get looks into the cache.
Look(t) ==
    /\ pc[t] = "look"
    /\ \/ op[t] = "list" /\ Answer(t) /\ UNCHANGED <<disk, writers, saved, raced, crashes>>
       \/ op[t] = "get" /\ cache = None /\ Afresh(t) /\ UNCHANGED owned
       \/ /\ op[t] = "get" /\ cache # None
          /\ ReadStep(t, "check", {"profile", "sidecar"} \cup cache.declares, cache)
          /\ UNCHANGED owned
    /\ UNCHANGED cache

\* Mutant: the profile's stamp alone decides.
CheckProfile(t, f) ==
    /\ pc[t] = "check"
    /\ f = "profile"
    /\ IF OnDisk(f) = read[t].stamp[f] THEN ReadStep(t, "return", {}, read[t]) ELSE Afresh(t)
    /\ UNCHANGED <<cache, owned>>

\* One stamp of the cached document is compared; the first that differs has
\* everything read again.
Check(t, f) ==
    /\ pc[t] = "check"
    /\ First(t, f)
    /\ IF OnDisk(f) = read[t].stamp[f]
       THEN ReadStep(t, IF todo[t] = {f} THEN "return" ELSE "check", todo[t] \ {f}, read[t])
       ELSE Afresh(t)
    /\ UNCHANGED <<cache, owned>>

\* The profile and the sidecar are both stamped before either is read.
Stat(t, f) ==
    /\ pc[t] = "stat"
    /\ First(t, f)
    /\ ReadStep(t, IF todo[t] = {f} THEN "profile" ELSE "stat", todo[t] \ {f}, Stamp(t, f))
    /\ UNCHANGED <<cache, owned>>

ReadProfile(t) ==
    /\ pc[t] = "profile"
    /\ profile # NoProfile
    /\ ReadStep(t, "sidecar of it", profile.declares,
                [Load(t, "profile") EXCEPT !.declares = profile.declares])
    /\ UNCHANGED <<cache, owned>>

ReadSidecar(t) ==
    /\ pc[t] = "sidecar of it"
    /\ ReadStep(t, "configs of it", todo[t], Load(t, "sidecar"))
    /\ UNCHANGED <<cache, owned>>

\* consult: the stamp is taken before the file is read.
StampConfig(t, c) ==
    /\ pc[t] = "configs of it"
    /\ c \in todo[t]
    /\ owned' = [owned EXCEPT ![t] = {c}]
    /\ ReadStep(t, "config", todo[t] \ {c}, Stamp(t, c))
    /\ UNCHANGED cache

\* Mutant: the stamp is taken after the file was read.
StampLate(t, c) ==
    /\ pc[t] = "config"
    /\ c \in owned[t]
    /\ owned' = [owned EXCEPT ![t] = {}]
    /\ ReadStep(t, "configs of it", todo[t], [Stamp(t, c) EXCEPT !.content[c] = read[t].stamp[c]])
    /\ UNCHANGED cache

\* Mutant: a config that is not there is read as None.
ReadConfigNone(t, c) ==
    /\ pc[t] = "config"
    /\ c \in owned[t]
    /\ owned' = [owned EXCEPT ![t] = {}]
    /\ ReadStep(t, "configs of it", todo[t],
                [read[t] EXCEPT !.content[c] = IF config[c] = Absent THEN None ELSE config[c]])
    /\ UNCHANGED cache

\* A config that is not there is left out of the document.
ReadConfig(t, c) ==
    /\ pc[t] = "config"
    /\ c \in owned[t]
    /\ owned' = [owned EXCEPT ![t] = {}]
    /\ ReadStep(t, "configs of it", todo[t], Load(t, c))
    /\ UNCHANGED cache

StoreInCache(t) ==
    /\ pc[t] = "configs of it"
    /\ todo[t] = {}
    /\ cache' = read[t]
    /\ ReadStep(t, "return", {}, read[t])
    /\ UNCHANGED owned

Return(t) ==
    /\ pc[t] = "return"
    /\ Answer(t)
    /\ UNCHANGED <<disk, cache, writers, saved, raced, crashes>>

\* No profile, or a file that went away or cannot be read: the request is answered
\* with a degraded document, and nothing is cached.
ReadFails(t) ==
    /\ pc[t] \in {"profile", "config"}
    /\ Answer(t)
    /\ UNCHANGED <<disk, cache, writers, saved, raced, crashes>>

-----------------------------------------------------------------------------

\* The workbench dies and is started again: what is on disk is all there is.
Crash ==
    /\ crashes < MaxCrashes
    /\ crashes' = crashes + 1
    /\ lock' = None
    /\ cache' = None
    /\ pc' = [t \in Threads |-> "idle"]
    /\ op' = [t \in Threads |-> None]
    /\ new' = [t \in Threads |-> NoProfile]
    /\ owned' = [t \in Threads |-> {}]
    /\ todo' = [t \in Threads |-> {}]
    /\ read' = [t \in Threads |-> Blank]
    /\ floor' = [t \in Threads |-> 0]
    /\ UNCHANGED <<disk, writers, saved, raced>>

WriteProject(t) ==
    \/ ReadOwned(t) \/ WriteProfile(t) \/ ListOrphans(t) \/ WriteSidecar(t)
    \/ \E c \in Configs : WriteConfig(t, c) \/ Retire(t, c)
    \/ WriteFails(t)

Migrate(t) == Parse(t) \/ ParseFails(t) \/ OpenBackup(t) \/ WriteBackup(t) \/ RetireSystem(t)

ReadProject(t) ==
    \/ Look(t) \/ ReadProfile(t) \/ ReadSidecar(t) \/ StoreInCache(t) \/ Return(t) \/ ReadFails(t)
    \/ \E f \in Files : Check(t, f) \/ Stat(t, f)
    \/ \E c \in Configs : StampConfig(t, c) \/ ReadConfig(t, c)

Next ==
    \/ \E t \in Threads : \/ \E o \in {"get", "list", "save"} : Ask(t, o)
                          \/ BeginSave(t) \/ RefuseSave(t)
                          \/ Migrate(t) \/ WriteProject(t) \/ ReadProject(t)
    \/ Crash

Spec == Init /\ [][Next]_vars

-----------------------------------------------------------------------------
(* Properties. Those that a migration beside a save can break say so: raced.  *)

\* The profile on disk names only configs that are there, at every moment, so a
\* crash or a failure anywhere leaves a project that can be deployed ("a save
\* interrupted half-way must leave it pointing only at files that exist").
DeclaredExist ==
    raced \/ \A c \in profile.declares : config[c] # Absent

\* A save that is about to be answered with ok has made the directory what it
\* saved, and nothing is left in config/ that install.sh would trip over, also
\* after earlier saves that failed or died half-way.
SaveExact ==
    \A t \in Threads : op[t] = "save" /\ pc[t] = "sidecar" /\ ~raced =>
        /\ profile = new[t]
        /\ \A c \in Configs : config[c] = IF c \in new[t].declares THEN new[t].writer ELSE Absent

\* A get that came after a save was answered shows nothing older, from the cache
\* or not, whoever writes meanwhile (a config can be missing: retired meanwhile).
ReadFresh ==
    \A t \in Threads : pc[t] = "return" /\ ~raced =>
        \A f \in {"profile", "sidecar"} \cup read[t].declares :
            read[t].content[f] >= floor[t] \/ (f \in Configs /\ read[t].content[f] = Absent)

\* What the cache would answer with now is what is on disk now.
CacheTrue ==
    cache # None /\ ~raced =>
        LET consulted == {"profile", "sidecar"} \cup cache.declares
        IN  (\A f \in consulted : cache.stamp[f] = OnDisk(f))
                => \A f \in consulted : cache.content[f] = OnDisk(f)

\* system.json, the sign that a migration is due, stays until all that replaces it
\* is written, whatever fails or dies on the way.
LegacyUntilDone ==
    ~system => profile # NoProfile /\ sidecar # Absent /\ backup # "none"

\* What a save wrote and was answered ok for is replaced by a later save only: a
\* migration that was interrupted "simply retries".
SavedStays ==
    [][\A t \in Threads : pc[t] = "configs" /\ pc'[t] = "list" /\ saved # 0 => op[t] = "save"]_vars
=============================================================================
