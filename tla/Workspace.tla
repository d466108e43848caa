------------------------------- MODULE Workspace -------------------------------
(***************************************************************************)
(* The project directories of a workspace and all that makes, moves or     *)
(* removes one: the server's requests (core/projects.py, one at a time     *)
(* under _WRITE_LOCK), its start (core/installed_project.py), its          *)
(* provision jobs (_prepare_workspace of server/routes/provision.py), and  *)
(* the provision commands of the shell (core/installer.py,                 *)
(* cli/provision_cli.py), which are processes of their own that the lock   *)
(* does not hold back. Threads of one fleet run are taken for processes.   *)
(*                                                                         *)
(* One action is one look at a directory, or one directory claimed,        *)
(* filled, recorded, marked, removed or moved. ProjectFiles has what a     *)
(* save, a read and a migration do inside a directory.                     *)
(***************************************************************************)
EXTENDS Naturals

CONSTANTS
    Names,       \* the projects' names
    Keys,        \* the names of directories under <prefix>/projects on a target
    Slug,        \* machine_id_from_name, not one to one
    Installed,   \* the profile install.sh put on this machine
    Alternative, \* the name it is imported under if the first one is taken
    Elsewhere,   \* None, or what onboarding finds in the directory it reads if it is another
    Ops,         \* the operations: bounds those of a run
    MaxEdits,    \* bounds the saves
    MaxCrashes,  \* bounds the kills
    None         \* Python's None

\* Requests of the server, its start and its jobs; and commands of the shell. The
\* provisioning ones end in _write_record; those of --system copy a user's directory.
Simple == {"create", "import", "duplicate", "rename", "delete"}
Jobs == {"job", "job force"}
Commands == {"cli", "cli force", "system", "system force"}
Kinds == Simple \cup {"sync"} \cup Jobs \cup Commands
Provisions == Jobs \cup Commands
Forced == {"job force", "cli force", "system force"}
System == {"system", "system force"}

Edits == 0..MaxEdits
Stale == MaxEdits + 1    \* a record no content of its project agrees with

Projects ==
    [whole : BOOLEAN,      \* all of it is there
     key : Keys,           \* the directory it deploys into
     authored : BOOLEAN,   \* the sidecar's authored, created_by and installed_from
     seeded : BOOLEAN, synced : BOOLEAN,
     edit : Edits,         \* the save the files are of that a record covers (all but the
                           \* sidecar's meta and host_paths), 0 if they are as provisioned
     record : Edits \cup {Stale, None},   \* the content .provisioned.json stands for
     \* History: whether it is the user's own; whether its key was found free, no
     \* other process making one; whether it was made, renamed or saved while
     \* another operation was on its name, or an operation on it was killed.
     own : BOOLEAN, checked : BOOLEAN, exposed : BOOLEAN]

Operations == [kind : Kinds, name : Names, from : Names]
Sights == [record : Edits \cup {Stale, None}, edit : Edits]

ASSUME WorkspaceAssumption ==
    /\ Slug \in [Names -> Keys]
    /\ Installed \in Names /\ Alternative \in Names
    /\ MaxEdits \in Nat /\ MaxCrashes \in Nat
    /\ Elsewhere \in BOOLEAN \cup {None}
    /\ None \notin BOOLEAN \cup Names \cup Keys \cup Ops \cup Nat
    /\ None \notin Projects \cup Operations \cup Sights

VARIABLES
    dir,      \* dir[n]: the project in directory n, or None
    tab,      \* the document a browser tab holds, or None
    edits,    \* how many saves there were
    lock,     \* the operation of the server that holds _WRITE_LOCK, or None
    op,       \* op[p]: what operation p is, and on what
    pc,       \* pc[p]: where it is
    made,     \* made[p]: the project it is to fill its directory with
    saw,      \* saw[p]: what a re-provision read: the record and the content
    staged,   \* staged[p]: whether its staging directory .reprovision-* is there
    crashes   \* how many processes were killed

ops == <<lock, op, pc, made, saw, staged, crashes>>
vars == <<dir, tab, edits, ops>>

TypeOK ==
    /\ dir \in [Names -> Projects \cup {None}]
    /\ tab \in [name : Names, key : Keys, edit : Edits] \cup {None}
    /\ edits \in Edits
    /\ lock \in Ops \cup {None}
    /\ op \in [Ops -> Operations \cup {None}]
    /\ pc \in [Ops -> {"idle", "look", "wipe", "choose", "check", "claim", "fill", "record", "stamp",
                       "compare", "stage", "resync", "remove", "move", "ended", "killed"}]
    /\ made \in [Ops -> Projects \cup {None}]
    /\ saw \in [Ops -> Sights \cup {None}]
    /\ staged \in [Ops -> BOOLEAN]
    /\ crashes \in 0..MaxCrashes

Init ==
    /\ dir = [n \in Names |-> None]
    /\ tab = None
    /\ edits = 0
    /\ lock = None
    /\ op = [p \in Ops |-> None]
    /\ pc = [p \in Ops |-> "idle"]
    /\ made = [p \in Ops |-> None]
    /\ saw = [p \in Ops |-> None]
    /\ staged = [p \in Ops |-> FALSE]
    /\ crashes = 0

Whole == {n \in Names : dir[n] # None /\ dir[n].whole}
Is(p, kinds) == op[p] # None /\ op[p].kind \in kinds
Active(p) == pc[p] \notin {"idle", "ended", "killed"}
Busy(n, p) == \E q \in Ops \ {p} : Active(q) /\ n \in {op[q].name, op[q].from}
Goto(p, label) == pc' = [pc EXCEPT ![p] = label]

\* The end of p, with or without an error; it leaves the lock and its staging.
End(p) ==
    /\ Goto(p, "ended")
    /\ op' = [op EXCEPT ![p] = None]
    /\ lock' = IF lock = p THEN None ELSE lock
    /\ staged' = [staged EXCEPT ![p] = FALSE]
    /\ made' = [made EXCEPT ![p] = None]
    /\ saw' = [saw EXCEPT ![p] = None]
    /\ UNCHANGED crashes

\* p goes on at label, and the rest of its state is as before.
Continue(p, label) == Goto(p, label) /\ UNCHANGED <<lock, op, made, saw, staged, crashes>>

-----------------------------------------------------------------------------
(* Requests.                                                               *)

\* m is the source of a duplicate or rename. The server imports the installed
\* project as it starts, before it takes requests.
Ask(p, k, n, m) ==
    /\ pc[p] = "idle"
    /\ k \in {"duplicate", "rename"} <=> m # n
    /\ k = "sync" => n = Installed /\ \A q \in Ops : Active(q) => Is(q, Commands)
    /\ k \notin Commands => \A q \in Ops : Active(q) => ~Is(q, {"sync"})
    /\ op' = [op EXCEPT ![p] = [kind |-> k, name |-> n, from |-> m]]
    /\ Goto(p, IF k \in Provisions THEN "look" ELSE IF k = "sync" THEN "choose" ELSE "check")
    /\ UNCHANGED <<dir, tab, edits, lock, made, saw, staged, crashes>>

\* _prepare_workspace, _provision_workspace and provision_project: a project that is
\* there is used as it is, replaced if forced to, or re-provisioned.
Look(p) ==
    LET n == op[p].name
        next == IF Is(p, System) THEN "claim" ELSE "check"
    IN  /\ pc[p] = "look"
        /\ \/ dir[n] = None /\ Continue(p, next)
           \/ dir[n] # None /\ Is(p, Forced) /\ Continue(p, "wipe")
           \/ dir[n] # None /\ Is(p, {"system"}) /\ Continue(p, "compare")
           \/ dir[n] # None /\ Is(p, {"job", "cli"}) /\ End(p)
        /\ UNCHANGED <<dir, tab, edits>>

\* --force removes what is there before the source is looked at.
Wipe(p) ==
    /\ pc[p] = "wipe"
    /\ dir' = [dir EXCEPT ![op[p].name] = None]
    /\ Continue(p, IF Is(p, System) THEN "claim" ELSE "check")
    /\ UNCHANGED <<tab, edits>>

\* _project_name: the first name that is free or an earlier import's.
Choose(p) ==
    LET Usable(n) == dir[n] # None => dir[n].synced
        at(n) == op' = [op EXCEPT ![p].name = n] /\ Goto(p, "resync")
    IN  /\ pc[p] = "choose"
        /\ \/ Usable(Installed) /\ at(Installed) /\ UNCHANGED <<lock, made, saw, staged, crashes>>
           \/ /\ ~Usable(Installed) /\ Usable(Alternative)
              /\ at(Alternative) /\ UNCHANGED <<lock, made, saw, staged, crashes>>
           \/ ~Usable(Installed) /\ ~Usable(Alternative) /\ End(p)
        /\ UNCHANGED <<dir, tab, edits>>

-----------------------------------------------------------------------------
(* Making a directory.                                                     *)

\* Mutant: the directory a project deploys into is taken to follow from its name.
KeyFreeByName(k, n) == \A m \in Whole \ {n} : Slug[m] # k

\* deploy_dirs_in_use: a directory whose profile cannot be read uses none.
KeyFree(k, n) == \A m \in Whole \ {n} : dir[m].key # k

\* What p fills its directory with, deploying into k.
Project(p, k) ==
    [whole |-> TRUE, key |-> k,
     authored |-> ~Is(p, {"import", "sync"}),
     seeded |-> FALSE, synced |-> Is(p, {"sync"}),
     edit |-> 0, record |-> None,
     own |-> ~Is(p, Jobs),
     checked |-> \A q \in Ops \ {p} : pc[q] \notin {"claim", "fill"},
     exposed |-> FALSE]

\* Mutant: the copy keeps created_by too.
CopySeeded(p, d) ==
    IF d.authored
    THEN [Project(p, Slug[op[p].name]) EXCEPT !.synced = d.synced, !.edit = d.edit, !.seeded = d.seeded,
                                             !.record = IF d.record = None THEN None ELSE Stale]
    ELSE [d EXCEPT !.own = TRUE, !.exposed = FALSE]

\* A copy keeps all but created_by. One that is authored is re-keyed, so its files no
\* longer agree with the record it has copied along.
Copy(p, d) ==
    IF d.authored
    THEN [Project(p, Slug[op[p].name]) EXCEPT !.synced = d.synced, !.edit = d.edit,
                                             !.record = IF d.record = None THEN None ELSE Stale]
    ELSE [d EXCEPT !.seeded = FALSE, !.own = TRUE, !.exposed = FALSE]

\* create_project_from_template, import_project and duplicate_project, under the
\* lock: the name must be free, and for an authored project the deploy directory.
Check(p) ==
    LET n == op[p].name
        source == dir[op[p].from]
        authored == \/ Is(p, {"create"} \cup Provisions)
                    \/ Is(p, {"duplicate"}) /\ source.authored
        Start(d) == /\ made' = [made EXCEPT ![p] = d]
                    /\ lock' = IF Is(p, Commands) THEN lock ELSE p
                    /\ Goto(p, "claim")
                    /\ UNCHANGED <<op, saw, staged, crashes>>
    IN  /\ pc[p] = "check" /\ ~Is(p, {"rename", "delete"})
        /\ Is(p, Commands) \/ lock = None
        /\ dir[n] = None
        /\ Is(p, {"duplicate"}) => source # None /\ source.whole
        /\ authored => KeyFree(Slug[n], n)
        /\ CASE Is(p, {"duplicate"}) -> Start(Copy(p, source))
             [] Is(p, {"import"}) -> \E k \in Keys : Start([Project(p, k) EXCEPT !.checked = FALSE])
             [] OTHER -> Start(Project(p, Slug[n]))
        /\ UNCHANGED <<dir, tab, edits>>

\* The name or the deploy directory is taken, or the source is not usable.
Refuse(p) ==
    /\ pc[p] \in {"check", "stage"}
    /\ Is(p, Commands) \/ lock = None
    /\ End(p)
    /\ UNCHANGED <<dir, tab, edits>>

\* mkdir, which fails if another process was first. A --system project is made
\* without the check of its deploy directory.
Claim(p) ==
    LET n == op[p].name
        d == IF Is(p, System) THEN [Project(p, Slug[n]) EXCEPT !.checked = FALSE] ELSE made[p]
    IN  /\ pc[p] = "claim"
        /\ IF dir[n] # None
           THEN End(p) /\ UNCHANGED dir
           ELSE /\ dir' = [dir EXCEPT ![n] = [d EXCEPT !.whole = FALSE, !.exposed = Busy(n, p)]]
                /\ made' = [made EXCEPT ![p] = d]
                /\ Goto(p, "fill")
                /\ UNCHANGED <<lock, op, saw, staged, crashes>>
        /\ UNCHANGED <<tab, edits>>

\* The files are copied and re-keyed, the sidecar is written last.
Fill(p) ==
    LET n == op[p].name
    IN  /\ pc[p] = "fill"
        /\ dir[n] # None
        /\ dir' = [dir EXCEPT ![n] = [made[p] EXCEPT !.exposed = Busy(n, p) \/ dir[n].exposed]]
        /\ IF Is(p, Provisions)
           THEN /\ Goto(p, "record")
                /\ lock' = IF lock = p THEN None ELSE lock
                /\ made' = [made EXCEPT ![p] = None]
                /\ UNCHANGED <<op, saw, staged, crashes>>
           ELSE End(p)
        /\ UNCHANGED <<tab, edits>>

\* A failure takes the directory away again, except where the copy of a --system
\* project or of a duplicate fails, which is outside any cleanup.
FillFails(p) ==
    /\ pc[p] = "fill"
    /\ dir' = IF Is(p, System \cup {"duplicate"}) THEN dir ELSE [dir EXCEPT ![op[p].name] = None]
    /\ End(p)
    /\ UNCHANGED <<tab, edits>>

\* _write_record: the content as it now is.
Record(p) ==
    LET n == op[p].name
    IN  /\ pc[p] = "record"
        /\ IF dir[n] = None
           THEN End(p) /\ UNCHANGED dir
           ELSE /\ dir' = [dir EXCEPT ![n].record = dir[n].edit]
                /\ IF Is(p, Jobs) THEN Continue(p, "stamp") ELSE End(p)
        /\ UNCHANGED <<tab, edits>>

\* A job marks the project as onboarding's.
Stamp(p) ==
    LET n == op[p].name
    IN  /\ pc[p] = "stamp"
        /\ dir' = IF dir[n] = None THEN dir ELSE [dir EXCEPT ![n].seeded = TRUE]
        /\ End(p)
        /\ UNCHANGED <<tab, edits>>

-----------------------------------------------------------------------------
(* Changing, moving and removing one.                                      *)

\* A tab reads a project; what it holds may be stale when it saves.
Open(n) ==
    /\ dir[n] # None /\ dir[n].whole /\ dir[n].authored
    /\ tab' = [name |-> n, key |-> dir[n].key, edit |-> dir[n].edit]
    /\ UNCHANGED <<dir, edits, ops>>

\* save_project: the project is from now on the user's. It is made if it is not there.
\* The files may come out as no others, or as they were opened, or are: then only host
\* paths were changed, if anything.
Save ==
    LET n == tab.name
        new == IF dir[n] # None THEN dir[n]
               ELSE [whole |-> TRUE, key |-> tab.key, authored |-> TRUE, seeded |-> FALSE,
                     synced |-> FALSE, edit |-> tab.edit, record |-> None,
                     own |-> TRUE, checked |-> FALSE, exposed |-> FALSE]
    IN  /\ tab # None /\ edits < MaxEdits /\ lock = None
        /\ new.whole /\ new.authored
        /\ edits' = edits + 1
        /\ \E e \in Edits :
              /\ e \in {edits + 1, tab.edit} \/ (e = new.edit /\ tab.key = new.key)
              /\ dir' = [dir EXCEPT ![n] =
                           [new EXCEPT !.key = tab.key, !.seeded = FALSE, !.edit = e, !.own = TRUE,
                                       !.checked = new.checked /\ tab.key = new.key,
                                       !.exposed = new.exposed \/ Busy(n, None)]]
        /\ UNCHANGED <<tab, ops>>

\* The key, and created_by, go with it.
Rename(p) ==
    LET n == op[p].name
        m == op[p].from
    IN  /\ pc[p] = "check" /\ Is(p, {"rename"}) /\ lock = None
        /\ dir[m] # None /\ dir[n] = None
        /\ dir' = [dir EXCEPT ![n] = [dir[m] EXCEPT !.exposed = @ \/ Busy(n, p) \/ Busy(m, p)],
                              ![m] = None]
        /\ End(p)
        /\ UNCHANGED <<tab, edits>>

Delete(p) ==
    /\ pc[p] = "check" /\ Is(p, {"delete"}) /\ lock = None
    /\ dir[op[p].name] # None
    /\ dir' = [dir EXCEPT ![op[p].name] = None]
    /\ End(p)
    /\ UNCHANGED <<tab, edits>>

\* sync_installed_project, under the lock: only an earlier import is replaced.
Resync(p) ==
    LET n == op[p].name
    IN  /\ pc[p] = "resync" /\ lock = None
        /\ IF dir[n] # None /\ ~dir[n].synced
           THEN End(p)
           ELSE /\ lock' = p
                /\ \E k \in Keys : made' = [made EXCEPT ![p] = [Project(p, k) EXCEPT !.checked = FALSE]]
                /\ Goto(p, IF dir[n] = None THEN "claim" ELSE "remove")
                /\ UNCHANGED <<op, saw, staged, crashes>>
        /\ UNCHANGED <<dir, tab, edits>>

\* Mutant: the record is read and not compared.
CompareNothing(p) ==
    LET d == dir[op[p].name]
    IN  /\ pc[p] = "compare"
        /\ IF d = None
           THEN End(p)
           ELSE /\ saw' = [saw EXCEPT ![p] = [record |-> d.record, edit |-> d.edit]]
                /\ Goto(p, "stage")
                /\ UNCHANGED <<lock, op, made, staged, crashes>>
        /\ UNCHANGED <<dir, tab, edits>>

\* _reprovision: edits since the last provisioning are refused.
Compare(p) ==
    LET d == dir[op[p].name]
    IN  /\ pc[p] = "compare"
        /\ IF d = None \/ (d.record # None /\ d.record # d.edit)
           THEN End(p)
           ELSE /\ saw' = [saw EXCEPT ![p] = [record |-> d.record, edit |-> d.edit]]
                /\ Goto(p, "stage")
                /\ UNCHANGED <<lock, op, made, staged, crashes>>
        /\ UNCHANGED <<dir, tab, edits>>

\* The new project is provisioned in the staging directory. Without a record, it must
\* be what is there; Refuse is the source that is not usable.
Stage(p) ==
    /\ pc[p] = "stage"
    /\ IF saw[p].record = None /\ saw[p].edit # 0
       THEN End(p)
       ELSE /\ staged' = [staged EXCEPT ![p] = TRUE]
            /\ made' = [made EXCEPT ![p] = [Project(p, Slug[op[p].name]) EXCEPT !.checked = FALSE,
                                                                               !.record = 0]]
            /\ Goto(p, "remove")
            /\ UNCHANGED <<lock, op, saw, crashes>>
    /\ UNCHANGED <<dir, tab, edits>>

\* rmtree_within, of the project or of the earlier import.
Remove(p) ==
    LET n == op[p].name
    IN  /\ pc[p] = "remove"
        /\ IF dir[n] = None
           THEN End(p) /\ UNCHANGED dir
           ELSE /\ dir' = [dir EXCEPT ![n] = None]
                /\ Continue(p, IF Is(p, {"sync"}) THEN "claim" ELSE "move")
        /\ UNCHANGED <<tab, edits>>

\* The staged project moves into place; into a directory made there meanwhile, it
\* moves inside.
Move(p) ==
    LET n == op[p].name
    IN  /\ pc[p] = "move"
        /\ dir' = IF dir[n] = None THEN [dir EXCEPT ![n] = [made[p] EXCEPT !.exposed = Busy(n, p)]] ELSE dir
        /\ End(p)
        /\ UNCHANGED <<tab, edits>>

\* A command is killed, or the server with all it is doing.
Kill(P) ==
    /\ crashes < MaxCrashes
    /\ P # {}
    /\ crashes' = crashes + 1
    /\ pc' = [p \in Ops |-> IF p \in P THEN "killed" ELSE pc[p]]
    /\ dir' = [n \in Names |-> IF dir[n] # None /\ \E p \in P : n = op[p].name
                               THEN [dir[n] EXCEPT !.exposed = TRUE] ELSE dir[n]]
    /\ lock' = IF lock \in P THEN None ELSE lock
    /\ op' = [p \in Ops |-> IF p \in P THEN None ELSE op[p]]
    /\ UNCHANGED <<tab, edits, made, saw, staged>>

\* By the function p is in.
ProvisionProject(p) == Look(p) \/ Wipe(p) \/ Record(p) \/ Stamp(p)
Reprovision(p) == Compare(p) \/ Stage(p) \/ Remove(p) \/ Move(p)
Make(p) == Check(p) \/ Refuse(p) \/ Claim(p) \/ Fill(p) \/ FillFails(p)
Step(p) ==
    \/ ProvisionProject(p) \/ Reprovision(p) \/ Make(p)
    \/ Choose(p) \/ Resync(p) \/ Rename(p) \/ Delete(p)

Next ==
    \/ \E p \in {q \in Ops : pc[q] = "idle"}, k \in Kinds, n, m \in Names : Ask(p, k, n, m)
    \/ \E p \in Ops : Step(p)
    \/ \E n \in Names : Open(n)
    \/ Save
    \/ Kill({p \in Ops : Active(p) /\ ~Is(p, Commands)})
    \/ \E p \in Ops : Active(p) /\ Is(p, Commands) /\ Kill({p})

Spec == Init /\ [][Next]_vars

-----------------------------------------------------------------------------
(* Safety.                                                                 *)

\* A whole project disappears only if the user asks for it, or a re-provision has its
\* successor ready and no file that the record covers was edited, or the start replaces
\* what is marked as its import and cannot be edited: unless two operations on the name
\* overlapped. A save of host paths alone may so be lost, and a duplicate of the import.
UserWorkKept ==
    [][\A n \in Names :
          dir[n] # None /\ dir[n].whole /\ ~dir[n].exposed /\ dir'[n] = None =>
              \E p \in {q \in Ops : Active(q)} :
                  \/ Is(p, {"delete"} \cup Forced) /\ op[p].name = n
                  \/ Is(p, {"rename"}) /\ op[p].from = n
                  \/ Is(p, {"system"}) /\ op[p].name = n /\ staged[p] /\ dir[n].edit = 0
                  \/ Is(p, {"sync"}) /\ op[p].name = n /\ dir[n].synced /\ ~dir[n].authored]_vars

\* No two authored projects deploy into the same directory, whatever was renamed,
\* copied or deleted: but for those made without the check or beside each other.
KeysDistinct ==
    \A m, n \in Whole :
        /\ m # n
        /\ dir[m].authored /\ dir[m].checked /\ dir[n].authored /\ dir[n].checked
        => dir[m].key # dir[n].key

\* What _has_user_project answers: a staging directory counts as a project. It reads
\* ~/.anolis/systems, and ANOLIS_DATA_DIR may have all of this happen elsewhere.
HasUserProject ==
    IF Elsewhere # None THEN Elsewhere
    ELSE (\E p \in Ops : staged[p]) \/ \E n \in Names : dir[n] # None /\ ~dir[n].seeded

\* First run ends with the first project of the user's own and not before: at rest, where
\* the projects are in ~/.anolis/systems, if no operations overlapped and none was killed.
OnboardingTrue ==
    /\ Elsewhere = None
    /\ \A p \in Ops : ~Active(p) /\ pc[p] # "killed"
    /\ \A n \in Names : dir[n] # None => ~dir[n].exposed
    => (HasUserProject <=> \E n \in Names : dir[n] # None /\ dir[n].own)

\* The same without the exceptions: what the comment on first_run says.
OnboardingAlwaysTrue ==
    (\A p \in Ops : ~Active(p)) =>
        (HasUserProject <=> \E n \in Names : dir[n] # None /\ dir[n].own)
=============================================================================
