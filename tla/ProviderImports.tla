---------------------------- MODULE ProviderImports ----------------------------
(***************************************************************************)
(* The import of one provider kind at one version: its envelope file and   *)
(* the sidecar beside it (core/provider_import.py), which requests of the  *)
(* server and commands of the shell write, remove and list, with no lock   *)
(* between them; and the projects that pin it (core/projects.py,           *)
(* projects_pinning). Files of other kinds and versions are not touched.   *)
(*                                                                         *)
(* One action is one file read, published, written or unlinked. An         *)
(* operation can be killed between any two.                                *)
(***************************************************************************)
EXTENDS Naturals

CONSTANTS
    Ops,         \* the operations: bounds those of a run
    Contents,    \* the envelopes' bytes, told apart by their sha256
    Given,       \* the repos an import may say a deploy fetches the release from
    Default,     \* the one it is fetched from if none was given
    MaxCrashes,  \* bounds the operations that are killed
    Partial,     \* what an envelope reads as while it is written in place
    None         \* Python's None

Repos == Given \cup {Default}
Envelopes == [content : Contents \cup {Partial}, by : Ops]
Sidecars == [content : Contents, repo : Repos, origin : Ops]

ASSUME ImportsAssumption ==
    /\ MaxCrashes \in Nat
    /\ Partial \notin Contents
    /\ None \notin Ops \cup Contents \cup Repos \cup {Partial}
    /\ None \notin Envelopes \cup Sidecars

VARIABLES
    envelope,  \* <kind>@<version>.config-schema.json: its content and who made the file, or None
    sidecar,   \* <kind>@<version>.source.json: the sha256, repo and origin in it, or None
    pinned,    \* whether a project pins this version and uses the kind
    op,        \* op[p]: what p is asked for
    pc,        \* pc[p]: where it is
    repo,      \* repo[p]: the repo an import is to record
    read,      \* read[p]: the sidecar it has read
    answer,    \* answer[p]: what p told its caller, or None
    crashes,   \* how many operations were killed
    \* History:
    last,      \* the operation asked for last
    late,      \* late[p]: whether a project came to pin it after a removal had looked
    alone,     \* alone[p]: whether no other operation overlapped p
    mixed      \* mixed[p]: whether it began with an envelope beside another one's sidecar

files == <<envelope, sidecar>>
vars == <<files, pinned, op, pc, repo, read, answer, crashes, last, late, alone, mixed>>

Imports == [kind : {"import"}, content : Contents, repo : Given \cup {None}, force : BOOLEAN]
Removals == [kind : {"remove"}, content : {None}, repo : {None}, force : BOOLEAN]
Listings == [kind : {"list"}, content : {None}, repo : {None}, force : {FALSE}]
Done == {"imported", "unchanged"}    \* replaced, repo updated: imported
NoAnswer == [status |-> "none", content |-> None, repo |-> None, origin |-> None]

TypeOK ==
    /\ envelope \in Envelopes \cup {None}
    /\ sidecar \in Sidecars \cup {None}
    /\ pinned \in BOOLEAN
    /\ op \in [Ops -> Imports \cup Removals \cup Listings \cup {None}]
    /\ pc \in [Ops -> {"idle", "recorded", "target", "publish", "create", "write", "replace", "sidecar",
                       "pinning", "unlink", "unlink sidecar", "read", "show", "ended"}]
    /\ read \in [Ops -> Sidecars \cup {None}]
    /\ repo \in [Ops -> Repos \cup {None}]
    /\ answer \in [Ops -> [status : Done \cup {"none", "refused", "removed", "listed", "killed"},
                           content : Contents \cup {Partial, None}, repo : Repos \cup {None},
                           origin : Ops \cup {None}]]
    /\ crashes \in 0..MaxCrashes
    /\ last \in Ops \cup {None}
    /\ late \in [Ops -> BOOLEAN]
    /\ alone \in [Ops -> BOOLEAN]
    /\ mixed \in [Ops -> BOOLEAN]

Init ==
    /\ envelope = None /\ sidecar = None
    /\ pinned = FALSE
    /\ op = [p \in Ops |-> None]
    /\ pc = [p \in Ops |-> "idle"]
    /\ repo = [p \in Ops |-> None]
    /\ read = [p \in Ops |-> None]
    /\ answer = [p \in Ops |-> NoAnswer]
    /\ crashes = 0
    /\ last = None
    /\ late = [p \in Ops |-> FALSE]
    /\ alone = [p \in Ops |-> FALSE]
    /\ mixed = [p \in Ops |-> FALSE]

Active(p) == pc[p] \notin {"idle", "ended"}
Goto(p, label) == pc' = [pc EXCEPT ![p] = label]
history == <<crashes, last, late, alone, mixed>>
Others == UNCHANGED <<pinned, op, history>>

\* p ends with this status; an import names its content and the repo r.
Tell(p, status, r) ==
    /\ Goto(p, "ended")
    /\ answer' = [answer EXCEPT ![p] =
                    [status |-> status, content |-> op[p].content, repo |-> r, origin |-> None]]

Mismatched == envelope # None /\ sidecar # None /\ envelope.content # sidecar.content

Ask(p, o) ==
    /\ pc[p] = "idle"
    /\ op' = [op EXCEPT ![p] = o]
    /\ Goto(p, CASE o.kind = "import" -> "recorded"
                 [] o.kind = "remove" -> "pinning"
                 [] o.kind = "list" -> "read")
    /\ alone' = [q \in Ops |-> IF q = p THEN \A r \in Ops : ~Active(r)
                                       ELSE alone[q] /\ ~Active(q)]
    /\ mixed' = [mixed EXCEPT ![p] = Mismatched]
    /\ last' = p
    /\ UNCHANGED <<files, pinned, repo, read, answer, crashes, late>>

-----------------------------------------------------------------------------
(* import_bytes, of an envelope that passed check_envelope and is not      *)
(* packaged.                                                               *)

\* _recorded_repo: the sidecar is not compared with the envelope.
ReadRecorded(p) ==
    /\ pc[p] = "recorded"
    /\ read' = [read EXCEPT ![p] = sidecar]
    /\ Goto(p, "target")
    /\ UNCHANGED <<files, repo, answer>> /\ Others

\* The repo it is given, else the recorded one, else the default.
Recorded(p) == IF read[p] = None THEN None ELSE read[p].repo
Effective(p) ==
    CASE op[p].repo # None -> op[p].repo
      [] op[p].repo = None /\ Recorded(p) # None -> Recorded(p)
      [] OTHER -> Default

\* What is there decides what is done: with the same content, the repo at most is
\* updated; other content is refused or, if asked to, replaced.
CheckTarget(p) ==
    LET same == envelope.content = op[p].content
        next(label) == /\ Goto(p, label)
                       /\ repo' = [repo EXCEPT ![p] = Effective(p)]
                       /\ UNCHANGED answer
        told(status, r) == Tell(p, status, r) /\ UNCHANGED repo
    IN  /\ pc[p] = "target"
        /\ \/ envelope = None /\ next("publish")
           \/ envelope # None /\ same /\ Recorded(p) = Effective(p) /\ told("unchanged", Recorded(p))
           \/ envelope # None /\ same /\ Recorded(p) # Effective(p) /\ next("sidecar")
           \/ envelope # None /\ ~same /\ op[p].force /\ next("replace")
           \/ envelope # None /\ ~same /\ ~op[p].force /\ told("refused", None)
        /\ UNCHANGED <<files, read>> /\ Others

\* Something was published since the check.
Occupied(p) ==
    /\ IF envelope.content = op[p].content
       THEN Tell(p, "unchanged", repo[p])
       ELSE Tell(p, "refused", None)
    /\ UNCHANGED envelope

\* Mutant: the file is renamed into place, over one that is there by now.
PublishOver(p) ==
    /\ pc[p] = "publish"
    /\ envelope' = [content |-> op[p].content, by |-> p]
    /\ Goto(p, "sidecar")
    /\ UNCHANGED <<sidecar, repo, read, answer>> /\ Others

\* _publish_new: the hard link is made if no file is there. Where links cannot be
\* made, the file is created if it is not there, and written in place.
Publish(p) ==
    /\ pc[p] = "publish"
    /\ \/ /\ envelope = None
          /\ envelope' = [content |-> op[p].content, by |-> p]
          /\ Goto(p, "sidecar")
          /\ UNCHANGED answer
       \/ envelope # None /\ Occupied(p)
       \/ Goto(p, "create") /\ UNCHANGED <<envelope, answer>>
    /\ UNCHANGED <<sidecar, repo, read>> /\ Others

Create(p) ==
    /\ pc[p] = "create"
    /\ IF envelope # None
       THEN Occupied(p)
       ELSE /\ envelope' = [content |-> Partial, by |-> p]
            /\ Goto(p, "write")
            /\ UNCHANGED answer
    /\ UNCHANGED <<sidecar, repo, read>> /\ Others

\* It writes the file it created, which may be unlinked or replaced by now.
Write(p) ==
    /\ pc[p] = "write"
    /\ envelope' = IF envelope = [content |-> Partial, by |-> p]
                   THEN [content |-> op[p].content, by |-> p] ELSE envelope
    /\ Goto(p, "sidecar")
    /\ UNCHANGED <<sidecar, repo, read, answer>> /\ Others

Replace(p) ==
    /\ pc[p] = "replace"
    /\ envelope' = [content |-> op[p].content, by |-> p]
    /\ Goto(p, "sidecar")
    /\ UNCHANGED <<sidecar, repo, read, answer>> /\ Others

\* The sidecar goes last.
WriteSidecar(p) ==
    /\ pc[p] = "sidecar"
    /\ sidecar' = [content |-> op[p].content, repo |-> repo[p], origin |-> p]
    /\ Tell(p, "imported", repo[p])
    /\ UNCHANGED <<envelope, repo, read>> /\ Others

\* No space, no permission: refused, whatever was written before.
Fail(p) ==
    /\ pc[p] \in {"publish", "write", "replace", "sidecar", "unlink", "unlink sidecar"}
    /\ Tell(p, "refused", None)
    /\ UNCHANGED <<files, repo, read>> /\ Others

-----------------------------------------------------------------------------
(* remove_import, and the projects that pin the version.                   *)

\* A project is saved or deleted; a kind no envelope covers is refused in a save.
Pin(b) ==
    /\ pinned # b
    /\ b => envelope # None
    /\ pinned' = b
    /\ late' = [p \in Ops |-> late[p] \/ (b /\ pc[p] = "unlink")]
    /\ UNCHANGED <<files, op, pc, repo, read, answer, crashes, last, alone, mixed>>

\* It must be there, and not pinned unless the removal is forced.
CheckPinning(p) ==
    /\ pc[p] = "pinning"
    /\ IF envelope = None \/ (pinned /\ ~op[p].force)
       THEN Tell(p, "refused", None)
       ELSE Goto(p, "unlink") /\ UNCHANGED answer
    /\ UNCHANGED <<files, repo, read>> /\ Others

\* The envelope first. It may be gone by now.
Unlink(p) ==
    /\ pc[p] = "unlink"
    /\ envelope' = None
    /\ IF envelope = None
       THEN Tell(p, "refused", None)
       ELSE Goto(p, "unlink sidecar") /\ UNCHANGED answer
    /\ UNCHANGED <<sidecar, repo, read>> /\ Others

UnlinkSidecar(p) ==
    /\ pc[p] = "unlink sidecar"
    /\ sidecar' = None
    /\ Tell(p, "removed", None)
    /\ UNCHANGED <<envelope, repo, read>> /\ Others

-----------------------------------------------------------------------------
(* list_imports, and resolve_pins, which asks it for the repo.             *)

ReadListed(p) ==
    /\ pc[p] = "read"
    /\ read' = [read EXCEPT ![p] = sidecar]
    /\ Goto(p, "show")
    /\ UNCHANGED <<files, repo, answer>> /\ Others

\* Mutant: the sidecar is shown whatever it was written for.
ShowAny(p) ==
    /\ pc[p] = "show"
    /\ answer' = [answer EXCEPT ![p] =
                    [status |-> "listed",
                     content |-> IF envelope = None THEN None ELSE envelope.content,
                     repo |-> IF envelope # None /\ read[p] # None THEN read[p].repo ELSE None,
                     origin |-> IF envelope # None /\ read[p] # None THEN read[p].origin ELSE None]]
    /\ Goto(p, "ended")
    /\ UNCHANGED <<files, repo, read>> /\ Others

\* A sidecar written for other content than the envelope now has is left out.
Show(p) ==
    LET shown == read[p] # None /\ read[p].content = envelope.content
    IN  /\ pc[p] = "show"
        /\ answer' = [answer EXCEPT ![p] =
                        [status |-> "listed",
                         content |-> IF envelope = None THEN None ELSE envelope.content,
                         repo |-> IF envelope # None /\ shown THEN read[p].repo ELSE None,
                         origin |-> IF envelope # None /\ shown THEN read[p].origin ELSE None]]
        /\ Goto(p, "ended")
        /\ UNCHANGED <<files, repo, read>> /\ Others

-----------------------------------------------------------------------------
Kill(p) ==
    /\ Active(p)
    /\ crashes < MaxCrashes
    /\ crashes' = crashes + 1
    /\ Tell(p, "killed", None)
    /\ UNCHANGED <<files, pinned, op, repo, read, late, alone, mixed, last>>

\* By the function p is in.
ImportBytes(p) ==
    ReadRecorded(p) \/ CheckTarget(p) \/ Publish(p) \/ Create(p) \/ Write(p) \/ Replace(p) \/ WriteSidecar(p)
RemoveImport(p) == CheckPinning(p) \/ Unlink(p) \/ UnlinkSidecar(p)
ListImports(p) == ReadListed(p) \/ Show(p)
Step(p) == ImportBytes(p) \/ RemoveImport(p) \/ ListImports(p) \/ Fail(p)

Next ==
    \/ \E p \in Ops, o \in Imports \cup Removals \cup Listings : Ask(p, o)
    \/ \E p \in Ops : Step(p) \/ Kill(p)
    \/ \E b \in BOOLEAN : Pin(b)

Spec == Init /\ [][Next]_vars

-----------------------------------------------------------------------------
(* Safety.                                                                 *)

\* An import that is published is overwritten only by one that says --replace, and
\* removed only if no project pins it, or with --force, or if the pin came after the
\* removal had looked: whatever else is imported or removed meanwhile.
ImportKept ==
    [][envelope # None /\ envelope.content # Partial /\ envelope' # envelope =>
          \E p \in Ops :
              \/ pc[p] = "replace" /\ op[p].force /\ envelope' = [content |-> op[p].content, by |-> p]
              \/ pc[p] = "unlink" /\ envelope' = None /\ (pinned => op[p].force \/ late[p])]_vars

\* The origin a listing shows imported the very content it shows it for.
ListedTrue ==
    \A p \in Ops : answer[p].origin # None => op[answer[p].origin].content = answer[p].content

\* What an import tells is what is there afterwards: the content and the repo a
\* deploy will fetch from. Not if another operation overlapped it, or if it found an
\* envelope beside the sidecar of another content, as a killed --replace leaves them.
Told(p) ==
    /\ envelope # None /\ envelope.content = op[p].content
    /\ sidecar # None /\ sidecar.content = op[p].content /\ sidecar.repo = answer[p].repo

AnswerTrue ==
    \A p \in Ops : last = p /\ alone[p] /\ ~mixed[p] /\ answer[p].status \in Done => Told(p)

ToldTrue == ListedTrue /\ AnswerTrue

\* The same without the second exception.
AnswerAlwaysTrue == \A p \in Ops : last = p /\ alone[p] /\ answer[p].status \in Done => Told(p)
=============================================================================
