------------------------ MODULE ProviderImportsProofs ------------------------
(***************************************************************************)
(* The proofs about ProviderImports, for any number of operations: an      *)
(* import is overwritten and removed only as it was asked for, and what an *)
(* operation tells is so.                                                  *)
(***************************************************************************)
EXTENDS ProviderImports, TLAPS

(***************************************************************************)
(* The inductive invariant. What an operation is doing is what it was      *)
(* asked for, and its labels say what it has found.                        *)
(***************************************************************************)
AskedOK(p) ==
    /\ pc[p] \in {"recorded", "target"} => op[p] \in Imports
    /\ pc[p] \in {"publish", "create", "write", "replace", "sidecar"} =>
          op[p] \in Imports /\ repo[p] \in Repos
    /\ pc[p] = "replace" => op[p].force
    /\ pc[p] \in {"pinning", "unlink", "unlink sidecar"} => op[p] \in Removals
    /\ pc[p] \in {"read", "show"} => op[p] \in Listings
    /\ pc[p] # "ended" => answer[p] = NoAnswer

\* A removal goes on only where no project pinned the version when it looked.
PinOK(p) == pc[p] = "unlink" /\ pinned => op[p].force \/ late[p]

\* The sidecar s was written by an import of the content in it.
Written(s) == pc[s.origin] # "idle" /\ op[s.origin].content = s.content

OriginOK(p) ==
    /\ read[p] # None => Written(read[p])
    /\ answer[p].origin # None => Written(answer[p])

\* No operation overlaps the last one asked for, if it is alone.
AloneOK(p) == last = p /\ alone[p] => \A q \in Ops \ {p} : ~Active(q)

\* What an import has done so far, and found before, is still there.
StageOK(p) ==
    last = p /\ alone[p] /\ ~mixed[p] =>
        /\ pc[p] \in {"recorded", "target"} => ~Mismatched
        /\ pc[p] = "target" => read[p] = sidecar
        /\ pc[p] \in {"publish", "create"} => envelope = None
        /\ pc[p] = "write" => envelope = [content |-> Partial, by |-> p]
        /\ pc[p] = "sidecar" => envelope # None /\ envelope.content = op[p].content
        /\ answer[p].status \in Done => Told(p)

LocalOK(p) == AskedOK(p) /\ PinOK(p) /\ OriginOK(p) /\ AloneOK(p) /\ StageOK(p)

SidecarOK == sidecar # None => Written(sidecar)

Inv == TypeOK /\ SidecarOK /\ \A p \in Ops : LocalOK(p)

Labels == {"idle", "recorded", "target", "publish", "create", "write", "replace", "sidecar",
           "pinning", "unlink", "unlink sidecar", "read", "show", "ended"}

Answers == [status : Done \cup {"none", "refused", "removed", "listed", "killed"},
            content : Contents \cup {Partial, None}, repo : Repos \cup {None},
            origin : Ops \cup {None}]

LEMMA NoAnswerType == NoAnswer \in Answers
BY DEF NoAnswer, Answers

LEMMA InitInv == Init => Inv
<1> SUFFICES ASSUME Init PROVE Inv
  OBVIOUS
<1> USE DEF Init
<1>1. TypeOK
  <2>1. /\ op \in [Ops -> Imports \cup Removals \cup Listings \cup {None}]
        /\ read \in [Ops -> Sidecars \cup {None}]
        /\ repo \in [Ops -> Repos \cup {None}]
        /\ answer \in [Ops -> Answers]
    BY NoAnswerType
  <2>2. pc \in [Ops -> Labels]
    BY DEF Labels
  <2>3. /\ pinned \in BOOLEAN
        /\ late \in [Ops -> BOOLEAN] /\ alone \in [Ops -> BOOLEAN] /\ mixed \in [Ops -> BOOLEAN]
    OBVIOUS
  <2>4. crashes \in 0..MaxCrashes /\ last \in Ops \cup {None}
    BY ImportsAssumption
  <2> QED
    BY <2>1, <2>2, <2>3, <2>4 DEF TypeOK, Labels, Answers
<1>2. SidecarOK
  BY DEF SidecarOK
<1>3. ASSUME NEW p \in Ops PROVE LocalOK(p)
  <2>1. AskedOK(p) /\ PinOK(p) /\ AloneOK(p)
    BY ImportsAssumption DEF AskedOK, PinOK, AloneOK
  <2>2. OriginOK(p)
    BY DEF OriginOK, NoAnswer
  <2>3. StageOK(p)
    BY ImportsAssumption DEF StageOK
  <2> QED
    BY <2>1, <2>2, <2>3 DEF LocalOK
<1> QED
  BY <1>1, <1>2, <1>3 DEF Inv

(***************************************************************************)
(* A step of p, once it was asked for: the other operations are where they *)
(* were, so its own part of the invariant is all there is to show.         *)
(***************************************************************************)
Moves(p) ==
    /\ pc[p] # "idle" /\ pc[p] # "ended" /\ pc'[p] # "idle"
    /\ \A q \in Ops \ {p} :
          pc'[q] = pc[q] /\ repo'[q] = repo[q] /\ read'[q] = read[q] /\ answer'[q] = answer[q]
    /\ UNCHANGED <<pinned, op, last, late, alone, mixed>>

LEMMA WrittenKept ==
    ASSUME NEW p \in Ops, Moves(p), NEW o \in Ops, pc[o] # "idle"
    PROVE  pc'[o] # "idle" /\ op'[o] = op[o]
BY DEF Moves

LEMMA MovesOthers ==
    ASSUME Inv, NEW p \in Ops, Moves(p), NEW q \in Ops \ {p}
    PROVE  LocalOK(q)'
<1> USE DEF Inv, LocalOK
<1>0. /\ pc'[q] = pc[q] /\ repo'[q] = repo[q] /\ read'[q] = read[q] /\ answer'[q] = answer[q]
      /\ UNCHANGED <<pinned, op, last, late, alone, mixed>>
  BY DEF Moves
<1>1. AskedOK(q)'
  <2>1. AskedOK(q)
    OBVIOUS
  <2> QED
    BY <1>0, <2>1 DEF AskedOK
<1>2. PinOK(q)'
  <2>1. PinOK(q)
    OBVIOUS
  <2> QED
    BY <1>0, <2>1 DEF PinOK
<1>3. OriginOK(q)'
  <2>1. OriginOK(q) /\ read[q] \in Sidecars \cup {None} /\ answer[q] \in Answers
    BY DEF TypeOK, Answers
  <2>2. ASSUME read[q] # None PROVE Written(read[q])'
    <3>1. read[q].origin \in Ops /\ Written(read[q])
      BY <2>1, <2>2 DEF OriginOK, Sidecars
    <3> QED
      BY <1>0, <3>1, WrittenKept DEF Written
  <2>3. ASSUME answer[q].origin # None PROVE Written(answer[q])'
    <3>1. answer[q].origin \in Ops /\ Written(answer[q])
      BY <2>1, <2>3 DEF OriginOK, Answers
    <3> QED
      BY <1>0, <3>1, WrittenKept DEF Written
  <2> QED
    BY <1>0, <2>2, <2>3 DEF OriginOK
<1>4. ~(last = q /\ alone[q])
  BY DEF AloneOK, Moves, Active
<1>5. AloneOK(q)' /\ StageOK(q)'
  BY <1>0, <1>4 DEF AloneOK, StageOK
<1> QED
  BY <1>1, <1>2, <1>3, <1>5

LEMMA MovesAlone == ASSUME Inv, NEW p \in Ops, Moves(p) PROVE AloneOK(p)'
<1>1. AloneOK(p)
  BY DEF Inv, LocalOK
<1> QED
  BY <1>1 DEF AloneOK, Moves, Active

LEMMA MovesInv ==
    ASSUME Inv, NEW p \in Ops, Moves(p), TypeOK', SidecarOK',
           AskedOK(p)', PinOK(p)', OriginOK(p)', StageOK(p)'
    PROVE  Inv'
<1>1. LocalOK(p)'
  BY MovesAlone DEF LocalOK
<1>2. \A q \in Ops : LocalOK(q)'
  BY <1>1, MovesOthers
<1> QED
  BY <1>2 DEF Inv

(* The two ways a step moves p: to another label, or to its end.           *)

LEMMA Going ==
    ASSUME Inv, NEW p \in Ops, NEW label \in Labels, Goto(p, label)
    PROVE  /\ pc' \in [Ops -> Labels]
           /\ pc'[p] = label
           /\ \A q \in Ops \ {p} : pc'[q] = pc[q]
<1>1. pc \in [Ops -> Labels]
  BY DEF Inv, TypeOK, Labels
<1> QED
  BY <1>1 DEF Goto

Statuses == Done \cup {"none", "refused", "removed", "listed", "killed"}

LEMMA Telling ==
    ASSUME Inv, NEW p \in Ops, NEW status \in Statuses, NEW r \in Repos \cup {None},
           op[p] \in Imports \cup Removals \cup Listings, Tell(p, status, r)
    PROVE  /\ answer' \in [Ops -> Answers]
           /\ answer'[p] = [status |-> status, content |-> op[p].content, repo |-> r, origin |-> None]
           /\ \A q \in Ops \ {p} : answer'[q] = answer[q]
<1>1. answer \in [Ops -> Answers]
  BY DEF Inv, TypeOK, Answers
<1>2. op[p].content \in Contents \cup {None}
  BY DEF Imports, Removals, Listings
<1>3. [status |-> status, content |-> op[p].content, repo |-> r, origin |-> None] \in Answers
  BY <1>2 DEF Answers, Statuses
<1> QED
  BY <1>1, <1>3 DEF Tell

FilesOK == envelope \in Envelopes \cup {None} /\ sidecar \in Sidecars \cup {None} /\ SidecarOK

LEMMA FilesKept ==
    ASSUME Inv, NEW p \in Ops, Moves(p), sidecar' = sidecar \/ sidecar' = None
    PROVE  SidecarOK'
<1>1. CASE sidecar' = None
  BY <1>1 DEF SidecarOK
<1>2. CASE sidecar' = sidecar
  <2> SUFFICES ASSUME sidecar # None PROVE Written(sidecar)'
    BY <1>2 DEF SidecarOK
  <2>1. sidecar.origin \in Ops /\ Written(sidecar)
    BY DEF Inv, TypeOK, SidecarOK, Sidecars
  <2> QED
    BY <1>2, <2>1, WrittenKept DEF Written
<1> QED
  BY <1>1, <1>2

\* What p has read it keeps.
LEMMA ReadKept ==
    ASSUME Inv, NEW p \in Ops, Moves(p), read'[p] = read[p] \/ read'[p] = sidecar, read'[p] # None
    PROVE  Written(read[p])'
<1>1. CASE read'[p] = read[p]
  <2>1. read[p].origin \in Ops /\ Written(read[p])
    BY <1>1 DEF Inv, TypeOK, LocalOK, OriginOK, Sidecars
  <2> QED
    BY <1>1, <2>1, WrittenKept DEF Written
<1>2. CASE read'[p] = sidecar
  <2>1. sidecar.origin \in Ops /\ Written(sidecar)
    BY <1>2 DEF Inv, TypeOK, SidecarOK, Sidecars
  <2> QED
    BY <1>2, <2>1, WrittenKept DEF Written
<1> QED
  BY <1>1, <1>2

\* p goes on: it tells nothing.
LEMMA GoInv ==
    ASSUME Inv, NEW p \in Ops, NEW label \in Labels \ {"idle", "ended"}, Goto(p, label), Active(p),
           answer' = answer, Others,
           repo' \in [Ops -> Repos \cup {None}], read' \in [Ops -> Sidecars \cup {None}],
           \A q \in Ops \ {p} : repo'[q] = repo[q] /\ read'[q] = read[q],
           read'[p] = read[p] \/ read'[p] = sidecar,
           envelope' \in Envelopes \cup {None}, sidecar' = sidecar,
           AskedOK(p)', PinOK(p)',
           last = p /\ alone[p] /\ ~mixed[p] =>
              /\ label \in {"recorded", "target"} => ~Mismatched'
              /\ label = "target" => read'[p] = sidecar'
              /\ label \in {"publish", "create"} => envelope' = None
              /\ label = "write" => envelope' = [content |-> Partial, by |-> p]
              /\ label = "sidecar" => envelope' # None /\ envelope'.content = op[p].content
    PROVE  Inv'
<1>1. /\ pc' \in [Ops -> Labels] /\ pc'[p] = label
      /\ \A q \in Ops \ {p} : pc'[q] = pc[q]
  BY Going
<1>2. UNCHANGED <<pinned, op, crashes, last, late, alone, mixed>>
  BY DEF Others, history
<1>3. Moves(p)
  BY <1>1, <1>2 DEF Moves, Active
<1>4. TypeOK'
  <2>1. TypeOK
    BY DEF Inv
  <2> QED
    BY <1>1, <1>2, <2>1 DEF TypeOK, Labels
<1>5. SidecarOK'
  BY <1>3, FilesKept
<1>6. answer[p] = NoAnswer
  BY DEF Inv, LocalOK, AskedOK, Active
<1>7. OriginOK(p)'
  <2>1. answer'[p].origin = None
    BY <1>6 DEF NoAnswer
  <2> QED
    BY <1>3, <2>1, ReadKept DEF OriginOK
<1>8. StageOK(p)'
  <2>1. answer'[p].status \notin Done
    BY <1>6 DEF NoAnswer, Done
  <2> QED
    BY <1>1, <1>2, <2>1 DEF StageOK
<1> QED
  BY <1>3, <1>4, <1>5, <1>7, <1>8, MovesInv

\* p ends. Unless it says that it is done, that is all.
LEMMA EndInv ==
    ASSUME Inv, NEW p \in Ops, NEW status \in Statuses, NEW r \in Repos \cup {None},
           Active(p), Tell(p, status, r),
           UNCHANGED <<pinned, op, repo, read, last, late, alone, mixed>>,
           crashes' \in 0..MaxCrashes,
           envelope' \in Envelopes \cup {None}, sidecar' \in Sidecars \cup {None},
           \/ sidecar' = sidecar
           \/ sidecar' = None
           \/ sidecar'.origin = p /\ sidecar'.content = op[p].content,
           last = p /\ alone[p] /\ ~mixed[p] /\ status \in Done =>
              /\ envelope' # None /\ envelope'.content = op[p].content
              /\ sidecar' # None /\ sidecar'.content = op[p].content /\ sidecar'.repo = r
    PROVE  Inv'
<1>0. op[p] \in Imports \cup Removals \cup Listings
  <2>1. AskedOK(p) /\ pc[p] \in Labels \ {"idle", "ended"}
    BY DEF Inv, LocalOK, TypeOK, Active, Labels
  <2> QED
    BY <2>1 DEF AskedOK, Labels
<1>1. /\ pc' \in [Ops -> Labels] /\ pc'[p] = "ended"
      /\ \A q \in Ops \ {p} : pc'[q] = pc[q]
  BY Going DEF Tell, Labels
<1>2. /\ answer' \in [Ops -> Answers]
      /\ answer'[p] = [status |-> status, content |-> op[p].content, repo |-> r, origin |-> None]
      /\ \A q \in Ops \ {p} : answer'[q] = answer[q]
  BY <1>0, Telling
<1>3. Moves(p)
  BY <1>1, <1>2 DEF Moves, Active
<1>4. TypeOK'
  <2>1. TypeOK
    BY DEF Inv
  <2> QED
    BY <1>1, <1>2, <2>1 DEF TypeOK, Labels, Answers
<1>5. AskedOK(p)' /\ PinOK(p)'
  BY <1>1 DEF AskedOK, PinOK
<1>6. OriginOK(p)'
  BY <1>2, <1>3, ReadKept DEF OriginOK
<1>7. StageOK(p)'
  BY <1>1, <1>2 DEF StageOK, Told
<1>8. SidecarOK'
  <2>1. CASE sidecar'.origin = p /\ sidecar'.content = op[p].content
    BY <1>1, <2>1 DEF SidecarOK, Written
  <2> QED
    BY <1>3, <2>1, FilesKept
<1> QED
  BY <1>3, <1>4, <1>5, <1>6, <1>7, <1>8, MovesInv

\* p is refused, killed or has removed what it was to: nothing is told of what is there.
LEMMA StopInv ==
    ASSUME Inv, NEW p \in Ops, NEW status \in Statuses \ Done, Active(p), Tell(p, status, None),
           UNCHANGED <<pinned, op, repo, read, last, late, alone, mixed>>,
           crashes' \in 0..MaxCrashes,
           envelope' \in Envelopes \cup {None},
           sidecar' = sidecar \/ sidecar' = None
    PROVE  Inv'
<1>1. sidecar' \in Sidecars \cup {None}
  BY DEF Inv, TypeOK
<1> QED
  BY <1>1, EndInv

(***************************************************************************)
(* The steps of import_bytes.                                              *)
(***************************************************************************)
LEMMA TypeFacts ==
    ASSUME Inv, NEW p \in Ops
    PROVE  /\ envelope \in Envelopes \cup {None} /\ sidecar \in Sidecars \cup {None}
           /\ repo \in [Ops -> Repos \cup {None}] /\ read \in [Ops -> Sidecars \cup {None}]
           /\ crashes \in 0..MaxCrashes
           /\ AskedOK(p) /\ PinOK(p) /\ StageOK(p) /\ SidecarOK
BY DEF Inv, TypeOK, LocalOK

LEMMA ReadRecordedInv == ASSUME Inv, NEW p \in Ops, ReadRecorded(p) PROVE Inv'
<1> USE TypeFacts DEF ReadRecorded
<1>1. "target" \in Labels \ {"idle", "ended"} /\ Active(p)
  BY DEF Labels, Active
<1>2. /\ read' \in [Ops -> Sidecars \cup {None}] /\ read'[p] = sidecar
      /\ \A q \in Ops \ {p} : read'[q] = read[q]
  OBVIOUS
<1>3. pc'[p] = "target" /\ op' = op
  BY <1>1, Going DEF Others
<1>4. AskedOK(p)' /\ PinOK(p)'
  BY <1>3 DEF AskedOK, PinOK
<1>5. last = p /\ alone[p] /\ ~mixed[p] => ~Mismatched'
  BY DEF StageOK, Mismatched, files
<1> QED
  BY <1>1, <1>2, <1>4, <1>5, GoInv DEF files

LEMMA EffectiveType ==
    ASSUME Inv, NEW p \in Ops, op[p] \in Imports
    PROVE  Effective(p) \in Repos
<1>1. op[p].repo # None => op[p].repo \in Repos
  BY DEF Imports, Repos
<1>2. Recorded(p) # None => Recorded(p) \in Repos
  BY TypeFacts DEF Recorded, Sidecars
<1> QED
  BY <1>1, <1>2 DEF Effective, Repos

LEMMA CheckTargetInv == ASSUME Inv, NEW p \in Ops, CheckTarget(p) PROVE Inv'
<1> USE TypeFacts DEF CheckTarget
<1>1. Active(p) /\ op[p] \in Imports /\ Effective(p) \in Repos
  BY EffectiveType DEF Active, AskedOK
<1>2. ASSUME NEW label \in {"publish", "sidecar", "replace"},
             Goto(p, label), repo' = [repo EXCEPT ![p] = Effective(p)], UNCHANGED answer,
             label = "publish" => envelope = None,
             label = "sidecar" => envelope # None /\ envelope.content = op[p].content,
             label = "replace" => op[p].force
      PROVE  Inv'
  <2>1. label \in Labels \ {"idle", "ended"}
    BY DEF Labels
  <2>2. pc'[p] = label /\ op' = op
    BY <1>2, <2>1, Going DEF Others
  <2>3. /\ repo' \in [Ops -> Repos \cup {None}] /\ repo'[p] \in Repos
        /\ \A q \in Ops \ {p} : repo'[q] = repo[q]
    BY <1>1, <1>2
  <2>4. read' = read /\ envelope' = envelope /\ sidecar' = sidecar
    BY DEF files
  <2>5. AskedOK(p)' /\ PinOK(p)'
    BY <1>1, <1>2, <2>2, <2>3 DEF AskedOK, PinOK
  <2>6. label \notin {"recorded", "target", "create", "write"}
    OBVIOUS
  <2> QED
    BY <1>1, <1>2, <2>1, <2>3, <2>4, <2>5, <2>6, GoInv
<1>3. ASSUME Tell(p, "unchanged", Recorded(p)), UNCHANGED repo,
             envelope # None, envelope.content = op[p].content, Recorded(p) = Effective(p)
      PROVE  Inv'
  <2>1. "unchanged" \in Statuses /\ Recorded(p) \in Repos
    BY <1>1, <1>3 DEF Statuses, Done
  <2>2. read[p] # None /\ Recorded(p) = read[p].repo
    BY <2>1, ImportsAssumption DEF Recorded
  <2>3. ASSUME last = p, alone[p], ~mixed[p]
        PROVE  sidecar # None /\ sidecar.content = op[p].content /\ sidecar.repo = Recorded(p)
    <3>1. ~Mismatched /\ read[p] = sidecar
      BY <2>3 DEF StageOK
    <3> QED
      BY <1>3, <2>2, <3>1 DEF Mismatched
  <2>4. UNCHANGED <<files, pinned, op, repo, read, crashes, last, late, alone, mixed>>
    BY <1>3 DEF Others, history
  <2> QED
    BY <1>1, <1>3, <2>1, <2>3, <2>4, EndInv DEF files
<1>4. ASSUME Tell(p, "refused", None), UNCHANGED repo PROVE Inv'
  <2>1. "refused" \in Statuses \ Done
    BY DEF Statuses, Done
  <2>2. UNCHANGED <<files, pinned, op, repo, read, crashes, last, late, alone, mixed>>
    BY <1>4 DEF Others, history
  <2> QED
    BY <1>1, <1>4, <2>1, <2>2, StopInv DEF files
<1> QED
  BY <1>2, <1>3, <1>4

LEMMA StopLabels == {"refused", "removed", "killed"} \subseteq Statuses \ Done
BY DEF Statuses, Done

\* Something is there by now: what p tells of it is true only if it is there alone.
LEMMA OccupiedInv ==
    ASSUME Inv, NEW p \in Ops, pc[p] \in {"publish", "create"}, Occupied(p), envelope # None,
           UNCHANGED <<sidecar, repo, read>>, Others
    PROVE  Inv'
<1> USE TypeFacts DEF Occupied
<1>1. Active(p) /\ repo[p] \in Repos /\ ~(last = p /\ alone[p] /\ ~mixed[p])
  BY DEF Active, AskedOK, StageOK
<1>2. UNCHANGED <<envelope, pinned, op, crashes, last, late, alone, mixed>>
  BY DEF Others, history
<1>3. CASE Tell(p, "unchanged", repo[p])
  <2>1. "unchanged" \in Statuses
    BY DEF Statuses, Done
  <2> QED
    BY <1>1, <1>2, <1>3, <2>1, EndInv
<1>4. CASE Tell(p, "refused", None)
  BY <1>1, <1>2, <1>4, StopLabels, StopInv
<1> QED
  BY <1>3, <1>4

\* p has made or written the envelope, or is about to.
LEMMA EnvelopeInv ==
    ASSUME Inv, NEW p \in Ops, NEW label \in {"create", "write", "sidecar"},
           pc[p] \in {"publish", "create", "write", "replace"}, Goto(p, label),
           UNCHANGED <<sidecar, repo, read, answer>>, Others,
           envelope' \in Envelopes \cup {None},
           last = p /\ alone[p] /\ ~mixed[p] =>
              /\ label = "create" => envelope' = None
              /\ label = "write" => envelope' = [content |-> Partial, by |-> p]
              /\ label = "sidecar" => envelope' # None /\ envelope'.content = op[p].content
    PROVE  Inv'
<1> USE TypeFacts
<1>1. label \in Labels \ {"idle", "ended"} /\ Active(p)
  BY DEF Labels, Active
<1>2. pc'[p] = label /\ op' = op /\ repo' = repo
  BY <1>1, Going DEF Others
<1>3. AskedOK(p)' /\ PinOK(p)'
  BY <1>2 DEF AskedOK, PinOK
<1>4. label \notin {"recorded", "target", "publish"}
  OBVIOUS
<1> QED
  BY <1>1, <1>3, <1>4, GoInv

LEMMA NewEnvelope ==
    ASSUME Inv, NEW p \in Ops, NEW c \in {op[p].content, Partial},
           pc[p] \in {"publish", "create", "write", "replace"}
    PROVE  /\ [content |-> c, by |-> p] \in Envelopes
           /\ [content |-> c, by |-> p] # None
<1>1. op[p].content \in Contents
  BY TypeFacts DEF AskedOK, Imports
<1> QED
  BY <1>1, ImportsAssumption DEF Envelopes

LEMMA PublishInv == ASSUME Inv, NEW p \in Ops, Publish(p) PROVE Inv'
<1> USE TypeFacts DEF Publish
<1>1. CASE envelope' = [content |-> op[p].content, by |-> p] /\ Goto(p, "sidecar") /\ UNCHANGED answer
  BY <1>1, NewEnvelope, EnvelopeInv
<1>2. CASE envelope # None /\ Occupied(p)
  BY <1>2, OccupiedInv
<1>3. CASE Goto(p, "create") /\ UNCHANGED <<envelope, answer>>
  BY <1>3, EnvelopeInv DEF StageOK
<1> QED
  BY <1>1, <1>2, <1>3

LEMMA CreateInv == ASSUME Inv, NEW p \in Ops, Create(p) PROVE Inv'
<1> USE TypeFacts DEF Create
<1>1. CASE envelope # None
  BY <1>1, OccupiedInv
<1>2. CASE envelope = None
  BY <1>2, NewEnvelope, EnvelopeInv
<1> QED
  BY <1>1, <1>2

LEMMA WriteInv == ASSUME Inv, NEW p \in Ops, Write(p) PROVE Inv'
<1> USE TypeFacts DEF Write
<1>1. envelope' \in Envelopes \cup {None}
  BY NewEnvelope
<1>2. last = p /\ alone[p] /\ ~mixed[p] => envelope' # None /\ envelope'.content = op[p].content
  BY NewEnvelope DEF StageOK
<1> QED
  BY <1>1, <1>2, EnvelopeInv

LEMMA ReplaceInv == ASSUME Inv, NEW p \in Ops, Replace(p) PROVE Inv'
BY NewEnvelope, EnvelopeInv DEF Replace

LEMMA WriteSidecarInv == ASSUME Inv, NEW p \in Ops, WriteSidecar(p) PROVE Inv'
<1> USE TypeFacts DEF WriteSidecar
<1>1. Active(p) /\ repo[p] \in Repos /\ op[p].content \in Contents
  BY DEF Active, AskedOK, Imports
<1>2. sidecar' \in Sidecars /\ sidecar' # None
  BY <1>1, ImportsAssumption DEF Sidecars
<1>3. UNCHANGED <<pinned, op, crashes, last, late, alone, mixed>>
  BY DEF Others, history
<1>4. last = p /\ alone[p] /\ ~mixed[p] => envelope # None /\ envelope.content = op[p].content
  BY DEF StageOK
<1>5. sidecar'.content = op[p].content /\ sidecar'.repo = repo[p] /\ sidecar'.origin = p
  OBVIOUS
<1>6. "imported" \in Statuses
  BY DEF Statuses, Done
<1> QED
  BY <1>1, <1>2, <1>3, <1>4, <1>5, <1>6, EndInv

LEMMA FailInv == ASSUME Inv, NEW p \in Ops, Fail(p) PROVE Inv'
<1>1. Active(p)
  BY DEF Fail, Active
<1> QED
  BY <1>1, TypeFacts, StopLabels, StopInv DEF Fail, Others, history, files

LEMMA KillInv == ASSUME Inv, NEW p \in Ops, Kill(p) PROVE Inv'
<1>1. crashes' \in 0..MaxCrashes
  BY TypeFacts, ImportsAssumption DEF Kill
<1> QED
  BY <1>1, TypeFacts, StopLabels, StopInv DEF Kill, files

(***************************************************************************)
(* The steps of remove_import and list_imports.                            *)
(***************************************************************************)
\* p goes on to a label that says nothing of what is there.
LEMMA PlainGoInv ==
    ASSUME Inv, NEW p \in Ops, NEW label \in {"unlink", "unlink sidecar", "show"}, Goto(p, label),
           Active(p), UNCHANGED <<sidecar, repo, answer>>, Others,
           read' \in [Ops -> Sidecars \cup {None}], \A q \in Ops \ {p} : read'[q] = read[q],
           read'[p] = read[p] \/ read'[p] = sidecar,
           envelope' \in Envelopes \cup {None}, AskedOK(p)', PinOK(p)'
    PROVE  Inv'
<1>1. label \in Labels \ {"idle", "ended"}
  BY DEF Labels
<1>2. label \notin {"recorded", "target", "publish", "create", "write", "sidecar"}
  OBVIOUS
<1> QED
  BY <1>1, <1>2, TypeFacts, GoInv

LEMMA CheckPinningInv == ASSUME Inv, NEW p \in Ops, CheckPinning(p) PROVE Inv'
<1> USE TypeFacts DEF CheckPinning
<1>1. Active(p) /\ op[p] \in Removals
  BY DEF Active, AskedOK
<1>2. CASE Tell(p, "refused", None)
  BY <1>1, <1>2, StopLabels, StopInv DEF Others, history, files
<1>3. CASE Goto(p, "unlink") /\ UNCHANGED answer /\ (pinned => op[p].force)
  <2>1. pc'[p] = "unlink" /\ op' = op /\ pinned' = pinned
    BY <1>3, Going DEF Others, Labels
  <2>2. AskedOK(p)' /\ PinOK(p)'
    <3>1. answer'[p] = NoAnswer
      BY <1>3 DEF AskedOK
    <3> QED
      BY <1>1, <1>3, <2>1, <3>1 DEF AskedOK, PinOK
  <2> QED
    BY <1>1, <1>3, <2>2, PlainGoInv DEF files
<1> QED
  BY <1>2, <1>3

LEMMA UnlinkInv == ASSUME Inv, NEW p \in Ops, Unlink(p) PROVE Inv'
<1> USE TypeFacts DEF Unlink
<1>1. Active(p) /\ op[p] \in Removals
  BY DEF Active, AskedOK
<1>2. CASE Tell(p, "refused", None)
  BY <1>1, <1>2, StopLabels, StopInv DEF Others, history
<1>3. CASE Goto(p, "unlink sidecar") /\ UNCHANGED answer
  <2>1. pc'[p] = "unlink sidecar" /\ op' = op /\ answer'[p] = NoAnswer
    BY <1>3, Going DEF Others, Labels, AskedOK
  <2>2. AskedOK(p)' /\ PinOK(p)'
    BY <1>1, <2>1 DEF AskedOK, PinOK
  <2> QED
    BY <1>1, <1>3, <2>2, PlainGoInv
<1> QED
  BY <1>2, <1>3

LEMMA UnlinkSidecarInv == ASSUME Inv, NEW p \in Ops, UnlinkSidecar(p) PROVE Inv'
<1>1. Active(p)
  BY DEF UnlinkSidecar, Active
<1> QED
  BY <1>1, TypeFacts, StopLabels, StopInv DEF UnlinkSidecar, Others, history

LEMMA ReadListedInv == ASSUME Inv, NEW p \in Ops, ReadListed(p) PROVE Inv'
<1> USE TypeFacts DEF ReadListed
<1>1. Active(p) /\ op[p] \in Listings
  BY DEF Active, AskedOK
<1>2. pc'[p] = "show" /\ op' = op /\ answer'[p] = NoAnswer
  BY Going DEF Others, Labels, AskedOK
<1>3. AskedOK(p)' /\ PinOK(p)'
  BY <1>1, <1>2 DEF AskedOK, PinOK
<1>4. /\ read' \in [Ops -> Sidecars \cup {None}] /\ read'[p] = sidecar
      /\ \A q \in Ops \ {p} : read'[q] = read[q]
  OBVIOUS
<1> QED
  BY <1>1, <1>3, <1>4, PlainGoInv DEF files

\* What a listing shows of a sidecar is of the content it shows it for.
LEMMA ShowInv == ASSUME Inv, NEW p \in Ops, Show(p) PROVE Inv'
<1> USE TypeFacts DEF Show
<1>1. /\ pc' \in [Ops -> Labels] /\ pc'[p] = "ended"
      /\ \A q \in Ops \ {p} : pc'[q] = pc[q]
  BY Going DEF Labels
<1>2. UNCHANGED <<files, pinned, op, repo, read, crashes, last, late, alone, mixed>>
  BY DEF Others, history
<1>3. answer \in [Ops -> Answers]
  BY DEF Inv, TypeOK, Answers
<1>4. PICK c, r, o :
         /\ c = IF envelope = None THEN None ELSE envelope.content
         /\ r = IF envelope # None /\ read[p] # None /\ read[p].content = envelope.content
                THEN read[p].repo ELSE None
         /\ o = IF envelope # None /\ read[p] # None /\ read[p].content = envelope.content
                THEN read[p].origin ELSE None
         /\ answer' = [answer EXCEPT ![p] = [status |-> "listed", content |-> c, repo |-> r, origin |-> o]]
  OBVIOUS
<1>5. c \in Contents \cup {Partial, None} /\ r \in Repos \cup {None} /\ o \in Ops \cup {None}
  BY <1>4 DEF Envelopes, Sidecars
<1>6. /\ answer' \in [Ops -> Answers]
      /\ answer'[p] = [status |-> "listed", content |-> c, repo |-> r, origin |-> o]
      /\ \A q \in Ops \ {p} : answer'[q] = answer[q]
  BY <1>3, <1>4, <1>5 DEF Answers
<1>7. Moves(p)
  BY <1>1, <1>2, <1>6 DEF Moves
<1>8. TypeOK'
  <2>1. TypeOK
    BY DEF Inv
  <2> QED
    BY <1>1, <1>2, <1>6, <2>1 DEF TypeOK, Labels, Answers, files
<1>9. AskedOK(p)' /\ PinOK(p)' /\ StageOK(p)'
  BY <1>1, <1>6 DEF AskedOK, PinOK, StageOK, Done
<1>10. OriginOK(p)'
  <2>1. ASSUME o # None PROVE Written(answer[p])'
    <3>1. read[p].origin = o /\ read[p].content = c /\ read[p] # None
      BY <1>4, <2>1
    <3>2. Written(read[p])'
      BY <1>2, <1>7, <3>1, ReadKept
    <3> QED
      BY <1>2, <1>6, <3>1, <3>2 DEF Written
  <2> QED
    BY <1>2, <1>6, <1>7, <2>1, ReadKept DEF OriginOK
<1>11. SidecarOK'
  BY <1>2, <1>7, FilesKept DEF files
<1> QED
  BY <1>7, <1>8, <1>9, <1>10, <1>11, MovesInv

(***************************************************************************)
(* An operation is asked for; a project is saved or deleted.               *)
(***************************************************************************)
LEMMA AskInv ==
    ASSUME Inv, NEW p \in Ops, NEW o \in Imports \cup Removals \cup Listings, Ask(p, o)
    PROVE  Inv'
<1> USE DEF Ask, Inv
<1>1. /\ op' \in [Ops -> Imports \cup Removals \cup Listings \cup {None}] /\ op'[p] = o
      /\ \A q \in Ops \ {p} : op'[q] = op[q]
  BY DEF TypeOK
<1>2. PICK label \in {"recorded", "pinning", "read"} :
         /\ Goto(p, label)
         /\ label = "recorded" => o \in Imports
         /\ label = "pinning" => o \in Removals
         /\ label = "read" => o \in Listings
  <2>1. CASE o \in Imports
    BY <2>1 DEF Imports
  <2>2. CASE o \in Removals
    BY <2>2 DEF Removals
  <2>3. CASE o \in Listings
    BY <2>3 DEF Listings
  <2> QED
    BY <2>1, <2>2, <2>3
<1>3. /\ pc' \in [Ops -> Labels] /\ pc'[p] = label
      /\ \A q \in Ops \ {p} : pc'[q] = pc[q]
  BY <1>2, Going DEF Labels
<1>4. /\ alone' \in [Ops -> BOOLEAN]
      /\ alone'[p] = (\A r \in Ops : ~Active(r))
  OBVIOUS
<1>5. mixed' \in [Ops -> BOOLEAN] /\ mixed'[p] = Mismatched
  BY DEF TypeOK, Mismatched
<1>6. TypeOK'
  <2>1. TypeOK
    OBVIOUS
  <2>2. UNCHANGED <<envelope, sidecar, pinned, read, repo, answer, crashes, late>> /\ last' \in Ops \cup {None}
    BY DEF files
  <2> QED
    BY <1>1, <1>3, <1>4, <1>5, <2>1, <2>2 DEF TypeOK, Labels
<1>7. ASSUME NEW s, s.origin \in Ops, Written(s)
      PROVE  pc'[s.origin] # "idle" /\ op'[s.origin] = op[s.origin]
  BY <1>1, <1>3, <1>7 DEF Written
<1>8. SidecarOK'
  <2>1. sidecar' = sidecar
    BY DEF files
  <2>2. sidecar # None => sidecar.origin \in Ops /\ Written(sidecar)
    BY DEF SidecarOK, TypeOK, Sidecars
  <2> QED
    BY <1>7, <2>1, <2>2 DEF SidecarOK, Written
<1>9. ASSUME NEW q \in Ops PROVE LocalOK(q)'
  <2>1. LocalOK(q)
    OBVIOUS
  <2>2. AskedOK(q)' /\ PinOK(q)'
    <3>1. CASE q = p
      <4>1. answer'[p] = NoAnswer
        BY <2>1, <3>1 DEF LocalOK, AskedOK
      <4> QED
        BY <1>1, <1>2, <1>3, <3>1, <4>1 DEF AskedOK, PinOK
    <3>2. CASE q # p
      BY <1>1, <1>3, <2>1, <3>2 DEF LocalOK, AskedOK, PinOK
    <3> QED
      BY <3>1, <3>2
  <2>3. OriginOK(q)'
    <3>1. /\ read' = read /\ answer' = answer
          /\ read[q] # None => read[q].origin \in Ops /\ Written(read[q])
          /\ answer[q].origin # None => answer[q].origin \in Ops /\ Written(answer[q])
      BY <2>1 DEF LocalOK, OriginOK, TypeOK, Sidecars
    <3> QED
      BY <1>7, <3>1 DEF OriginOK, Written
  <2>4. AloneOK(q)'
    BY <1>3, <1>4 DEF AloneOK, Active
  <2>5. StageOK(q)'
    <3>1. CASE q = p
      <4>1. answer'[p].status \notin Done
        <5>1. answer'[p] = NoAnswer
          BY <2>1, <3>1 DEF LocalOK, AskedOK
        <5> QED
          BY <5>1 DEF NoAnswer, Done
      <4>2. mixed'[p] = Mismatched'
        BY <1>5 DEF Mismatched, files
      <4> QED
        BY <1>2, <1>3, <3>1, <4>1, <4>2 DEF StageOK
    <3> QED
      BY <3>1 DEF StageOK
  <2> QED
    BY <2>2, <2>3, <2>4, <2>5 DEF LocalOK
<1> QED
  BY <1>6, <1>8, <1>9

LEMMA PinInv == ASSUME Inv, NEW b \in BOOLEAN, Pin(b) PROVE Inv'
<1> USE DEF Pin, Inv
<1>1. late' \in [Ops -> BOOLEAN] /\ \A q \in Ops : late'[q] = (late[q] \/ (b /\ pc[q] = "unlink"))
  BY DEF TypeOK
<1>2. UNCHANGED <<envelope, sidecar, op, pc, repo, read, answer, crashes, last, alone, mixed>>
  BY DEF files
<1>3. TypeOK'
  <2>1. TypeOK
    OBVIOUS
  <2> QED
    BY <1>1, <1>2, <2>1 DEF TypeOK
<1>4. SidecarOK'
  BY <1>2 DEF SidecarOK, Written
<1>5. ASSUME NEW q \in Ops PROVE LocalOK(q)'
  <2>1. LocalOK(q)
    OBVIOUS
  <2>2. AskedOK(q)' /\ AloneOK(q)'
    BY <1>2, <2>1 DEF LocalOK, AskedOK, AloneOK, Active
  <2>3. PinOK(q)'
    BY <1>1, <1>2 DEF PinOK
  <2>4. OriginOK(q)' /\ StageOK(q)'
    BY <1>2, <2>1 DEF LocalOK, OriginOK, StageOK, Written, Mismatched, Told
  <2> QED
    BY <2>2, <2>3, <2>4 DEF LocalOK
<1> QED
  BY <1>3, <1>4, <1>5

LEMMA NextInv == Inv /\ [Next]_vars => Inv'
<1> SUFFICES ASSUME Inv, [Next]_vars PROVE Inv'
  OBVIOUS
<1>1. CASE UNCHANGED vars
  <2>1. UNCHANGED <<envelope, sidecar, pinned, op, pc, repo, read, answer, crashes, last, late, alone, mixed>>
    BY <1>1 DEF vars, files
  <2> QED
    BY <2>1 DEF Inv, TypeOK, SidecarOK, LocalOK, AskedOK, PinOK, OriginOK, AloneOK, StageOK,
                Written, Active, Mismatched, Told
<1>2. ASSUME NEW p \in Ops, Step(p) \/ Kill(p) PROVE Inv'
  BY <1>2, ReadRecordedInv, CheckTargetInv, PublishInv, CreateInv, WriteInv, ReplaceInv, WriteSidecarInv,
     CheckPinningInv, UnlinkInv, UnlinkSidecarInv, ReadListedInv, ShowInv, FailInv, KillInv
     DEF Step, ImportBytes, RemoveImport, ListImports
<1> QED
  BY <1>1, <1>2, AskInv, PinInv DEF Next

LEMMA InvAlways == Spec => []Inv
BY InitInv, NextInv, PTL DEF Spec

\* The files hold what an operation can have written, and every operation is at one of
\* its steps.
THEOREM ImportsTypeOK == Spec => []TypeOK
<1>1. Inv => TypeOK
  BY DEF Inv
<1> QED
  BY <1>1, InvAlways, PTL

\* What a listing shows of a sidecar is of the very content it shows, and what an import
\* tells is there when it says so: whatever other operations did, failed or were killed.
THEOREM ImportsToldTrue == Spec => []ToldTrue
<1>1. ASSUME Inv PROVE ToldTrue
  <2>1. ListedTrue
    BY <1>1 DEF Inv, LocalOK, OriginOK, Written, ListedTrue
  <2>2. AnswerTrue
    BY <1>1 DEF Inv, LocalOK, StageOK, AnswerTrue
  <2> QED
    BY <2>1, <2>2 DEF ToldTrue
<1> QED
  BY <1>1, InvAlways, PTL

\* What each step may do to a published import.
LEMMA KeptStep ==
    ASSUME Inv, NEW p \in Ops, Step(p) \/ Kill(p), envelope # None, envelope.content # Partial,
           envelope' # envelope
    PROVE  \/ pc[p] = "replace" /\ op[p].force /\ envelope' = [content |-> op[p].content, by |-> p]
           \/ pc[p] = "unlink" /\ envelope' = None /\ (pinned => op[p].force \/ late[p])
<1>1. CASE Replace(p)
  BY <1>1, TypeFacts DEF Replace, AskedOK
<1>2. CASE Unlink(p)
  BY <1>2, TypeFacts DEF Unlink, PinOK
<1>3. ~Publish(p) /\ ~Create(p)
  BY DEF Publish, Create, Occupied
<1>4. ~Write(p)
  BY DEF Write
<1>5. ~(ReadRecorded(p) \/ CheckTarget(p) \/ WriteSidecar(p) \/ CheckPinning(p) \/ UnlinkSidecar(p)
        \/ ReadListed(p) \/ Show(p) \/ Fail(p) \/ Kill(p))
  BY DEF ReadRecorded, CheckTarget, WriteSidecar, CheckPinning, UnlinkSidecar, ReadListed, Show, Fail,
         Kill, files
<1> QED
  BY <1>1, <1>2, <1>3, <1>4, <1>5 DEF Step, ImportBytes, RemoveImport, ListImports

\* A published import changes only by --replace, or by a removal that had found no
\* project pinning it or was forced.
THEOREM ImportsImportKept == Spec => ImportKept
<1>1. ASSUME Inv, [Next]_vars
      PROVE  [envelope # None /\ envelope.content # Partial /\ envelope' # envelope =>
                \E p \in Ops :
                   \/ pc[p] = "replace" /\ op[p].force /\ envelope' = [content |-> op[p].content, by |-> p]
                   \/ pc[p] = "unlink" /\ envelope' = None /\ (pinned => op[p].force \/ late[p])]_vars
  <2>1. ASSUME envelope # None, envelope.content # Partial, envelope' # envelope
        PROVE  \E p \in Ops :
                 \/ pc[p] = "replace" /\ op[p].force /\ envelope' = [content |-> op[p].content, by |-> p]
                 \/ pc[p] = "unlink" /\ envelope' = None /\ (pinned => op[p].force \/ late[p])
    <3>1. PICK p \in Ops : Step(p) \/ Kill(p)
      BY <1>1, <2>1 DEF Next, Ask, Pin, vars, files
    <3> QED
      BY <1>1, <2>1, <3>1, KeptStep
  <2> QED
    BY <2>1
<1> QED
  BY <1>1, InvAlways, PTL DEF Spec, ImportKept
=============================================================================
