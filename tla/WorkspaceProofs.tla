--------------------------- MODULE WorkspaceProofs ---------------------------
(***************************************************************************)
(* The proofs about Workspace, for any names and directories and any       *)
(* number of operations, saves and kills: whose directories are kept, that *)
(* no two of them deploy into the same one, and when first run ends.       *)
(***************************************************************************)
EXTENDS Workspace, TLAPS

Labels == {"idle", "look", "wipe", "choose", "check", "claim", "fill", "record", "stamp",
           "compare", "stage", "resync", "remove", "move", "ended", "killed"}

(***************************************************************************)
(* The inductive invariant.                                                *)
(***************************************************************************)
\* A project whose deploy directory was found free.
Keyed(d) == d # None /\ d.authored /\ d.checked

\* What kind of operation can be where, and what it then holds.
PlaceInv(p) ==
    /\ Active(p) => op[p] # None
    /\ pc[p] = "wipe" => Is(p, Forced)
    /\ pc[p] \in {"compare", "stage", "move"} => Is(p, {"system"})
    /\ pc[p] = "remove" => Is(p, {"system", "sync"})
    /\ pc[p] = "claim" /\ ~Is(p, System) => made[p] # None
    /\ pc[p] \in {"fill", "remove", "move"} => made[p] # None
    /\ made[p] # None => pc[p] \in {"claim", "fill", "remove", "move", "killed"}
    /\ pc[p] = "stage" => saw[p] # None
    /\ pc[p] \in {"choose", "resync"} => Is(p, {"sync"})
    /\ pc[p] = "record" => Is(p, Provisions)
    /\ pc[p] = "stamp" => Is(p, Jobs)
    /\ pc[p] \in {"remove", "move"} => ~Keyed(made[p])
    /\ staged[p] => pc[p] \in {"remove", "move", "killed"}
    /\ staged[p] => pc[p] = "killed" \/ Is(p, {"system"})

\* A project that cannot be edited is as provisioned, and so is one whose record may
\* be believed: no other operation was on its name. The installed one cannot be edited.
Sound(d) ==
    /\ ~d.authored => d.edit = 0
    /\ d.synced => ~d.authored
    /\ ~d.authored \/ ~d.exposed => d.record \in {0, Stale, None}

\* What an operation holds is not an onboarding's unless it is a job.
MadeInv(p) ==
    made[p] # None =>
        /\ Sound(made[p]) /\ ~made[p].exposed /\ ~made[p].seeded
        /\ Active(p) => (made[p].own <=> ~Is(p, Jobs))
        /\ Active(p) /\ ~Is(p, {"duplicate"}) => made[p].edit = 0

\* What the directory of an operation holds meanwhile, unless another operation was
\* on its name.
Undisturbed(n) == dir[n] # None /\ ~dir[n].exposed

WorkInv(p) ==
    LET n == op[p].name
    IN  /\ pc[p] = "fill" => ~(Undisturbed(n) /\ dir[n].whole)
        /\ pc[p] = "record" /\ Undisturbed(n) => dir[n].edit = 0
        /\ pc[p] \in {"record", "stamp"} /\ Is(p, Jobs) /\ Undisturbed(n) => ~dir[n].own
        /\ pc[p] = "stage" /\ Undisturbed(n) =>
              dir[n].edit = saw[p].edit /\ (saw[p].record # None => dir[n].edit = 0)
        /\ pc[p] = "remove" /\ Is(p, {"system"}) => staged[p] /\ (Undisturbed(n) => dir[n].edit = 0)
        /\ pc[p] = "remove" /\ Is(p, {"sync"}) /\ Undisturbed(n) => dir[n].synced

\* A job that is yet to mark the project it has made.
Marking(p, n) == pc[p] \in {"fill", "record", "stamp"} /\ Is(p, Jobs) /\ op[p].name = n

DirInv(n) ==
    dir[n] # None =>
        /\ Sound(dir[n])
        /\ dir[n].exposed \/ (dir[n].seeded <=> ~dir[n].own) \/ \E p \in Ops : Marking(p, n)

\* An operation that holds a key it found free.
Holding(p) == pc[p] \in {"claim", "fill"} /\ Keyed(made[p])

KeyInv ==
    /\ KeysDistinct
    /\ \A p \in Ops : Holding(p) =>
          /\ \A n \in Whole : Keyed(dir[n]) => dir[n].key # made[p].key
          /\ \A q \in Ops \ {p} : ~Holding(q)

Inv ==
    /\ TypeOK
    /\ \A p \in Ops : PlaceInv(p) /\ MadeInv(p) /\ WorkInv(p)
    /\ \A n \in Names : DirInv(n)
    /\ KeyInv

(***************************************************************************)
(* Types.                                                                  *)
(***************************************************************************)
OpsTyped ==
    /\ lock \in Ops \cup {None}
    /\ op \in [Ops -> Operations \cup {None}]
    /\ pc \in [Ops -> Labels]
    /\ made \in [Ops -> Projects \cup {None}]
    /\ saw \in [Ops -> Sights \cup {None}]
    /\ staged \in [Ops -> BOOLEAN]
    /\ crashes \in 0..MaxCrashes

DirTyped ==
    /\ dir \in [Names -> Projects \cup {None}]
    /\ tab \in [name : Names, key : Keys, edit : Edits] \cup {None}
    /\ edits \in Edits

LEMMA Typed == TypeOK <=> OpsTyped /\ DirTyped
BY DEF TypeOK, OpsTyped, DirTyped, Labels

LEMMA TypedNext ==
    ASSUME OpsTyped', DirTyped'
    PROVE  TypeOK'
BY DEF TypeOK, OpsTyped, DirTyped, Labels

LEMMA ProjectFields ==
    ASSUME NEW d \in Projects
    PROVE  /\ d.whole \in BOOLEAN /\ d.key \in Keys /\ d.authored \in BOOLEAN /\ d.seeded \in BOOLEAN
           /\ d.synced \in BOOLEAN /\ d.edit \in Edits /\ d.record \in Edits \cup {Stale, None}
           /\ d.own \in BOOLEAN /\ d.checked \in BOOLEAN /\ d.exposed \in BOOLEAN /\ d # None
<1>1. d # None
  BY WorkspaceAssumption
<1> QED
  BY <1>1 DEF Projects

LEMMA OperationFields ==
    ASSUME NEW o \in Operations
    PROVE  o.kind \in Kinds /\ o.name \in Names /\ o.from \in Names /\ o # None
BY WorkspaceAssumption DEF Operations

LEMMA EditFacts ==
    /\ 0 \in Edits /\ Stale \notin Edits /\ None \notin Edits /\ None # Stale
    /\ \A e \in Edits : e \in Nat
BY WorkspaceAssumption DEF Edits, Stale

LEMMA ProjectIsProject ==
    ASSUME NEW p \in Ops, NEW k \in Keys
    PROVE  Project(p, k) \in Projects
<1>1. PICK a \in BOOLEAN : a = ~Is(p, {"import", "sync"})
  OBVIOUS
<1>2. PICK b \in BOOLEAN : b = Is(p, {"sync"})
  BY DEF Is
<1>3. PICK c \in BOOLEAN : c = ~Is(p, Jobs)
  OBVIOUS
<1>4. PICK e \in BOOLEAN : e = \A q \in Ops \ {p} : pc[q] \notin {"claim", "fill"}
  OBVIOUS
<1>5. Project(p, k) =
          [whole |-> TRUE, key |-> k, authored |-> a, seeded |-> FALSE, synced |-> b, edit |-> 0,
           record |-> None, own |-> c, checked |-> e, exposed |-> FALSE]
  BY <1>1, <1>2, <1>3, <1>4, Zenon DEF Project
<1> QED
  BY <1>5, EditFacts DEF Projects

LEMMA CopyIsProject ==
    ASSUME TypeOK, NEW p \in Ops, op[p] # None, NEW d \in Projects
    PROVE  Copy(p, d) \in Projects
<1>1. Slug[op[p].name] \in Keys
  BY OperationFields, WorkspaceAssumption DEF TypeOK
<1>2. CASE d.authored
  <2> DEFINE e == Project(p, Slug[op[p].name])
  <2>1. e \in Projects
    BY <1>1, ProjectIsProject
  <2>2. d.synced \in BOOLEAN /\ d.edit \in Edits /\ Stale \in Edits \cup {Stale, None}
    BY ProjectFields
  <2>3. Copy(p, d) = [e EXCEPT !.synced = d.synced, !.edit = d.edit,
                               !.record = IF d.record = None THEN None ELSE Stale]
    BY <1>2 DEF Copy
  <2> HIDE DEF e
  <2> QED
    BY <2>1, <2>2, <2>3 DEF Projects
<1>3. CASE ~d.authored
  <2>1. Copy(p, d) = [d EXCEPT !.seeded = FALSE, !.own = TRUE, !.exposed = FALSE]
    BY <1>3 DEF Copy
  <2> QED
    BY <2>1 DEF Projects
<1> QED
  BY <1>2, <1>3

\* p ends, and nothing of it is left.
LEMMA EndTyped ==
    ASSUME OpsTyped, NEW p \in Ops, End(p)
    PROVE  /\ OpsTyped'
           /\ op'[p] = None /\ pc'[p] = "ended" /\ made'[p] = None /\ saw'[p] = None /\ staged'[p] = FALSE
           /\ \A q \in Ops \ {p} : UNCHANGED <<op[q], pc[q], made[q], saw[q], staged[q]>>
BY DEF OpsTyped, End, Goto, Labels

LEMMA ContinueTyped ==
    ASSUME OpsTyped, NEW p \in Ops, NEW label \in Labels, Continue(p, label)
    PROVE  /\ OpsTyped' /\ pc'[p] = label /\ UNCHANGED <<lock, op, made, saw, staged>>
           /\ \A q \in Ops \ {p} : UNCHANGED <<op[q], pc[q], made[q], saw[q], staged[q]>>
BY DEF OpsTyped, Continue, Goto

LEMMA InitInv == Init => Inv
<1> SUFFICES ASSUME Init PROVE Inv
  OBVIOUS
<1> USE DEF Init
<1>1. TypeOK
  BY WorkspaceAssumption, EditFacts DEF TypeOK
<1>2. ASSUME NEW p \in Ops PROVE PlaceInv(p) /\ MadeInv(p) /\ WorkInv(p)
  BY DEF PlaceInv, MadeInv, WorkInv, Active
<1>3. ASSUME NEW n \in Names PROVE DirInv(n)
  BY DEF DirInv
<1>4. KeyInv
  BY DEF KeyInv, KeysDistinct, Whole, Holding
<1> QED
  BY <1>1, <1>2, <1>3, <1>4 DEF Inv

(***************************************************************************)
(* What a step does not touch.                                             *)
(***************************************************************************)
\* What WorkInv says of n's directory still holds.
Kept(n) ==
    Undisturbed(n)' =>
        /\ Undisturbed(n)
        /\ UNCHANGED <<dir[n].edit, dir[n].own, dir[n].synced, dir[n].whole>>

Others(p) == \A q \in Ops \ {p} : UNCHANGED <<op[q], pc[q], made[q], saw[q], staged[q]>>

LEMMA PlaceKept ==
    ASSUME Inv, NEW q \in Ops, UNCHANGED <<op[q], pc[q], made[q], saw[q], staged[q]>>
    PROVE  PlaceInv(q)' /\ MadeInv(q)'
<1>1. PlaceInv(q) /\ MadeInv(q)
  BY DEF Inv
<1>2. PlaceInv(q)'
  BY <1>1 DEF PlaceInv, Is, Active, Keyed
<1>3. MadeInv(q)'
  BY <1>1 DEF MadeInv, Is, Active, Sound
<1> QED
  BY <1>2, <1>3

LEMMA WorkKept ==
    ASSUME Inv, NEW q \in Ops, UNCHANGED <<op[q], pc[q], made[q], saw[q], staged[q]>>,
           NEW n \in Names, n = op[q].name, Kept(n)
    PROVE  WorkInv(q)'
<1>1. WorkInv(q)
  BY DEF Inv
<1> QED
  BY <1>1 DEF WorkInv, Is, Kept

LEMMA WorkIdle ==
    ASSUME NEW q \in Ops, ~Active(q)'
    PROVE  WorkInv(q)'
BY DEF WorkInv, Active

LEMMA DirKept ==
    ASSUME Inv, NEW n \in Names, dir'[n] = dir[n], \A q \in Ops : Marking(q, n) => Marking(q, n)'
    PROVE  DirInv(n)'
<1>1. DirInv(n)
  BY DEF Inv
<1> QED
  BY <1>1 DEF DirInv, Sound

LEMMA KeyKept ==
    ASSUME Inv,
           \A n \in Names : n \in Whole' /\ Keyed(dir'[n]) =>
               n \in Whole /\ Keyed(dir[n]) /\ dir'[n].key = dir[n].key,
           \A q \in Ops : Holding(q)' => Holding(q) /\ made'[q].key = made[q].key
    PROVE  KeyInv'
<1>1. KeyInv
  BY DEF Inv
<1>2. KeysDistinct'
  <2> SUFFICES ASSUME NEW m \in Whole', NEW n \in Whole', m # n, Keyed(dir'[m]), Keyed(dir'[n])
               PROVE  dir'[m].key # dir'[n].key
    BY DEF KeysDistinct, Keyed, Whole
  <2>1. m \in Names /\ n \in Names
    BY DEF Whole
  <2>2. m \in Whole /\ n \in Whole /\ dir'[m].key = dir[m].key /\ dir'[n].key = dir[n].key
        /\ Keyed(dir[m]) /\ Keyed(dir[n])
    BY <2>1
  <2> QED
    BY <1>1, <2>2 DEF KeyInv, KeysDistinct, Keyed
<1>3. ASSUME NEW p \in Ops, Holding(p)'
      PROVE  /\ \A n \in Whole' : Keyed(dir'[n]) => dir'[n].key # made'[p].key
             /\ \A q \in Ops \ {p} : ~Holding(q)'
  <2>1. Holding(p) /\ made'[p].key = made[p].key
    BY <1>3
  <2>2. \A q \in Ops \ {p} : ~Holding(q)'
    BY <1>1, <2>1 DEF KeyInv
  <2>3. ASSUME NEW n \in Whole', Keyed(dir'[n]) PROVE dir'[n].key # made'[p].key
    <3>1. n \in Names
      BY DEF Whole
    <3>2. n \in Whole /\ Keyed(dir[n]) /\ dir'[n].key = dir[n].key
      BY <2>3, <3>1
    <3> QED
      BY <1>1, <2>1, <3>2 DEF KeyInv
  <2> QED
    BY <2>2, <2>3
<1> QED
  BY <1>2, <1>3 DEF KeyInv, Keyed

\* A step of p: what is left to show.
LEMMA StepInv ==
    ASSUME Inv, NEW p \in Ops, TypeOK', Others(p), PlaceInv(p)', MadeInv(p)', WorkInv(p)',
           \A q \in Ops \ {p}, n \in Names : Active(q) /\ n = op[q].name => Kept(n),
           \A n \in Names : DirInv(n)', KeyInv'
    PROVE  Inv'
<1>1. ASSUME NEW q \in Ops \ {p} PROVE PlaceInv(q)' /\ MadeInv(q)' /\ WorkInv(q)'
  <2>1. UNCHANGED <<op[q], pc[q], made[q], saw[q], staged[q]>>
    BY DEF Others
  <2>2. CASE Active(q)
    <3>1. op[q] \in Operations
      BY <2>2 DEF Inv, PlaceInv, TypeOK
    <3>2. PICK n \in Names : n = op[q].name
      BY <3>1, OperationFields
    <3> QED
      BY <2>1, <2>2, <3>2, PlaceKept, WorkKept
  <2>3. CASE ~Active(q)
    <3>1. ~Active(q)'
      BY <2>1, <2>3 DEF Active
    <3> QED
      BY <2>1, <3>1, PlaceKept, WorkIdle
  <2> QED
    BY <2>2, <2>3
<1> QED
  BY <1>1 DEF Inv

\* The same where p touches no directory.
LEMMA QuietStep ==
    ASSUME Inv, NEW p \in Ops, TypeOK', Others(p), PlaceInv(p)', MadeInv(p)', WorkInv(p)',
           dir' = dir, pc[p] \notin {"fill", "record", "stamp"}, KeyInv'
    PROVE  Inv'
<1>1. \A q \in Ops \ {p}, n \in Names : Active(q) /\ n = op[q].name => Kept(n)
  BY DEF Kept, Undisturbed
<1>2. ASSUME NEW n \in Names PROVE DirInv(n)'
  <2>1. \A q \in Ops : Marking(q, n) => Marking(q, n)'
    BY DEF Marking, Is, Others
  <2> QED
    BY <2>1, DirKept
<1> QED
  BY <1>1, <1>2, StepInv

LEMMA EndInv ==
    ASSUME Inv, NEW p \in Ops, End(p)
    PROVE  /\ OpsTyped' /\ Others(p) /\ PlaceInv(p)' /\ MadeInv(p)' /\ WorkInv(p)'
           /\ ~Active(p)' /\ ~Holding(p)'
<1>1. OpsTyped
  BY Typed DEF Inv
<1>2. /\ OpsTyped' /\ op'[p] = None /\ pc'[p] = "ended" /\ made'[p] = None /\ saw'[p] = None
      /\ staged'[p] = FALSE /\ Others(p)
  BY <1>1, EndTyped DEF Others
<1> QED
  BY <1>2 DEF PlaceInv, MadeInv, WorkInv, Active, Holding

LEMMA KeyQuiet ==
    ASSUME Inv, NEW p \in Ops, Others(p), dir' = dir,
           Holding(p)' => Holding(p) /\ made'[p].key = made[p].key
    PROVE  KeyInv'
<1>1. \A n \in Names : n \in Whole' /\ Keyed(dir'[n]) =>
          n \in Whole /\ Keyed(dir[n]) /\ dir'[n].key = dir[n].key
  BY DEF Whole
<1>2. \A q \in Ops : Holding(q)' => Holding(q) /\ made'[q].key = made[q].key
  BY DEF Others, Holding, Keyed
<1> QED
  BY <1>1, <1>2, KeyKept

\* p goes on and holds nothing yet.
LEMMA GoOn ==
    ASSUME Inv, NEW p \in Ops, NEW label \in {"wipe", "check", "claim", "compare"}, Continue(p, label),
           op[p] # None, made[p] = None, staged[p] = FALSE, label = "wipe" => Is(p, Forced),
           label = "compare" => Is(p, {"system"}), label = "claim" => Is(p, System)
    PROVE  OpsTyped' /\ Others(p) /\ PlaceInv(p)' /\ MadeInv(p)' /\ WorkInv(p)' /\ ~Holding(p)'
<1>1. OpsTyped /\ label \in Labels
  BY Typed DEF Inv, Labels
<1>2. OpsTyped' /\ pc'[p] = label /\ UNCHANGED <<lock, op, made, saw, staged>> /\ Others(p)
  BY <1>1, ContinueTyped DEF Others
<1>3. PlaceInv(p)'
  BY <1>2 DEF PlaceInv, Is
<1>4. MadeInv(p)' /\ WorkInv(p)' /\ ~Holding(p)'
  BY <1>2 DEF MadeInv, WorkInv, Holding, Keyed
<1> QED
  BY <1>2, <1>3, <1>4

(***************************************************************************)
(* Requests.                                                               *)
(***************************************************************************)
LEMMA AskInv ==
    ASSUME Inv, NEW p \in Ops, NEW k \in Kinds, NEW n \in Names, NEW m \in Names, Ask(p, k, n, m)
    PROVE  Inv'
<1>1. /\ TypeOK /\ PlaceInv(p) /\ pc[p] = "idle" /\ dir' = dir
      /\ op' = [op EXCEPT ![p] = [kind |-> k, name |-> n, from |-> m]]
      /\ UNCHANGED <<dir, tab, edits, lock, made, saw, staged, crashes>>
  BY DEF Inv, Ask
<1>2. PICK label \in {"look", "choose", "check"} :
          /\ pc' = [pc EXCEPT ![p] = label]
          /\ label = "choose" => k = "sync"
  BY DEF Ask, Goto
<1>3. made[p] = None /\ staged[p] = FALSE
  BY <1>1 DEF PlaceInv, TypeOK
<1>4. [kind |-> k, name |-> n, from |-> m] \in Operations
  BY DEF Operations
<1>5. TypeOK'
  BY <1>1, <1>2, <1>4 DEF TypeOK
<1>6. /\ op'[p] = [kind |-> k, name |-> n, from |-> m] /\ op'[p] # None /\ pc'[p] = label
      /\ made'[p] = None /\ staged'[p] = FALSE /\ Others(p)
  BY <1>1, <1>2, <1>3, <1>4, OperationFields DEF TypeOK, Others
<1>7. PlaceInv(p)'
  BY <1>2, <1>6 DEF PlaceInv, Is
<1>8. MadeInv(p)' /\ WorkInv(p)' /\ ~Holding(p)'
  BY <1>6 DEF MadeInv, WorkInv, Holding, Keyed
<1>9. KeyInv'
  BY <1>1, <1>6, <1>8, KeyQuiet
<1> QED
  BY <1>1, <1>5, <1>6, <1>7, <1>8, <1>9, QuietStep

LEMMA LookInv == ASSUME Inv, NEW p \in Ops, Look(p) PROVE Inv'
<1>1. /\ TypeOK /\ PlaceInv(p) /\ pc[p] = "look" /\ dir' = dir /\ UNCHANGED <<tab, edits>>
  BY DEF Inv, Look
<1>2. made[p] = None /\ staged[p] = FALSE /\ op[p] # None
  BY <1>1 DEF PlaceInv, TypeOK, Active
<1>3. OpsTyped' /\ Others(p) /\ PlaceInv(p)' /\ MadeInv(p)' /\ WorkInv(p)' /\ ~Holding(p)'
  <2>1. CASE Continue(p, "claim") /\ Is(p, System)
    BY <1>2, <2>1, GoOn
  <2>2. CASE Continue(p, "check")
    BY <1>2, <2>2, GoOn
  <2>3. CASE Continue(p, "wipe") /\ Is(p, Forced)
    BY <1>2, <2>3, GoOn
  <2>4. CASE Continue(p, "compare") /\ Is(p, {"system"})
    BY <1>2, <2>4, GoOn
  <2>5. CASE End(p)
    BY <2>5, EndInv
  <2> QED
    BY <2>1, <2>2, <2>3, <2>4, <2>5 DEF Look
<1>4. TypeOK'
  BY <1>1, <1>3, Typed, TypedNext DEF Inv, DirTyped
<1>5. KeyInv'
  BY <1>1, <1>3, KeyQuiet
<1> QED
  BY <1>1, <1>3, <1>4, <1>5, QuietStep

LEMMA ChooseInv == ASSUME Inv, NEW p \in Ops, Choose(p) PROVE Inv'
<1>1. /\ TypeOK /\ PlaceInv(p) /\ pc[p] = "choose" /\ dir' = dir /\ UNCHANGED <<tab, edits>>
      /\ OpsTyped
  BY Typed DEF Inv, Choose
<1>2. made[p] = None /\ staged[p] = FALSE /\ op[p] \in Operations /\ Is(p, {"sync"})
  BY <1>1 DEF PlaceInv, TypeOK, Active
<1>3. OpsTyped' /\ Others(p) /\ PlaceInv(p)' /\ MadeInv(p)' /\ WorkInv(p)' /\ ~Holding(p)'
  <2>1. ASSUME NEW n \in Names, op' = [op EXCEPT ![p].name = n], Goto(p, "resync"),
               UNCHANGED <<lock, made, saw, staged, crashes>>
        PROVE  OpsTyped' /\ Others(p) /\ PlaceInv(p)' /\ MadeInv(p)' /\ WorkInv(p)' /\ ~Holding(p)'
    <3>1. [op[p] EXCEPT !.name = n] \in Operations /\ [op[p] EXCEPT !.name = n].kind = op[p].kind
      BY <1>2 DEF Operations
    <3>2. op' = [op EXCEPT ![p] = [op[p] EXCEPT !.name = n]] /\ pc' = [pc EXCEPT ![p] = "resync"]
      BY <1>1, <2>1 DEF Goto
    <3>3. OpsTyped' /\ op'[p] = [op[p] EXCEPT !.name = n] /\ pc'[p] = "resync" /\ Others(p)
      BY <1>1, <2>1, <3>1, <3>2 DEF OpsTyped, Labels, Others
    <3>4. op'[p] # None /\ op'[p].kind = op[p].kind
      BY <3>1, <3>3, OperationFields
    <3>5. PlaceInv(p)'
      BY <1>2, <2>1, <3>3, <3>4 DEF PlaceInv, Is
    <3> QED
      BY <1>2, <2>1, <3>3, <3>5 DEF MadeInv, WorkInv, Holding, Keyed
  <2>2. CASE End(p)
    BY <2>2, EndInv
  <2> QED
    BY <2>1, <2>2, WorkspaceAssumption DEF Choose
<1>4. TypeOK'
  BY <1>1, <1>3, Typed, TypedNext DEF Inv, DirTyped
<1>5. KeyInv'
  BY <1>1, <1>3, KeyQuiet
<1> QED
  BY <1>1, <1>3, <1>4, <1>5, QuietStep

LEMMA RefuseInv == ASSUME Inv, NEW p \in Ops, Refuse(p) PROVE Inv'
<1>1. pc[p] \in {"check", "stage"} /\ dir' = dir /\ UNCHANGED <<tab, edits>> /\ End(p) /\ DirTyped
  BY Typed DEF Inv, Refuse
<1>2. OpsTyped' /\ Others(p) /\ PlaceInv(p)' /\ MadeInv(p)' /\ WorkInv(p)' /\ ~Holding(p)'
  BY <1>1, EndInv
<1>3. TypeOK'
  BY <1>1, <1>2, TypedNext DEF DirTyped
<1>4. KeyInv'
  BY <1>1, <1>2, KeyQuiet
<1> QED
  BY <1>1, <1>2, <1>3, <1>4, QuietStep

(***************************************************************************)
(* Making a directory.                                                     *)
(***************************************************************************)
\* What p is to make agrees with what it found free.
LEMMA NewProject ==
    ASSUME Inv, NEW p \in Ops, op[p] # None, NEW k \in Keys
    PROVE  LET d == Project(p, k)
           IN  /\ d \in Projects /\ Sound(d) /\ ~d.exposed /\ ~d.seeded /\ d.edit = 0 /\ d.record = None
               /\ d.own <=> ~Is(p, Jobs)
               /\ d.key = k /\ (d.authored <=> ~Is(p, {"import", "sync"}))
               /\ d.checked => \A q \in Ops \ {p} : pc[q] \notin {"claim", "fill"}
<1>1. Project(p, k) \in Projects
  BY ProjectIsProject
<1> QED
  BY <1>1 DEF Project, Sound, Is

LEMMA NewCopy ==
    ASSUME Inv, NEW p \in Ops, Is(p, {"duplicate"}), NEW m \in Names, dir[m] # None
    PROVE  LET d == Copy(p, dir[m])
           IN  /\ d \in Projects /\ Sound(d) /\ ~d.exposed /\ ~d.seeded /\ d.own
               /\ d.authored => /\ dir[m].authored /\ d.key = Slug[op[p].name]
                                /\ d.checked => \A q \in Ops \ {p} : pc[q] \notin {"claim", "fill"}
<1>1. TypeOK /\ dir[m] \in Projects /\ op[p] \in Operations /\ op[p].name \in Names /\ Sound(dir[m])
  BY OperationFields DEF Inv, TypeOK, DirInv, Is
<1>2. Copy(p, dir[m]) \in Projects
  BY <1>1, CopyIsProject, OperationFields
<1>3. CASE dir[m].authored
  <2> DEFINE e == Project(p, Slug[op[p].name])
  <2>1. Slug[op[p].name] \in Keys
    BY <1>1, WorkspaceAssumption
  <2>2. /\ e \in Projects /\ ~e.exposed /\ ~e.seeded /\ e.authored /\ e.own /\ e.key = Slug[op[p].name]
        /\ e.checked => \A q \in Ops \ {p} : pc[q] \notin {"claim", "fill"}
    <3>1. ~Is(p, Jobs) /\ ~Is(p, {"import", "sync"}) /\ op[p] # None
      BY DEF Is, Jobs
    <3> QED
      BY <2>1, <3>1, NewProject
  <2>3. Copy(p, dir[m]) = [e EXCEPT !.synced = dir[m].synced, !.edit = dir[m].edit,
                                    !.record = IF dir[m].record = None THEN None ELSE Stale]
    BY <1>3 DEF Copy
  <2> HIDE DEF e
  <2>4. /\ Copy(p, dir[m]).exposed = e.exposed /\ Copy(p, dir[m]).seeded = e.seeded
        /\ Copy(p, dir[m]).authored = e.authored /\ Copy(p, dir[m]).own = e.own
        /\ Copy(p, dir[m]).key = e.key /\ Copy(p, dir[m]).checked = e.checked
        /\ Copy(p, dir[m]).record \in {None, Stale} /\ Copy(p, dir[m]).synced = dir[m].synced
    BY <1>1, <2>2, <2>3 DEF Projects
  <2>5. ~dir[m].synced
    BY <1>1, <1>3 DEF Sound
  <2> QED
    BY <1>2, <1>3, <2>2, <2>4, <2>5 DEF Sound
<1>4. CASE ~dir[m].authored
  <2>1. Copy(p, dir[m]) = [dir[m] EXCEPT !.seeded = FALSE, !.own = TRUE, !.exposed = FALSE]
    BY <1>4 DEF Copy
  <2>2. /\ ~Copy(p, dir[m]).exposed /\ ~Copy(p, dir[m]).seeded /\ Copy(p, dir[m]).own
        /\ Copy(p, dir[m]).authored = dir[m].authored /\ Copy(p, dir[m]).edit = dir[m].edit
        /\ Copy(p, dir[m]).record = dir[m].record
    BY <1>1, <2>1 DEF Projects
  <2> QED
    BY <1>1, <1>2, <1>4, <2>2 DEF Sound
<1> QED
  BY <1>3, <1>4

LEMMA CheckInv == ASSUME Inv, NEW p \in Ops, Check(p) PROVE Inv'
<1>1. /\ TypeOK /\ PlaceInv(p) /\ KeyInv /\ pc[p] = "check" /\ op[p] \in Operations
      /\ made[p] = None /\ staged[p] = FALSE /\ op[p] # None
      /\ UNCHANGED <<dir, tab, edits>>
  BY DEF Inv, Check, PlaceInv, TypeOK, Active
<1>2. PICK n \in Names : n = op[p].name
  BY <1>1, OperationFields
<1>3. Slug[n] \in Keys /\ dir[n] = None
  BY <1>2, WorkspaceAssumption DEF Check
<1> DEFINE Starts(d) == /\ made' = [made EXCEPT ![p] = d]
                        /\ lock' = IF Is(p, Commands) THEN lock ELSE p
                        /\ Goto(p, "claim")
                        /\ UNCHANGED <<op, saw, staged, crashes>>
           Alone == \A q \in Ops \ {p} : pc[q] \notin {"claim", "fill"}
<1>4. PICK d \in Projects :
          /\ Starts(d) /\ Sound(d) /\ ~d.exposed /\ ~d.seeded /\ (d.own <=> ~Is(p, Jobs))
          /\ ~Is(p, {"duplicate"}) => d.edit = 0
          /\ Keyed(d) => Alone /\ KeyFree(d.key, n)
  <2>1. CASE Is(p, {"duplicate"})
    <3>1. PICK m \in Names : m = op[p].from
      BY <1>1, OperationFields
    <3>2. Starts(Copy(p, dir[m])) /\ dir[m] # None /\ (dir[m].authored => KeyFree(Slug[n], n))
      <4>1. dir[m] # None
        BY <2>1, <3>1 DEF Check
      <4>2. dir[m].authored => KeyFree(Slug[n], n)
        BY <1>2, <2>1, <3>1 DEF Check
      <4>3. Starts(Copy(p, dir[m]))
        BY <2>1, <3>1 DEF Check, Is
      <4> QED
        BY <4>1, <4>2, <4>3
    <3>3. /\ Copy(p, dir[m]) \in Projects /\ Sound(Copy(p, dir[m])) /\ ~Copy(p, dir[m]).exposed
          /\ ~Copy(p, dir[m]).seeded /\ Copy(p, dir[m]).own
          /\ Copy(p, dir[m]).authored => /\ dir[m].authored /\ Copy(p, dir[m]).key = Slug[n]
                                         /\ Copy(p, dir[m]).checked => Alone
      BY <1>2, <2>1, <3>2, NewCopy
    <3>4. ~Is(p, Jobs)
      BY <2>1 DEF Is, Jobs
    <3> HIDE DEF Starts, Alone
    <3> QED
      BY <2>1, <3>2, <3>3, <3>4 DEF Keyed
  <2>2. CASE Is(p, {"import"})
    <3>1. PICK k \in Keys : Starts([Project(p, k) EXCEPT !.checked = FALSE])
      BY <2>2 DEF Check, Is
    <3>2. /\ Project(p, k) \in Projects /\ Sound(Project(p, k)) /\ ~Project(p, k).exposed
          /\ ~Project(p, k).seeded /\ Project(p, k).edit = 0 /\ (Project(p, k).own <=> ~Is(p, Jobs))
      BY <1>1, NewProject
    <3>3. PICK e \in Projects : e = Project(p, k)
      BY <3>2
    <3>4. PICK d \in Projects : d = [e EXCEPT !.checked = FALSE]
      BY DEF Projects
    <3>5. /\ d.exposed = e.exposed /\ d.seeded = e.seeded /\ d.edit = e.edit /\ d.own = e.own
          /\ d.authored = e.authored /\ d.synced = e.synced /\ d.record = e.record /\ ~d.checked
      BY <3>4 DEF Projects
    <3>6. Starts(d)
      BY <3>1, <3>3, <3>4
    <3> HIDE DEF Starts, Alone
    <3> QED
      BY <3>2, <3>3, <3>5, <3>6 DEF Sound, Keyed
  <2>3. CASE ~Is(p, {"duplicate"}) /\ ~Is(p, {"import"})
    <3>1. Starts(Project(p, Slug[n]))
      BY <1>2, <2>3 DEF Check
    <3>2. /\ Project(p, Slug[n]) \in Projects /\ Sound(Project(p, Slug[n])) /\ ~Project(p, Slug[n]).exposed
          /\ ~Project(p, Slug[n]).seeded /\ Project(p, Slug[n]).edit = 0
          /\ Project(p, Slug[n]).own <=> ~Is(p, Jobs)
          /\ Project(p, Slug[n]).key = Slug[n]
          /\ Project(p, Slug[n]).authored <=> ~Is(p, {"import", "sync"})
          /\ Project(p, Slug[n]).checked => Alone
      BY <1>1, <1>3, NewProject
    <3>3. ~Is(p, {"import", "sync"}) => KeyFree(Slug[n], n)
      <4>1. ~Is(p, {"import", "sync"}) => Is(p, {"create"} \cup Provisions)
        <5>1. op[p].kind \in Kinds /\ ~Is(p, {"rename", "delete"})
          BY <1>1, OperationFields DEF Check
        <5> QED
          BY <1>1, <2>3, <5>1 DEF Is, Kinds, Simple, Provisions
      <4> QED
        BY <1>2, <4>1 DEF Check
    <3> HIDE DEF Starts, Alone
    <3> QED
      BY <3>1, <3>2, <3>3 DEF Keyed
  <2> QED
    BY <2>1, <2>2, <2>3
<1>5. /\ pc' = [pc EXCEPT ![p] = "claim"] /\ made' = [made EXCEPT ![p] = d]
      /\ UNCHANGED <<op, saw, staged, crashes>> /\ lock' \in Ops \cup {None}
  BY <1>1, <1>4 DEF Goto, TypeOK
<1>6. TypeOK'
  BY <1>1, <1>5 DEF TypeOK
<1>7. pc'[p] = "claim" /\ made'[p] = d /\ Others(p) /\ d # None /\ staged'[p] = FALSE
  BY <1>1, <1>5, ProjectFields DEF TypeOK, Others
<1>8. PlaceInv(p)'
  BY <1>1, <1>5, <1>7 DEF PlaceInv, Is
<1>9. MadeInv(p)' /\ WorkInv(p)'
  <2>1. Sound(made[p])'
    BY <1>4, <1>7 DEF Sound
  <2> QED
    BY <1>4, <1>5, <1>7, <2>1 DEF MadeInv, WorkInv, Is
<1>10. KeyInv'
  <2>1. KeysDistinct'
    BY <1>1 DEF KeyInv, KeysDistinct, Whole
  <2>2. Whole' = Whole /\ n \notin Whole /\ Whole \subseteq Names
    BY <1>1, <1>3 DEF Whole
  <2>3. \A q \in Ops \ {p} : (Holding(q)' <=> Holding(q)) /\ made'[q] = made[q]
    BY <1>7 DEF Others, Holding, Keyed
  <2>4. Holding(p)' => Keyed(d)
    BY <1>7 DEF Holding, Keyed
  <2>5. ASSUME NEW q \in Ops, Holding(q)'
        PROVE  \A m \in Whole' : Keyed(dir'[m]) => dir'[m].key # made'[q].key
    <3>1. CASE q = p
      <4>1. \A m \in Whole : dir[m].key # d.key
        BY <1>4, <2>2, <2>4, <2>5, <3>1 DEF KeyFree
      <4> QED
        BY <1>1, <1>7, <2>2, <3>1, <4>1
    <3>2. CASE q # p
      BY <1>1, <2>2, <2>3, <2>5, <3>2 DEF KeyInv
    <3> QED
      BY <3>1, <3>2
  <2>6. ASSUME NEW q \in Ops, Holding(q)', NEW r \in Ops \ {q} PROVE ~Holding(r)'
    <3>1. CASE q # p /\ r # p
      BY <1>1, <2>3, <2>6, <3>1 DEF KeyInv
    <3>2. CASE q = p \/ r = p
      <4>1. Keyed(d) => \A s \in Ops \ {p} : ~Holding(s)
        BY <1>4 DEF Holding
      <4> QED
        BY <2>3, <2>4, <2>6, <3>2, <4>1
    <3> QED
      BY <3>1, <3>2
  <2>7. \A q \in Ops : Holding(q)' =>
            /\ \A m \in Whole' : Keyed(dir'[m]) => dir'[m].key # made'[q].key
            /\ \A r \in Ops \ {q} : ~Holding(r)'
    BY <2>5, <2>6
  <2> QED
    BY <2>1, <2>7 DEF KeyInv, Keyed
<1> QED
  BY <1>1, <1>6, <1>7, <1>8, <1>9, <1>10, QuietStep

\* p changes its directory n to e, and tells those whose name that is.
LEMMA OthersKept ==
    ASSUME Inv, NEW p \in Ops, NEW n \in Names, NEW e \in Projects \cup {None},
           dir' = [dir EXCEPT ![n] = e],
           \/ e = None
           \/ Busy(n, p) => e.exposed
           \/ dir[n] # None /\ e.exposed = dir[n].exposed /\ e.edit = dir[n].edit /\ e.own = dir[n].own
              /\ e.synced = dir[n].synced /\ e.whole = dir[n].whole
    PROVE  \A q \in Ops \ {p}, m \in Names : Active(q) /\ m = op[q].name => Kept(m)
<1> SUFFICES ASSUME NEW q \in Ops \ {p}, NEW m \in Names, Active(q), m = op[q].name, Undisturbed(m)'
             PROVE  Undisturbed(m) /\ UNCHANGED <<dir[m].edit, dir[m].own, dir[m].synced, dir[m].whole>>
  BY DEF Kept
<1>1. TypeOK
  BY DEF Inv
<1>2. CASE m # n
  BY <1>1, <1>2 DEF Undisturbed, TypeOK
<1>3. CASE m = n
  <2>1. dir'[n] = e /\ Busy(n, p)
    BY <1>1, <1>3 DEF TypeOK, Busy
  <2> QED
    BY <1>3, <2>1 DEF Undisturbed
<1> QED
  BY <1>2, <1>3

\* A step of p that changes its own directory n to e.
LEMMA DirStep ==
    ASSUME Inv, NEW p \in Ops, NEW n \in Names, n = op[p].name, NEW e \in Projects \cup {None},
           dir' = [dir EXCEPT ![n] = e], OpsTyped', UNCHANGED <<tab, edits>>, Others(p),
           \/ e = None
           \/ Busy(n, p) => e.exposed
           \/ dir[n] # None /\ e.exposed = dir[n].exposed /\ e.edit = dir[n].edit /\ e.own = dir[n].own
              /\ e.synced = dir[n].synced /\ e.whole = dir[n].whole,
           PlaceInv(p)', MadeInv(p)', WorkInv(p)', DirInv(n)', KeyInv'
    PROVE  Inv'
<1>1. DirTyped
  BY Typed DEF Inv
<1>2. TypeOK'
  <2>1. DirTyped'
    BY <1>1 DEF DirTyped
  <2> QED
    BY <2>1, TypedNext
<1>3. \A q \in Ops \ {p}, m \in Names : Active(q) /\ m = op[q].name => Kept(m)
  BY OthersKept
<1>4. ASSUME NEW m \in Names PROVE DirInv(m)'
  <2>1. CASE m # n
    <3>1. dir'[m] = dir[m]
      BY <1>1, <2>1 DEF DirTyped
    <3>2. \A q \in Ops : Marking(q, m) => Marking(q, m)'
      BY <2>1 DEF Marking, Is, Others
    <3> QED
      BY <3>1, <3>2, DirKept
  <2>2. CASE m = n
    BY <2>2
  <2> QED
    BY <2>1, <2>2
<1> QED
  BY <1>2, <1>3, <1>4, StepInv

\* No key is new where the directory n is removed, is in part there or keeps its key.
LEMMA KeyStep ==
    ASSUME Inv, NEW p \in Ops, NEW n \in Names, NEW e \in Projects \cup {None},
           dir' = [dir EXCEPT ![n] = e], Others(p),
           \/ e = None
           \/ ~e.whole \/ ~Keyed(e)
           \/ n \in Whole /\ Keyed(dir[n]) /\ e.key = dir[n].key,
           Holding(p)' => Holding(p) /\ made'[p].key = made[p].key
    PROVE  KeyInv'
<1>1. TypeOK
  BY DEF Inv
<1>2. ASSUME NEW m \in Names, m \in Whole', Keyed(dir'[m])
      PROVE  m \in Whole /\ Keyed(dir[m]) /\ dir'[m].key = dir[m].key
  <2>1. CASE m # n
    BY <1>1, <1>2, <2>1 DEF Whole, TypeOK
  <2>2. CASE m = n
    <3>1. dir'[n] = e
      BY <1>1 DEF TypeOK
    <3> QED
      BY <1>2, <2>2, <3>1 DEF Whole, Keyed
  <2> QED
    BY <2>1, <2>2
<1>3. \A q \in Ops : Holding(q)' => Holding(q) /\ made'[q].key = made[q].key
  BY DEF Others, Holding, Keyed
<1> QED
  BY <1>2, <1>3, KeyKept

LEMMA WipeInv == ASSUME Inv, NEW p \in Ops, Wipe(p) PROVE Inv'
<1>1. /\ TypeOK /\ PlaceInv(p) /\ pc[p] = "wipe" /\ UNCHANGED <<tab, edits>>
      /\ op[p] # None /\ made[p] = None /\ staged[p] = FALSE
      /\ dir' = [dir EXCEPT ![op[p].name] = None]
  BY DEF Inv, Wipe, PlaceInv, TypeOK, Active
<1>2. PICK n \in Names : n = op[p].name
  BY <1>1, OperationFields DEF TypeOK
<1>3. OpsTyped' /\ Others(p) /\ PlaceInv(p)' /\ MadeInv(p)' /\ WorkInv(p)' /\ ~Holding(p)'
  <2>1. CASE Continue(p, "claim") /\ Is(p, System)
    BY <1>1, <2>1, GoOn
  <2>2. CASE Continue(p, "check")
    BY <1>1, <2>2, GoOn
  <2> QED
    BY <2>1, <2>2 DEF Wipe
<1>4. DirInv(n)'
  BY <1>1, <1>2 DEF DirInv, TypeOK
<1>5. KeyInv'
  BY <1>1, <1>2, <1>3, KeyStep
<1> QED
  BY <1>1, <1>2, <1>3, <1>4, <1>5, DirStep

LEMMA ClaimInv == ASSUME Inv, NEW p \in Ops, Claim(p) PROVE Inv'
<1>1. /\ TypeOK /\ PlaceInv(p) /\ MadeInv(p) /\ OpsTyped /\ pc[p] = "claim" /\ UNCHANGED <<tab, edits>>
      /\ op[p] \in Operations /\ op[p] # None /\ staged[p] = FALSE
  BY Typed DEF Inv, Claim, PlaceInv, TypeOK, Active
<1>2. PICK n \in Names : n = op[p].name
  BY <1>1, OperationFields
<1>3. CASE dir[n] # None
  <2>1. End(p) /\ dir' = dir
    BY <1>2, <1>3 DEF Claim
  <2>2. OpsTyped' /\ Others(p) /\ PlaceInv(p)' /\ MadeInv(p)' /\ WorkInv(p)' /\ ~Holding(p)'
    BY <2>1, EndInv
  <2>3. TypeOK'
    BY <1>1, <2>1, <2>2, Typed, TypedNext DEF Inv, DirTyped
  <2>4. KeyInv'
    BY <2>1, <2>2, KeyQuiet
  <2> QED
    BY <1>1, <2>1, <2>2, <2>3, <2>4, QuietStep
<1>4. CASE dir[n] = None
  <2>1. PICK d \in Projects :
            /\ d = IF Is(p, System) THEN [Project(p, Slug[n]) EXCEPT !.checked = FALSE] ELSE made[p]
            /\ Sound(d) /\ ~d.exposed /\ ~d.seeded /\ (d.own <=> ~Is(p, Jobs))
            /\ ~Is(p, {"duplicate"}) => d.edit = 0
            /\ Keyed(d) => Keyed(made[p]) /\ made[p].key = d.key
    <3>1. CASE Is(p, System)
      <4>1. Slug[n] \in Keys
        BY WorkspaceAssumption
      <4>2. PICK e \in Projects :
                /\ e = Project(p, Slug[n]) /\ Sound(e) /\ ~e.exposed /\ ~e.seeded /\ e.edit = 0
                /\ e.own <=> ~Is(p, Jobs)
        BY <1>1, <4>1, NewProject
      <4>3. PICK d \in Projects : d = [e EXCEPT !.checked = FALSE]
        BY DEF Projects
      <4>4. /\ d.exposed = e.exposed /\ d.seeded = e.seeded /\ d.edit = e.edit /\ d.own = e.own
            /\ d.authored = e.authored /\ d.synced = e.synced /\ d.record = e.record /\ ~d.checked
        BY <4>3 DEF Projects
      <4> QED
        BY <3>1, <4>2, <4>3, <4>4 DEF Sound, Keyed
    <3>2. CASE ~Is(p, System)
      <4>1. made[p] \in Projects
        BY <1>1, <3>2 DEF PlaceInv, TypeOK
      <4>2. Active(p) /\ made[p] # None
        BY <1>1, <3>2 DEF PlaceInv, Active
      <4> QED
        BY <1>1, <3>2, <4>1, <4>2 DEF MadeInv
    <3> QED
      BY <3>1, <3>2
  <2>2. PICK e \in Projects : e = [d EXCEPT !.whole = FALSE, !.exposed = Busy(n, p)]
    <3>1. PICK b \in BOOLEAN : b = Busy(n, p)
      BY DEF Busy
    <3>2. [d EXCEPT !.whole = FALSE, !.exposed = b] \in Projects
      BY DEF Projects
    <3> QED
      BY <3>1, <3>2
  <2>3. /\ e.exposed = Busy(n, p) /\ e.whole = FALSE /\ e.seeded = d.seeded /\ e.edit = d.edit
        /\ e.own = d.own /\ e.authored = d.authored /\ e.synced = d.synced /\ e.record = d.record /\ e # None
    BY <2>2, ProjectFields DEF Projects
  <2>4. /\ dir' = [dir EXCEPT ![n] = e] /\ made' = [made EXCEPT ![p] = d] /\ pc' = [pc EXCEPT ![p] = "fill"]
        /\ UNCHANGED <<lock, op, saw, staged, crashes>>
    BY <1>2, <1>4, <2>1, <2>2 DEF Claim, Goto
  <2>5. /\ OpsTyped' /\ Others(p) /\ made'[p] = d /\ pc'[p] = "fill" /\ d # None /\ dir'[n] = e
        /\ staged'[p] = FALSE
    BY <1>1, <2>4, ProjectFields DEF OpsTyped, Labels, Others, TypeOK
  <2>6. PlaceInv(p)'
    BY <1>1, <2>4, <2>5 DEF PlaceInv, Is
  <2>7. MadeInv(p)'
    <3>1. Sound(made[p])'
      BY <2>1, <2>5 DEF Sound
    <3> QED
      BY <2>1, <2>4, <2>5, <3>1 DEF MadeInv, Is
  <2>8. WorkInv(p)'
    BY <1>2, <2>3, <2>4, <2>5 DEF WorkInv, Undisturbed
  <2>9. DirInv(n)'
    <3>1. Sound(dir[n])'
      BY <2>1, <2>3, <2>5 DEF Sound
    <3>2. Is(p, Jobs) => Marking(p, n)'
      BY <1>2, <2>4, <2>5 DEF Marking, Is
    <3> QED
      BY <2>1, <2>3, <2>5, <3>1, <3>2 DEF DirInv
  <2>10. KeyInv'
    <3>1. Holding(p)' => Holding(p) /\ made'[p].key = made[p].key
      BY <1>1, <2>1, <2>5 DEF Holding, Keyed
    <3> QED
      BY <2>3, <2>4, <2>5, <3>1, KeyStep
  <2> QED
    BY <1>2, <2>3, <2>4, <2>5, <2>6, <2>7, <2>8, <2>9, <2>10, DirStep DEF Claim
<1> QED
  BY <1>3, <1>4

LEMMA FillInv == ASSUME Inv, NEW p \in Ops, Fill(p) PROVE Inv'
<1>1. /\ TypeOK /\ PlaceInv(p) /\ MadeInv(p) /\ KeyInv /\ OpsTyped /\ pc[p] = "fill" /\ UNCHANGED <<tab, edits>>
      /\ op[p] \in Operations /\ op[p] # None /\ staged[p] = FALSE /\ made[p] \in Projects /\ Active(p)
  BY Typed DEF Inv, Fill, PlaceInv, TypeOK, Active
<1>2. PICK n \in Names : n = op[p].name
  BY <1>1, OperationFields
<1>3. PICK d \in Projects : d = made[p]
  BY <1>1
<1>4. PICK e \in Projects : e = [d EXCEPT !.exposed = Busy(n, p) \/ dir[n].exposed]
  <2>1. PICK b \in BOOLEAN : b = (Busy(n, p) \/ dir[n].exposed)
    OBVIOUS
  <2>2. [d EXCEPT !.exposed = b] \in Projects
    BY DEF Projects
  <2> QED
    BY <2>1, <2>2
<1>5. dir' = [dir EXCEPT ![n] = e]
  BY <1>2, <1>3, <1>4 DEF Fill
<1>6. /\ (Busy(n, p) => e.exposed) /\ e.key = d.key /\ e.seeded = d.seeded /\ e.edit = d.edit /\ e.own = d.own
      /\ e.authored = d.authored /\ e.synced = d.synced /\ e.record = d.record /\ e.checked = d.checked /\ dir'[n] = e /\ e # None
  BY <1>1, <1>4, <1>5, ProjectFields DEF Projects, TypeOK
<1>7. Sound(d) /\ ~d.exposed /\ ~d.seeded /\ (d.own <=> ~Is(p, Jobs)) /\ (~Is(p, {"duplicate"}) => d.edit = 0)
  <2>1. made[p] # None
    BY <1>1, ProjectFields
  <2> QED
    BY <1>1, <1>3, <2>1 DEF MadeInv
<1>8. Sound(dir[n])'
  BY <1>6, <1>7 DEF Sound
<1>9. ASSUME Others(p), ~Holding(p)' PROVE KeyInv'
  <2>1. CASE Keyed(d)
    <3>1. Holding(p)
      BY <1>1, <1>3, <2>1 DEF Holding
    <3>2. /\ \A m \in Whole : Keyed(dir[m]) => dir[m].key # d.key
          /\ \A q \in Ops \ {p} : ~Holding(q)
      BY <1>1, <1>3, <3>1 DEF KeyInv
    <3>3. \A q \in Ops : ~Holding(q)'
      BY <1>9, <3>2 DEF Others, Holding, Keyed
    <3>4. \A m \in Names \ {n} : dir'[m] = dir[m] /\ (m \in Whole' <=> m \in Whole)
      BY <1>1, <1>5 DEF TypeOK, Whole
    <3>5. ASSUME NEW l \in Whole', NEW m \in Whole', l # m, Keyed(dir'[l]), Keyed(dir'[m])
          PROVE  dir'[l].key # dir'[m].key
      <4>1. l \in Names /\ m \in Names
        BY DEF Whole
      <4>2. CASE l # n /\ m # n
        BY <1>1, <3>4, <3>5, <4>1, <4>2 DEF KeyInv, KeysDistinct, Keyed
      <4>3. CASE l = n
        BY <1>6, <3>2, <3>4, <3>5, <4>1, <4>3
      <4>4. CASE m = n
        BY <1>6, <3>2, <3>4, <3>5, <4>1, <4>4
      <4> QED
        BY <4>2, <4>3, <4>4
    <3>6. KeysDistinct'
      BY <3>5 DEF KeysDistinct, Keyed, Whole
    <3> QED
      BY <3>3, <3>6 DEF KeyInv
  <2>2. CASE ~Keyed(d)
    <3>1. ~Keyed(e)
      BY <1>6, <2>2, ProjectFields DEF Keyed
    <3> QED
      BY <1>5, <1>9, <3>1, KeyStep
  <2> QED
    BY <2>1, <2>2
<1>10. CASE Is(p, Provisions)
  <2>1. /\ pc' = [pc EXCEPT ![p] = "record"] /\ lock' = (IF lock = p THEN None ELSE lock)
        /\ made' = [made EXCEPT ![p] = None] /\ UNCHANGED <<op, saw, staged, crashes>>
    BY <1>10 DEF Fill, Goto
  <2>2. OpsTyped' /\ Others(p) /\ made'[p] = None /\ pc'[p] = "record" /\ staged'[p] = FALSE
    BY <1>1, <2>1 DEF OpsTyped, Labels, Others
  <2>3. PlaceInv(p)'
    BY <1>1, <1>10, <2>1, <2>2 DEF PlaceInv, Is
  <2>4. MadeInv(p)' /\ ~Holding(p)'
    BY <2>2 DEF MadeInv, Holding, Keyed
  <2>5. ~Is(p, {"duplicate"})
    BY <1>10 DEF Is, Provisions, Jobs, Commands
  <2>6. WorkInv(p)'
    BY <1>2, <1>6, <1>7, <2>1, <2>2, <2>5 DEF WorkInv, Is
  <2>7. DirInv(n)'
    <3>1. Is(p, Jobs) => Marking(p, n)'
      BY <1>2, <2>1, <2>2 DEF Marking, Is
    <3> QED
      BY <1>6, <1>7, <1>8, <3>1 DEF DirInv
  <2> QED
    BY <1>1, <1>2, <1>5, <1>6, <1>9, <2>2, <2>3, <2>4, <2>6, <2>7, DirStep
<1>11. CASE ~Is(p, Provisions)
  <2>1. End(p) /\ ~Is(p, Jobs)
    BY <1>11 DEF Fill, Is, Provisions
  <2>2. OpsTyped' /\ Others(p) /\ PlaceInv(p)' /\ MadeInv(p)' /\ WorkInv(p)' /\ ~Holding(p)'
    BY <2>1, EndInv
  <2>3. DirInv(n)'
    BY <1>6, <1>7, <1>8, <2>1 DEF DirInv
  <2> QED
    BY <1>1, <1>2, <1>5, <1>6, <1>9, <2>2, <2>3, DirStep
<1> QED
  BY <1>10, <1>11

LEMMA FillFailsInv == ASSUME Inv, NEW p \in Ops, FillFails(p) PROVE Inv'
<1>1. /\ TypeOK /\ PlaceInv(p) /\ pc[p] = "fill" /\ UNCHANGED <<tab, edits>> /\ End(p)
      /\ op[p] \in Operations /\ op[p] # None
  BY DEF Inv, FillFails, PlaceInv, TypeOK, Active
<1>2. PICK n \in Names : n = op[p].name
  BY <1>1, OperationFields
<1>3. OpsTyped' /\ Others(p) /\ PlaceInv(p)' /\ MadeInv(p)' /\ WorkInv(p)' /\ ~Holding(p)'
  BY <1>1, EndInv
<1>4. CASE Is(p, System \cup {"duplicate"})
  <2>1. dir' = dir /\ ~Is(p, Jobs)
    BY <1>4 DEF FillFails, Is, System, Jobs
  <2>2. TypeOK'
    BY <1>1, <1>3, <2>1, Typed, TypedNext DEF Inv, DirTyped
  <2>3. KeyInv'
    BY <1>3, <2>1, KeyQuiet
  <2>4. \A q \in Ops \ {p}, m \in Names : Active(q) /\ m = op[q].name => Kept(m)
    BY <2>1 DEF Kept, Undisturbed
  <2>5. ASSUME NEW m \in Names PROVE DirInv(m)'
    <3>1. \A q \in Ops : Marking(q, m) => Marking(q, m)'
      BY <1>3, <2>1 DEF Marking, Is, Others
    <3> QED
      BY <2>1, <3>1, DirKept
  <2> QED
    BY <1>3, <2>2, <2>3, <2>4, <2>5, StepInv
<1>5. CASE ~Is(p, System \cup {"duplicate"})
  <2>1. dir' = [dir EXCEPT ![n] = None]
    BY <1>2, <1>5 DEF FillFails
  <2>2. DirInv(n)'
    BY <1>1, <2>1 DEF DirInv, TypeOK
  <2>3. KeyInv'
    BY <1>3, <2>1, KeyStep
  <2> QED
    BY <1>1, <1>2, <1>3, <2>1, <2>2, <2>3, DirStep
<1> QED
  BY <1>4, <1>5

\* A step of p that finds its directory gone and ends.
LEMMA GoneStep ==
    ASSUME Inv, NEW p \in Ops, NEW n \in Names, n = op[p].name, dir[n] = None, dir' = dir,
           UNCHANGED <<tab, edits>>, End(p)
    PROVE  Inv'
<1>1. TypeOK
  BY DEF Inv
<1>2. OpsTyped' /\ Others(p) /\ PlaceInv(p)' /\ MadeInv(p)' /\ WorkInv(p)' /\ ~Holding(p)'
  BY EndInv
<1>3. dir' = [dir EXCEPT ![n] = None]
  BY <1>1 DEF TypeOK
<1>4. DirInv(n)'
  BY DEF DirInv
<1>5. KeyInv'
  BY <1>2, KeyQuiet
<1> QED
  BY <1>2, <1>3, <1>4, <1>5, DirStep

LEMMA RecordInv == ASSUME Inv, NEW p \in Ops, Record(p) PROVE Inv'
<1>1. /\ TypeOK /\ PlaceInv(p) /\ WorkInv(p) /\ OpsTyped /\ pc[p] = "record" /\ UNCHANGED <<tab, edits>>
      /\ op[p] \in Operations /\ op[p] # None /\ made[p] = None /\ staged[p] = FALSE
  BY Typed DEF Inv, Record, PlaceInv, TypeOK, Active
<1>2. PICK n \in Names : n = op[p].name
  BY <1>1, OperationFields
<1>3. CASE dir[n] = None
  BY <1>1, <1>2, <1>3, GoneStep DEF Record
<1>4. CASE dir[n] # None
  <2>1. PICK d \in Projects : d = dir[n]
    BY <1>1, <1>4 DEF TypeOK
  <2>2. PICK e \in Projects : e = [d EXCEPT !.record = d.edit]
    BY DEF Projects
  <2>3. dir' = [dir EXCEPT ![n] = e]
    BY <1>1, <1>2, <1>4, <2>1, <2>2 DEF Record, TypeOK
  <2>4. /\ e.exposed = d.exposed /\ e.seeded = d.seeded /\ e.edit = d.edit /\ e.own = d.own /\ e.whole = d.whole
        /\ e.authored = d.authored /\ e.synced = d.synced /\ e.checked = d.checked /\ e.key = d.key /\ e.synced = d.synced
        /\ e.record = d.edit /\ dir'[n] = e /\ e # None
    BY <1>1, <2>2, <2>3, ProjectFields DEF Projects, TypeOK
  <2>5. Sound(d) /\ (d.exposed \/ (d.seeded <=> ~d.own) \/ \E q \in Ops : Marking(q, n))
    BY <1>4, <2>1 DEF Inv, DirInv
  <2>6. (~d.exposed => d.edit = 0) /\ (Is(p, Jobs) /\ ~d.exposed => ~d.own)
    BY <1>1, <1>2, <1>4, <2>1 DEF WorkInv, Undisturbed
  <2>7. Sound(dir[n])'
    BY <2>4, <2>5, <2>6 DEF Sound
  <2>8. ASSUME Others(p), ~Holding(p)' PROVE KeyInv'
    <3>1. ~e.whole \/ ~Keyed(e) \/ (n \in Whole /\ Keyed(dir[n]) /\ e.key = dir[n].key)
      BY <1>4, <2>1, <2>4 DEF Keyed, Whole
    <3> QED
      BY <2>3, <2>8, <3>1, KeyStep
  <2>9. CASE Is(p, Jobs)
    <3>1. Continue(p, "stamp") /\ "stamp" \in Labels
      BY <1>2, <1>4, <2>9 DEF Record, Labels
    <3>2. OpsTyped' /\ pc'[p] = "stamp" /\ UNCHANGED <<lock, op, made, saw, staged>> /\ Others(p)
      BY <1>1, <3>1, ContinueTyped DEF Others
    <3>3. PlaceInv(p)' /\ MadeInv(p)' /\ ~Holding(p)'
      BY <1>1, <2>9, <3>2 DEF PlaceInv, MadeInv, Holding, Keyed, Is
    <3>4. WorkInv(p)'
      BY <1>2, <2>1, <2>4, <2>6, <3>2 DEF WorkInv, Undisturbed, Is
    <3>5. DirInv(n)'
      <4>1. \A q \in Ops : Marking(q, n) => Marking(q, n)'
        BY <2>9, <3>2 DEF Marking, Is, Others
      <4> QED
        BY <2>4, <2>5, <2>7, <4>1 DEF DirInv
    <3> QED
      BY <1>1, <1>2, <1>4, <2>1, <2>3, <2>4, <2>8, <3>2, <3>3, <3>4, <3>5, DirStep
  <2>10. CASE ~Is(p, Jobs)
    <3>1. End(p)
      BY <1>2, <1>4, <2>10 DEF Record
    <3>2. OpsTyped' /\ Others(p) /\ PlaceInv(p)' /\ MadeInv(p)' /\ WorkInv(p)' /\ ~Holding(p)'
      BY <3>1, EndInv
    <3>3. DirInv(n)'
      <4>1. \A q \in Ops : Marking(q, n) => Marking(q, n)'
        BY <2>10, <3>2 DEF Marking, Is, Others
      <4> QED
        BY <2>4, <2>5, <2>7, <4>1 DEF DirInv
    <3> QED
      BY <1>1, <1>2, <1>4, <2>1, <2>3, <2>4, <2>8, <3>2, <3>3, DirStep
  <2> QED
    BY <2>9, <2>10
<1> QED
  BY <1>3, <1>4

LEMMA StampInv == ASSUME Inv, NEW p \in Ops, Stamp(p) PROVE Inv'
<1>1. /\ TypeOK /\ PlaceInv(p) /\ WorkInv(p) /\ OpsTyped /\ pc[p] = "stamp" /\ UNCHANGED <<tab, edits>>
      /\ op[p] \in Operations /\ op[p] # None /\ End(p)
  BY Typed DEF Inv, Stamp, PlaceInv, TypeOK, Active
<1>2. PICK n \in Names : n = op[p].name
  BY <1>1, OperationFields
<1>3. CASE dir[n] = None
  BY <1>1, <1>2, <1>3, GoneStep DEF Stamp
<1>4. CASE dir[n] # None
  <2>1. PICK d \in Projects : d = dir[n]
    BY <1>1, <1>4 DEF TypeOK
  <2>2. PICK e \in Projects : e = [d EXCEPT !.seeded = TRUE]
    BY DEF Projects
  <2>3. dir' = [dir EXCEPT ![n] = e]
    BY <1>1, <1>2, <1>4, <2>1, <2>2 DEF Stamp, TypeOK
  <2>4. /\ e.exposed = d.exposed /\ e.seeded /\ e.edit = d.edit /\ e.own = d.own /\ e.whole = d.whole
        /\ e.authored = d.authored /\ e.synced = d.synced /\ e.checked = d.checked /\ e.key = d.key /\ e.synced = d.synced
        /\ e.record = d.record /\ dir'[n] = e /\ e # None
    BY <1>1, <2>2, <2>3, ProjectFields DEF Projects, TypeOK
  <2>5. OpsTyped' /\ Others(p) /\ PlaceInv(p)' /\ MadeInv(p)' /\ WorkInv(p)' /\ ~Holding(p)'
    BY <1>1, EndInv
  <2>6. Sound(d) /\ (~d.exposed => ~d.own)
    BY <1>1, <1>2, <1>4, <2>1 DEF Inv, DirInv, WorkInv, Undisturbed, PlaceInv
  <2>7. DirInv(n)'
    BY <2>4, <2>6 DEF DirInv, Sound
  <2>8. KeyInv'
    <3>1. ~e.whole \/ ~Keyed(e) \/ (n \in Whole /\ Keyed(dir[n]) /\ e.key = dir[n].key)
      BY <1>4, <2>1, <2>4 DEF Keyed, Whole
    <3> QED
      BY <2>3, <2>5, <3>1, KeyStep
  <2> QED
    BY <1>1, <1>2, <1>4, <2>1, <2>3, <2>4, <2>5, <2>7, <2>8, DirStep
<1> QED
  BY <1>3, <1>4

(***************************************************************************)
(* Changing, moving and removing one.                                      *)
(***************************************************************************)
\* A step of no operation.
LEMMA OutsideStep ==
    ASSUME Inv, TypeOK', UNCHANGED <<op, pc, made, saw, staged>>,
           \A q \in Ops, n \in Names : Active(q) /\ n = op[q].name => Kept(n),
           \A n \in Names : DirInv(n)', KeyInv'
    PROVE  Inv'
<1>1. ASSUME NEW q \in Ops PROVE PlaceInv(q)' /\ MadeInv(q)' /\ WorkInv(q)'
  <2>1. UNCHANGED <<op[q], pc[q], made[q], saw[q], staged[q]>>
    OBVIOUS
  <2>2. CASE Active(q)
    <3>1. op[q] \in Operations
      BY <2>2 DEF Inv, PlaceInv, TypeOK
    <3>2. PICK n \in Names : n = op[q].name
      BY <3>1, OperationFields
    <3> QED
      BY <2>1, <2>2, <3>2, PlaceKept, WorkKept
  <2>3. CASE ~Active(q)
    <3>1. ~Active(q)'
      BY <2>1, <2>3 DEF Active
    <3> QED
      BY <2>1, <3>1, PlaceKept, WorkIdle
  <2> QED
    BY <2>2, <2>3
<1> QED
  BY <1>1 DEF Inv

LEMMA OpenInv == ASSUME Inv, NEW n \in Names, Open(n) PROVE Inv'
<1>1. /\ TypeOK /\ dir[n] \in Projects /\ tab' = [name |-> n, key |-> dir[n].key, edit |-> dir[n].edit]
      /\ UNCHANGED <<dir, edits, lock, op, pc, made, saw, staged, crashes>>
  BY DEF Inv, Open, TypeOK, ops
<1>2. TypeOK'
  BY <1>1, ProjectFields DEF TypeOK
<1>3. \A q \in Ops, m \in Names : Active(q) /\ m = op[q].name => Kept(m)
  BY <1>1 DEF Kept, Undisturbed
<1>4. ASSUME NEW m \in Names PROVE DirInv(m)'
  BY <1>1, DirKept DEF Marking, Is
<1>5. KeyInv'
  BY <1>1, KeyKept DEF Whole, Holding, Keyed
<1> QED
  BY <1>1, <1>2, <1>3, <1>4, <1>5, OutsideStep

LEMMA SaveInv == ASSUME Inv, Save PROVE Inv'
<1>1. /\ TypeOK /\ tab # None /\ tab \in [name : Names, key : Keys, edit : Edits] /\ edits < MaxEdits
      /\ edits' = edits + 1 /\ UNCHANGED <<tab, lock, op, pc, made, saw, staged, crashes>>
  BY DEF Inv, Save, TypeOK, ops
<1>2. PICK n \in Names, k \in Keys : n = tab.name /\ k = tab.key
  BY <1>1
<1>3. edits + 1 \in Edits
  BY <1>1, WorkspaceAssumption DEF TypeOK, Edits
<1> DEFINE fresh == [whole |-> TRUE, key |-> k, authored |-> TRUE, seeded |-> FALSE,
                     synced |-> FALSE, edit |-> tab.edit, record |-> None,
                     own |-> TRUE, checked |-> FALSE, exposed |-> FALSE]
<1>4. PICK d \in Projects : d = IF dir[n] # None THEN dir[n] ELSE fresh
  <2>1. fresh \in Projects
    BY <1>1, EditFacts DEF Projects
  <2>2. dir[n] # None => dir[n] \in Projects
    BY <1>1 DEF TypeOK
  <2> QED
    BY <2>1, <2>2
<1>5. PICK x \in Edits :
      /\ d.whole /\ d.authored
      /\ dir' = [dir EXCEPT ![n] = [d EXCEPT !.key = k, !.seeded = FALSE, !.edit = x, !.own = TRUE,
                                             !.checked = d.checked /\ k = d.key,
                                             !.exposed = d.exposed \/ Busy(n, None)]]
  <2>1. d.whole /\ d.authored
    BY <1>2, <1>4 DEF Save
  <2>2. \E x \in Edits :
           dir' = [dir EXCEPT ![n] = [d EXCEPT !.key = k, !.seeded = FALSE, !.edit = x, !.own = TRUE,
                                               !.checked = d.checked /\ k = d.key,
                                               !.exposed = d.exposed \/ Busy(n, None)]]
    <3> DEFINE new == IF dir[tab.name] # None THEN dir[tab.name]
                      ELSE [whole |-> TRUE, key |-> tab.key, authored |-> TRUE, seeded |-> FALSE,
                            synced |-> FALSE, edit |-> tab.edit, record |-> None,
                            own |-> TRUE, checked |-> FALSE, exposed |-> FALSE]
    <3>1. \E x \in Edits :
             dir' = [dir EXCEPT ![tab.name] =
                       [new EXCEPT !.key = tab.key, !.seeded = FALSE, !.edit = x, !.own = TRUE,
                                   !.checked = new.checked /\ tab.key = new.key,
                                   !.exposed = new.exposed \/ Busy(tab.name, None)]]
      BY Zenon DEF Save
    <3>2. new = d
      BY <1>2, <1>4
    <3> HIDE DEF new
    <3> QED
      BY <1>2, <3>1, <3>2
  <2> QED
    BY <2>1, <2>2
<1>6. PICK e \in Projects :
          e = [d EXCEPT !.key = k, !.seeded = FALSE, !.edit = x, !.own = TRUE,
                        !.checked = d.checked /\ k = d.key, !.exposed = d.exposed \/ Busy(n, None)]
  <2>1. PICK b \in BOOLEAN : b = (d.checked /\ k = d.key)
    OBVIOUS
  <2>2. PICK c \in BOOLEAN : c = (d.exposed \/ Busy(n, None))
    OBVIOUS
  <2>3. [d EXCEPT !.key = k, !.seeded = FALSE, !.edit = x, !.own = TRUE,
                  !.checked = b, !.exposed = c] \in Projects
    BY <1>3 DEF Projects
  <2> QED
    BY <2>1, <2>2, <2>3
<1>7. /\ e.whole /\ e.authored /\ e.key = k /\ ~e.seeded /\ e.own /\ e.record = d.record /\ e.synced = d.synced
      /\ e.checked <=> (d.checked /\ k = d.key)
      /\ e.exposed <=> (d.exposed \/ Busy(n, None))
  BY <1>5, <1>6 DEF Projects
<1>8. dir' = [dir EXCEPT ![n] = e] /\ dir'[n] = e /\ e # None
  BY <1>1, <1>5, <1>6, ProjectFields DEF TypeOK
<1>9. TypeOK'
  BY <1>1, <1>3, <1>8 DEF TypeOK
<1>10. ASSUME NEW q \in Ops, NEW m \in Names, Active(q), m = op[q].name PROVE Kept(m)
  <2>1. CASE m # n
    BY <1>1, <1>8, <2>1 DEF Kept, Undisturbed, TypeOK
  <2>2. CASE m = n
    <3>1. q \in Ops \ {None}
      BY WorkspaceAssumption
    <3>2. Busy(n, None)
      BY <1>10, <2>2, <3>1 DEF Busy
    <3> QED
      BY <1>7, <1>8, <2>2, <3>2 DEF Kept, Undisturbed
  <2> QED
    BY <2>1, <2>2
<1>11. ASSUME NEW m \in Names PROVE DirInv(m)'
  <2>1. CASE m # n
    <3>1. dir'[m] = dir[m]
      BY <1>1, <1>8, <2>1 DEF TypeOK
    <3> QED
      BY <1>1, <3>1, DirKept DEF Marking, Is
  <2>2. CASE m = n
    <3>1. (~d.exposed => d.record \in {0, Stale, None}) /\ ~d.synced
      BY <1>4, <1>5 DEF Inv, DirInv, Sound
    <3>2. Sound(dir[n])'
      BY <1>7, <1>8, <3>1 DEF Sound
    <3> QED
      BY <1>7, <1>8, <2>2, <3>2 DEF DirInv
  <2> QED
    BY <2>1, <2>2
<1>12. KeyInv'
  <2>1. ASSUME NEW m \in Names, m \in Whole', Keyed(dir'[m])
        PROVE  m \in Whole /\ Keyed(dir[m]) /\ dir'[m].key = dir[m].key
    <3>1. CASE m # n
      BY <1>1, <1>8, <2>1, <3>1 DEF Whole, TypeOK
    <3>2. CASE m = n
      <4>1. d.checked /\ k = d.key
        BY <1>7, <1>8, <2>1, <3>2 DEF Keyed
      <4>2. dir[n] # None /\ d = dir[n]
        BY <1>4, <4>1
      <4> QED
        BY <1>5, <1>7, <1>8, <3>2, <4>1, <4>2 DEF Keyed, Whole
    <3> QED
      BY <3>1, <3>2
  <2>2. \A q \in Ops : Holding(q)' => Holding(q) /\ made'[q].key = made[q].key
    BY <1>1 DEF Holding, Keyed
  <2> QED
    BY <2>1, <2>2, KeyKept
<1> QED
  BY <1>1, <1>9, <1>10, <1>11, <1>12, OutsideStep

LEMMA DeleteInv == ASSUME Inv, NEW p \in Ops, Delete(p) PROVE Inv'
<1>1. /\ TypeOK /\ PlaceInv(p) /\ pc[p] = "check" /\ End(p) /\ UNCHANGED <<tab, edits>>
      /\ op[p] \in Operations /\ dir' = [dir EXCEPT ![op[p].name] = None]
  BY DEF Inv, Delete, PlaceInv, TypeOK, Active
<1>2. PICK n \in Names : n = op[p].name
  BY <1>1, OperationFields
<1>3. OpsTyped' /\ Others(p) /\ PlaceInv(p)' /\ MadeInv(p)' /\ WorkInv(p)' /\ ~Holding(p)'
  BY <1>1, EndInv
<1>4. DirInv(n)'
  BY <1>1, <1>2 DEF DirInv, TypeOK
<1>5. KeyInv'
  BY <1>1, <1>2, <1>3, KeyStep
<1> QED
  BY <1>1, <1>2, <1>3, <1>4, <1>5, DirStep

LEMMA RenameInv == ASSUME Inv, NEW p \in Ops, Rename(p) PROVE Inv'
<1>1. /\ TypeOK /\ PlaceInv(p) /\ KeyInv /\ pc[p] = "check" /\ End(p) /\ UNCHANGED <<tab, edits>>
      /\ op[p] \in Operations
  BY DEF Inv, Rename, PlaceInv, TypeOK, Active
<1>2. PICK n \in Names, m \in Names : n = op[p].name /\ m = op[p].from
  BY <1>1, OperationFields
<1>3. dir[m] # None /\ dir[n] = None /\ m # n
  BY <1>2 DEF Rename
<1>4. PICK d \in Projects : d = dir[m]
  BY <1>1, <1>3 DEF TypeOK
<1>5. PICK e \in Projects : e = [d EXCEPT !.exposed = d.exposed \/ Busy(n, p) \/ Busy(m, p)]
  <2>1. PICK b \in BOOLEAN : b = (d.exposed \/ Busy(n, p) \/ Busy(m, p))
    OBVIOUS
  <2>2. [d EXCEPT !.exposed = b] \in Projects
    BY DEF Projects
  <2> QED
    BY <2>1, <2>2
<1>6. dir' = [dir EXCEPT ![n] = e, ![m] = None]
  BY <1>2, <1>4, <1>5 DEF Rename
<1>7. dir'[n] = e /\ dir'[m] = None /\ \A l \in Names \ {n, m} : dir'[l] = dir[l]
  BY <1>1, <1>3, <1>6 DEF TypeOK
<1>8. /\ e.exposed <=> (d.exposed \/ Busy(n, p) \/ Busy(m, p))
      /\ e.whole = d.whole /\ e.key = d.key /\ e.authored = d.authored /\ e.synced = d.synced /\ e.seeded = d.seeded
      /\ e.edit = d.edit /\ e.record = d.record /\ e.own = d.own /\ e.checked = d.checked /\ e # None
  BY <1>5, ProjectFields DEF Projects
<1>9. OpsTyped' /\ Others(p) /\ PlaceInv(p)' /\ MadeInv(p)' /\ WorkInv(p)' /\ ~Holding(p)'
  BY <1>1, EndInv
<1>10. TypeOK'
  <2>1. DirTyped'
    BY <1>1, <1>6 DEF TypeOK, DirTyped
  <2> QED
    BY <1>9, <2>1, TypedNext
<1>11. ASSUME NEW q \in Ops \ {p}, NEW l \in Names, Active(q), l = op[q].name PROVE Kept(l)
  <2>1. CASE l # n /\ l # m
    BY <1>7, <2>1 DEF Kept, Undisturbed
  <2>2. CASE l = m
    BY <1>7, <2>2 DEF Kept, Undisturbed
  <2>3. CASE l = n
    BY <1>7, <1>8, <1>11, <2>3 DEF Kept, Undisturbed, Busy
  <2> QED
    BY <2>1, <2>2, <2>3
<1>12. ASSUME NEW l \in Names PROVE DirInv(l)'
  <2>1. CASE l # n /\ l # m
    <3>1. \A q \in Ops : Marking(q, l) => Marking(q, l)'
      BY <1>1, <1>9 DEF Marking, Is, Others
    <3> QED
      BY <1>7, <2>1, <3>1, DirKept
  <2>2. CASE l = m
    BY <1>7, <2>2 DEF DirInv
  <2>3. CASE l = n
    <3>1. Sound(d) /\ (d.exposed \/ (d.seeded <=> ~d.own) \/ \E q \in Ops : Marking(q, m))
      BY <1>3, <1>4 DEF Inv, DirInv
    <3>2. (\E q \in Ops : Marking(q, m)) => Busy(m, p)
      BY <1>1 DEF Marking, Busy, Active
    <3>3. Sound(dir[n])'
      BY <1>7, <1>8, <3>1 DEF Sound
    <3> QED
      BY <1>7, <1>8, <2>3, <3>1, <3>2, <3>3 DEF DirInv
  <2> QED
    BY <2>1, <2>2, <2>3
<1>13. KeyInv'
  <2>1. ASSUME NEW l \in Whole', Keyed(dir'[l])
        PROVE  /\ l \in Names /\ l # m
               /\ l # n => l \in Whole /\ Keyed(dir[l]) /\ dir'[l].key = dir[l].key
               /\ l = n => m \in Whole /\ Keyed(dir[m]) /\ dir'[l].key = dir[m].key
    <3>1. l \in Names /\ l # m /\ dir'[l].whole
      BY <1>7 DEF Whole
    <3>2. CASE l # n
      BY <1>7, <2>1, <3>1, <3>2 DEF Whole, Keyed
    <3>3. CASE l = n
      BY <1>3, <1>4, <1>7, <1>8, <2>1, <3>1, <3>3 DEF Whole, Keyed
    <3> QED
      BY <3>1, <3>2, <3>3
  <2>2. \A q \in Ops : Holding(q)' => Holding(q) /\ made'[q].key = made[q].key
    BY <1>9 DEF Others, Holding, Keyed
  <2>3. ASSUME NEW l \in Whole', NEW i \in Whole', l # i, Keyed(dir'[l]), Keyed(dir'[i])
        PROVE  dir'[l].key # dir'[i].key
    BY <1>1, <2>1, <2>3 DEF KeyInv, KeysDistinct, Keyed
  <2>4. ASSUME NEW q \in Ops, Holding(q)', NEW l \in Whole', Keyed(dir'[l])
        PROVE  dir'[l].key # made'[q].key
    BY <1>1, <2>1, <2>2, <2>4 DEF KeyInv
  <2>5. \A q \in Ops : Holding(q)' => \A r \in Ops \ {q} : ~Holding(r)'
    BY <1>1, <2>2 DEF KeyInv
  <2>6. KeysDistinct'
    BY <2>3 DEF KeysDistinct, Keyed, Whole
  <2>7. \A q \in Ops : Holding(q)' =>
            /\ \A l \in Whole' : Keyed(dir'[l]) => dir'[l].key # made'[q].key
            /\ \A r \in Ops \ {q} : ~Holding(r)'
    BY <2>4, <2>5
  <2> QED
    BY <2>6, <2>7 DEF KeyInv, Keyed
<1> QED
  BY <1>9, <1>10, <1>11, <1>12, <1>13, StepInv

\* What p is to put in place without looking for its key.
LEMMA UncheckedProject ==
    ASSUME Inv, NEW p \in Ops, op[p] # None, NEW k \in Keys, NEW r \in {None, 0}
    PROVE  LET d == [Project(p, k) EXCEPT !.checked = FALSE, !.record = r]
           IN  /\ d \in Projects /\ Sound(d) /\ ~d.exposed /\ ~d.seeded /\ d.edit = 0
               /\ d.own <=> ~Is(p, Jobs)
               /\ ~Keyed(d)
<1>1. PICK e \in Projects :
          e = Project(p, k) /\ Sound(e) /\ ~e.exposed /\ ~e.seeded /\ e.edit = 0 /\ (e.own <=> ~Is(p, Jobs))
  BY NewProject
<1>2. PICK d \in Projects : d = [e EXCEPT !.checked = FALSE, !.record = r]
  BY EditFacts DEF Projects
<1>3. /\ d.exposed = e.exposed /\ d.seeded = e.seeded /\ d.edit = e.edit /\ d.own = e.own
      /\ d.authored = e.authored /\ d.synced = e.synced /\ d.record = r /\ ~d.checked
  BY <1>2 DEF Projects
<1>4. Sound(d) /\ ~Keyed(d)
  BY <1>1, <1>3 DEF Sound, Keyed
<1> QED
  BY <1>1, <1>2, <1>3, <1>4

LEMMA ResyncInv == ASSUME Inv, NEW p \in Ops, Resync(p) PROVE Inv'
<1>1. /\ TypeOK /\ PlaceInv(p) /\ OpsTyped /\ pc[p] = "resync" /\ dir' = dir /\ UNCHANGED <<tab, edits>>
      /\ op[p] \in Operations /\ op[p] # None /\ staged[p] = FALSE /\ Is(p, {"sync"})
  BY Typed DEF Inv, Resync, PlaceInv, TypeOK, Active
<1>2. PICK n \in Names : n = op[p].name
  BY <1>1, OperationFields
<1>3. OpsTyped' /\ Others(p) /\ PlaceInv(p)' /\ MadeInv(p)' /\ WorkInv(p)' /\ ~Holding(p)'
  <2>1. CASE End(p)
    BY <2>1, EndInv
  <2>2. CASE ~(dir[n] # None /\ ~dir[n].synced)
    <3>1. PICK k \in Keys : made' = [made EXCEPT ![p] = [Project(p, k) EXCEPT !.checked = FALSE]]
      BY <1>2, <2>2 DEF Resync
    <3>2. PICK d \in Projects :
              /\ d = [Project(p, k) EXCEPT !.checked = FALSE] /\ Sound(d) /\ ~d.exposed /\ ~d.seeded
              /\ d.edit = 0 /\ (d.own <=> ~Is(p, Jobs)) /\ ~Keyed(d)
      <4>1. Project(p, k).record = None /\ Project(p, k) \in Projects
        BY <1>1, NewProject
      <4>2. [Project(p, k) EXCEPT !.checked = FALSE, !.record = None] = [Project(p, k) EXCEPT !.checked = FALSE]
        BY <4>1 DEF Projects
      <4> QED
        BY <1>1, <4>2, UncheckedProject
    <3>3. /\ pc' = [pc EXCEPT ![p] = IF dir[n] = None THEN "claim" ELSE "remove"] /\ lock' = p
          /\ UNCHANGED <<op, saw, staged, crashes>>
      BY <1>2, <2>2 DEF Resync, Goto
    <3>4. made' = [made EXCEPT ![p] = d]
      BY <3>1, <3>2
    <3>5. /\ OpsTyped' /\ Others(p) /\ made'[p] = d /\ d # None /\ staged'[p] = FALSE
          /\ pc'[p] = IF dir[n] = None THEN "claim" ELSE "remove"
      BY <1>1, <3>3, <3>4, ProjectFields DEF OpsTyped, Labels, Others
    <3>6. PlaceInv(p)'
      BY <1>1, <3>2, <3>3, <3>5 DEF PlaceInv, Is, Keyed
    <3>7. Sound(made[p])'
      BY <3>2, <3>5 DEF Sound
    <3>8. MadeInv(p)' /\ ~Holding(p)'
      BY <3>2, <3>3, <3>5, <3>7 DEF MadeInv, Holding, Keyed, Is
    <3>9. WorkInv(p)'
      BY <1>1, <1>2, <2>2, <3>3, <3>5 DEF WorkInv, Undisturbed, Is
    <3> QED
      BY <3>5, <3>6, <3>8, <3>9
  <2> QED
    BY <1>2, <2>1, <2>2 DEF Resync
<1>4. TypeOK'
  BY <1>1, <1>3, Typed, TypedNext DEF Inv, DirTyped
<1>5. KeyInv'
  BY <1>1, <1>3, KeyQuiet
<1> QED
  BY <1>1, <1>3, <1>4, <1>5, QuietStep

LEMMA CompareInv == ASSUME Inv, NEW p \in Ops, Compare(p) PROVE Inv'
<1>1. /\ TypeOK /\ PlaceInv(p) /\ OpsTyped /\ pc[p] = "compare" /\ dir' = dir /\ UNCHANGED <<tab, edits>>
      /\ op[p] \in Operations /\ op[p] # None /\ staged[p] = FALSE /\ made[p] = None /\ Is(p, {"system"})
  BY Typed DEF Inv, Compare, PlaceInv, TypeOK, Active
<1>2. PICK n \in Names : n = op[p].name
  BY <1>1, OperationFields
<1>3. OpsTyped' /\ Others(p) /\ PlaceInv(p)' /\ MadeInv(p)' /\ WorkInv(p)' /\ ~Holding(p)'
  <2>1. CASE End(p)
    BY <2>1, EndInv
  <2>2. CASE dir[n] # None /\ (dir[n].record = None \/ dir[n].record = dir[n].edit)
    <3>1. PICK d \in Projects : d = dir[n]
      BY <1>1, <2>2 DEF TypeOK
    <3>2. PICK s \in Sights : s = [record |-> d.record, edit |-> d.edit]
      BY ProjectFields DEF Sights
    <3>3. s.record = d.record /\ s.edit = d.edit /\ s # None
      BY <3>2, WorkspaceAssumption
    <3>4. /\ saw' = [saw EXCEPT ![p] = s] /\ pc' = [pc EXCEPT ![p] = "stage"]
          /\ UNCHANGED <<lock, op, made, staged, crashes>>
      BY <1>2, <2>2, <3>1, <3>2 DEF Compare, Goto
    <3>5. OpsTyped' /\ Others(p) /\ saw'[p] = s /\ pc'[p] = "stage" /\ made'[p] = None /\ staged'[p] = FALSE
      BY <1>1, <3>4 DEF OpsTyped, Labels, Others
    <3>6. PlaceInv(p)'
      BY <1>1, <3>3, <3>4, <3>5 DEF PlaceInv, Is
    <3>7. MadeInv(p)' /\ ~Holding(p)'
      BY <3>5 DEF MadeInv, Holding, Keyed
    <3>8. ~d.exposed /\ d.record # None => d.edit = 0
      <4>1. Sound(d) /\ d.edit \in Edits
        BY <2>2, <3>1, ProjectFields DEF Inv, DirInv
      <4> QED
        BY <2>2, <3>1, <4>1, EditFacts DEF Sound
    <3>9. WorkInv(p)'
      BY <1>1, <1>2, <3>1, <3>3, <3>4, <3>5, <3>8 DEF WorkInv, Undisturbed
    <3> QED
      BY <3>5, <3>6, <3>7, <3>9
  <2> QED
    BY <1>2, <2>1, <2>2 DEF Compare
<1>4. TypeOK'
  BY <1>1, <1>3, Typed, TypedNext DEF Inv, DirTyped
<1>5. KeyInv'
  BY <1>1, <1>3, KeyQuiet
<1> QED
  BY <1>1, <1>3, <1>4, <1>5, QuietStep

LEMMA StageInv == ASSUME Inv, NEW p \in Ops, Stage(p) PROVE Inv'
<1>1. /\ TypeOK /\ PlaceInv(p) /\ WorkInv(p) /\ OpsTyped /\ pc[p] = "stage" /\ dir' = dir
      /\ UNCHANGED <<tab, edits>> /\ op[p] \in Operations /\ op[p] # None /\ Is(p, {"system"})
  BY Typed DEF Inv, Stage, PlaceInv, TypeOK, Active
<1>2. PICK n \in Names : n = op[p].name
  BY <1>1, OperationFields
<1>3. OpsTyped' /\ Others(p) /\ PlaceInv(p)' /\ MadeInv(p)' /\ WorkInv(p)' /\ ~Holding(p)'
  <2>1. CASE End(p)
    BY <2>1, EndInv
  <2>2. CASE ~(saw[p].record = None /\ saw[p].edit # 0)
    <3>1. PICK d \in Projects :
              /\ d = [Project(p, Slug[n]) EXCEPT !.checked = FALSE, !.record = 0]
              /\ Sound(d) /\ ~d.exposed /\ ~d.seeded /\ d.edit = 0 /\ (d.own <=> ~Is(p, Jobs)) /\ ~Keyed(d)
      <4>1. Slug[n] \in Keys
        BY WorkspaceAssumption
      <4> QED
        BY <1>1, <4>1, UncheckedProject
    <3>2. /\ made' = [made EXCEPT ![p] = d] /\ staged' = [staged EXCEPT ![p] = TRUE]
          /\ pc' = [pc EXCEPT ![p] = "remove"] /\ UNCHANGED <<lock, op, saw, crashes>>
      BY <1>2, <2>2, <3>1 DEF Stage, Goto
    <3>3. OpsTyped' /\ Others(p) /\ made'[p] = d /\ pc'[p] = "remove" /\ staged'[p] = TRUE /\ d # None
      BY <1>1, <3>2, ProjectFields DEF OpsTyped, Labels, Others
    <3>4. PlaceInv(p)'
      BY <1>1, <3>1, <3>2, <3>3 DEF PlaceInv, Is, Keyed
    <3>5. Sound(made[p])'
      BY <3>1, <3>3 DEF Sound
    <3>6. MadeInv(p)' /\ ~Holding(p)'
      BY <3>1, <3>2, <3>3, <3>5 DEF MadeInv, Holding, Keyed, Is
    <3>7. Undisturbed(n) => dir[n].edit = 0
      BY <1>1, <1>2, <2>2 DEF WorkInv
    <3>8. WorkInv(p)'
      BY <1>1, <1>2, <3>2, <3>3, <3>7 DEF WorkInv, Undisturbed, Is
    <3> QED
      BY <3>3, <3>4, <3>6, <3>8
  <2> QED
    BY <2>1, <2>2 DEF Stage
<1>4. TypeOK'
  BY <1>1, <1>3, Typed, TypedNext DEF Inv, DirTyped
<1>5. KeyInv'
  BY <1>1, <1>3, KeyQuiet
<1> QED
  BY <1>1, <1>3, <1>4, <1>5, QuietStep

LEMMA RemoveInv == ASSUME Inv, NEW p \in Ops, Remove(p) PROVE Inv'
<1>1. /\ TypeOK /\ PlaceInv(p) /\ MadeInv(p) /\ OpsTyped /\ pc[p] = "remove" /\ UNCHANGED <<tab, edits>>
      /\ op[p] \in Operations /\ op[p] # None /\ made[p] # None /\ Is(p, {"system", "sync"}) /\ Active(p)
  BY Typed DEF Inv, Remove, PlaceInv, TypeOK, Active
<1>2. PICK n \in Names : n = op[p].name
  BY <1>1, OperationFields
<1>3. CASE dir[n] = None
  BY <1>1, <1>2, <1>3, GoneStep DEF Remove
<1>4. CASE dir[n] # None
  <2>1. PICK label \in {"claim", "move"} :
            Continue(p, label) /\ label = IF Is(p, {"sync"}) THEN "claim" ELSE "move"
    BY <1>2, <1>4 DEF Remove
  <2>2. dir' = [dir EXCEPT ![n] = None]
    BY <1>2, <1>4 DEF Remove
  <2>3. OpsTyped' /\ pc'[p] = label /\ UNCHANGED <<lock, op, made, saw, staged>> /\ Others(p)
    BY <1>1, <2>1, ContinueTyped DEF Others, Labels
  <2>4. PlaceInv(p)'
    BY <1>1, <2>1, <2>3 DEF PlaceInv, Is, Keyed
  <2>5. MadeInv(p)' /\ ~Holding(p)'
    BY <1>1, <2>3 DEF MadeInv, Sound, Is, Active, Holding, Keyed, PlaceInv
  <2>6. WorkInv(p)'
    BY <2>1, <2>3 DEF WorkInv
  <2>7. DirInv(n)'
    BY <1>1, <2>2 DEF DirInv, TypeOK
  <2>8. KeyInv'
    BY <2>2, <2>3, <2>5, KeyStep
  <2> QED
    BY <1>1, <1>2, <2>2, <2>3, <2>4, <2>5, <2>6, <2>7, <2>8, DirStep
<1> QED
  BY <1>3, <1>4

LEMMA MoveInv == ASSUME Inv, NEW p \in Ops, Move(p) PROVE Inv'
<1>1. /\ TypeOK /\ PlaceInv(p) /\ MadeInv(p) /\ pc[p] = "move" /\ UNCHANGED <<tab, edits>> /\ End(p)
      /\ op[p] \in Operations /\ op[p] # None /\ made[p] \in Projects /\ Is(p, {"system"}) /\ Active(p)
  BY DEF Inv, Move, PlaceInv, TypeOK, Active
<1>2. PICK n \in Names : n = op[p].name
  BY <1>1, OperationFields
<1>3. OpsTyped' /\ Others(p) /\ PlaceInv(p)' /\ MadeInv(p)' /\ WorkInv(p)' /\ ~Holding(p)'
  BY <1>1, EndInv
<1>4. CASE dir[n] # None
  <2>1. dir' = dir
    BY <1>2, <1>4 DEF Move
  <2>2. TypeOK'
    BY <1>1, <1>3, <2>1, Typed, TypedNext DEF Inv, DirTyped
  <2>3. KeyInv'
    BY <1>3, <2>1, KeyQuiet
  <2> QED
    BY <1>1, <1>3, <2>1, <2>2, <2>3, QuietStep
<1>5. CASE dir[n] = None
  <2>1. PICK d \in Projects : d = made[p] /\ d # None
    BY <1>1, ProjectFields
  <2>2. Sound(d) /\ ~d.exposed /\ ~d.seeded /\ d.own /\ ~Keyed(d)
    <3>1. ~Is(p, Jobs)
      BY <1>1 DEF Is, Jobs
    <3> QED
      BY <1>1, <2>1, <3>1 DEF MadeInv, PlaceInv
  <2>3. PICK e \in Projects : e = [d EXCEPT !.exposed = Busy(n, p)]
    <3>1. PICK b \in BOOLEAN : b = Busy(n, p)
      BY DEF Busy
    <3>2. [d EXCEPT !.exposed = b] \in Projects
      BY DEF Projects
    <3> QED
      BY <3>1, <3>2
  <2>4. /\ (Busy(n, p) => e.exposed) /\ e.seeded = d.seeded /\ e.edit = d.edit /\ e.own = d.own
        /\ e.authored = d.authored /\ e.synced = d.synced /\ e.record = d.record /\ e.checked = d.checked /\ e # None
    BY <2>3, ProjectFields DEF Projects
  <2>5. dir' = [dir EXCEPT ![n] = e] /\ dir'[n] = e
    BY <1>1, <1>2, <1>5, <2>1, <2>3 DEF Move, TypeOK
  <2>6. Sound(dir[n])' /\ ~Keyed(e)
    BY <2>1, <2>2, <2>4, <2>5 DEF Sound, Keyed
  <2>7. DirInv(n)'
    BY <2>2, <2>4, <2>5, <2>6 DEF DirInv
  <2>8. KeyInv'
    BY <1>3, <2>5, <2>6, KeyStep
  <2> QED
    BY <1>1, <1>2, <1>3, <2>4, <2>5, <2>7, <2>8, DirStep
<1> QED
  BY <1>4, <1>5

LEMMA KillInv ==
    ASSUME Inv, NEW P \in SUBSET Ops, \A p \in P : Active(p), Kill(P)
    PROVE  Inv'
<1>1. /\ TypeOK /\ crashes < MaxCrashes /\ crashes' = crashes + 1
      /\ pc' = [p \in Ops |-> IF p \in P THEN "killed" ELSE pc[p]]
      /\ dir' = [n \in Names |-> IF dir[n] # None /\ \E p \in P : n = op[p].name
                                 THEN [dir[n] EXCEPT !.exposed = TRUE] ELSE dir[n]]
      /\ lock' = (IF lock \in P THEN None ELSE lock)
      /\ op' = [p \in Ops |-> IF p \in P THEN None ELSE op[p]]
      /\ UNCHANGED <<tab, edits, made, saw, staged>>
  BY DEF Inv, Kill
<1>2. ASSUME NEW n \in Names
      PROVE  \/ dir'[n] = dir[n] /\ (dir[n] = None \/ \A p \in P : n # op[p].name)
             \/ /\ dir[n] \in Projects /\ dir'[n] \in Projects /\ dir'[n] = [dir[n] EXCEPT !.exposed = TRUE]
                /\ dir'[n].exposed /\ dir'[n].whole = dir[n].whole /\ dir'[n].key = dir[n].key
                /\ dir'[n].authored = dir[n].authored /\ dir'[n].synced = dir[n].synced /\ dir'[n].edit = dir[n].edit
                /\ dir'[n].record = dir[n].record /\ dir'[n].checked = dir[n].checked
                /\ dir'[n].synced = dir[n].synced /\ dir[n] # None
  <2>1. CASE dir[n] # None /\ \E p \in P : n = op[p].name
    <3>1. dir[n] \in Projects /\ dir'[n] = [dir[n] EXCEPT !.exposed = TRUE]
      BY <1>1, <2>1 DEF TypeOK
    <3> QED
      BY <2>1, <3>1 DEF Projects
  <2>2. CASE ~(dir[n] # None /\ \E p \in P : n = op[p].name)
    BY <1>1, <2>2
  <2> QED
    BY <2>1, <2>2
<1>3. TypeOK'
  <2>1. dir' \in [Names -> Projects \cup {None}]
    BY <1>1, <1>2 DEF TypeOK
  <2>2. crashes' \in 0..MaxCrashes
    BY <1>1, WorkspaceAssumption DEF TypeOK
  <2> QED
    BY <1>1, <2>1, <2>2 DEF TypeOK
<1>4. ASSUME NEW q \in P PROVE PlaceInv(q)' /\ MadeInv(q)' /\ WorkInv(q)'
  <2>1. q \in Ops /\ pc'[q] = "killed" /\ op'[q] = None /\ PlaceInv(q) /\ MadeInv(q)
    BY <1>1 DEF Inv
  <2>2. PlaceInv(q)' /\ WorkInv(q)'
    BY <2>1 DEF PlaceInv, WorkInv, Active
  <2>3. MadeInv(q)'
    BY <1>1, <2>1 DEF MadeInv, Active, Sound
  <2> QED
    BY <2>2, <2>3
<1>5. ASSUME NEW q \in Ops \ P PROVE PlaceInv(q)' /\ MadeInv(q)' /\ WorkInv(q)'
  <2>1. UNCHANGED <<op[q], pc[q], made[q], saw[q], staged[q]>>
    BY <1>1
  <2>2. CASE Active(q)
    <3>1. op[q] \in Operations
      BY <1>1, <2>2 DEF Inv, PlaceInv, TypeOK
    <3>2. PICK n \in Names : n = op[q].name
      BY <3>1, OperationFields
    <3>3. Kept(n)
      BY <1>2 DEF Kept, Undisturbed
    <3> QED
      BY <2>1, <3>2, <3>3, PlaceKept, WorkKept
  <2>3. CASE ~Active(q)
    <3>1. ~Active(q)'
      BY <2>1, <2>3 DEF Active
    <3> QED
      BY <2>1, <3>1, PlaceKept, WorkIdle
  <2> QED
    BY <2>2, <2>3
<1>6. ASSUME NEW n \in Names PROVE DirInv(n)'
  <2>1. CASE dir'[n] = dir[n] /\ (dir[n] = None \/ \A p \in P : n # op[p].name)
    <3>1. CASE dir[n] = None
      BY <2>1, <3>1 DEF DirInv
    <3>2. CASE \A p \in P : n # op[p].name
      <4>1. \A q \in Ops : Marking(q, n) => Marking(q, n)'
        BY <1>1, <3>2 DEF Marking, Is
      <4> QED
        BY <2>1, <4>1, DirKept
    <3> QED
      BY <2>1, <3>1, <3>2
  <2>2. CASE ~(dir'[n] = dir[n] /\ (dir[n] = None \/ \A p \in P : n # op[p].name))
    <3>1. /\ dir'[n].exposed /\ dir'[n].authored = dir[n].authored /\ dir'[n].edit = dir[n].edit
          /\ dir'[n].record = dir[n].record /\ dir'[n].synced = dir[n].synced /\ dir[n] # None
      BY <1>2, <2>2
    <3>2. Sound(dir[n])
      BY <3>1 DEF Inv, DirInv
    <3> QED
      BY <3>1, <3>2 DEF DirInv, Sound
  <2> QED
    BY <2>1, <2>2
<1>7. KeyInv'
  <2>1. \A n \in Names : n \in Whole' /\ Keyed(dir'[n]) =>
            n \in Whole /\ Keyed(dir[n]) /\ dir'[n].key = dir[n].key
    BY <1>2 DEF Whole, Keyed
  <2>2. \A q \in Ops : Holding(q)' => Holding(q) /\ made'[q].key = made[q].key
    BY <1>1 DEF Holding, Keyed
  <2> QED
    BY <2>1, <2>2, KeyKept
<1> QED
  BY <1>3, <1>4, <1>5, <1>6, <1>7 DEF Inv

(***************************************************************************)
(* The theorems.                                                           *)
(***************************************************************************)
LEMMA StepsInv == ASSUME Inv, NEW p \in Ops, Step(p) PROVE Inv'
<1>1. ASSUME ProvisionProject(p) PROVE Inv'
  BY <1>1, LookInv, WipeInv, RecordInv, StampInv DEF ProvisionProject
<1>2. ASSUME Reprovision(p) PROVE Inv'
  BY <1>2, CompareInv, StageInv, RemoveInv, MoveInv DEF Reprovision
<1>3. ASSUME Make(p) PROVE Inv'
  BY <1>3, CheckInv, RefuseInv, ClaimInv, FillInv, FillFailsInv DEF Make
<1> QED
  BY <1>1, <1>2, <1>3, ChooseInv, ResyncInv, RenameInv, DeleteInv DEF Step

LEMMA NextInv == Inv /\ [Next]_vars => Inv'
<1>1. ASSUME Inv, UNCHANGED vars PROVE Inv'
  <2>1. UNCHANGED <<dir, tab, edits, lock, op, pc, made, saw, staged, crashes>>
    BY <1>1 DEF vars, ops
  <2>2. TypeOK'
    BY <1>1, <2>1 DEF Inv, TypeOK
  <2>3. \A q \in Ops, m \in Names : Active(q) /\ m = op[q].name => Kept(m)
    BY <2>1 DEF Kept, Undisturbed
  <2>4. \A m \in Names : DirInv(m)'
    BY <1>1, <2>1, DirKept DEF Marking, Is
  <2>5. KeyInv'
    BY <1>1, <2>1, KeyKept DEF Whole, Holding, Keyed
  <2> QED
    BY <1>1, <2>1, <2>2, <2>3, <2>4, <2>5, OutsideStep
<1>2. ASSUME Inv, Kill({p \in Ops : Active(p) /\ ~Is(p, Commands)}) PROVE Inv'
  BY <1>2, KillInv
<1>3. ASSUME Inv, NEW p \in Ops, Active(p), Kill({p}) PROVE Inv'
  BY <1>3, KillInv
<1> QED
  BY <1>1, <1>2, <1>3, AskInv, StepsInv, OpenInv, SaveInv DEF Next

LEMMA SpecInv == Spec => []Inv
<1> QED
  BY InitInv, NextInv, PTL DEF Spec

\* The state of the workspace keeps its type.
THEOREM WorkspaceTypeOK == Spec => []TypeOK
<1>1. Inv => TypeOK
  BY DEF Inv
<1> QED
  BY <1>1, SpecInv, PTL

\* However projects are created, renamed, copied, saved, re-provisioned and deleted, and
\* whatever is killed, no two authored projects whose directory deploy_dirs_in_use found
\* free deploy into the same one.
THEOREM WorkspaceKeysDistinct == Spec => []KeysDistinct
<1>1. Inv => KeysDistinct
  BY DEF Inv, KeyInv
<1> QED
  BY <1>1, SpecInv, PTL

\* At rest _has_user_project answers whether there is a project that the user made,
\* saved or copied, where it reads the directory the projects are in, unless operations
\* on a name overlapped or one was killed.
THEOREM WorkspaceOnboardingTrue == Spec => []OnboardingTrue
<1>1. Inv => OnboardingTrue
  <2> SUFFICES ASSUME Inv, Elsewhere = None, \A p \in Ops : ~Active(p) /\ pc[p] # "killed",
                      \A n \in Names : dir[n] # None => ~dir[n].exposed
               PROVE  HasUserProject <=> \E n \in Names : dir[n] # None /\ dir[n].own
    BY DEF OnboardingTrue
  <2>1. \A p \in Ops : ~staged[p]
    BY DEF Inv, PlaceInv, Active
  <2>2. ASSUME NEW n \in Names, dir[n] # None PROVE ~dir[n].seeded <=> dir[n].own
    <3>1. \A p \in Ops : ~Marking(p, n)
      BY DEF Marking, Active
    <3>2. dir[n] \in Projects
      BY <2>2 DEF Inv, TypeOK
    <3> QED
      BY <2>2, <3>1, <3>2, ProjectFields DEF Inv, DirInv
  <2> QED
    BY <2>1, <2>2 DEF HasUserProject
<1> QED
  BY <1>1, SpecInv, PTL

\* Who may remove a whole project that no operation but its own has touched.
Removes(p, n) ==
    \/ Is(p, {"delete"} \cup Forced) /\ op[p].name = n
    \/ Is(p, {"rename"}) /\ op[p].from = n
    \/ Is(p, {"system"}) /\ op[p].name = n /\ staged[p] /\ dir[n].edit = 0
    \/ Is(p, {"sync"}) /\ op[p].name = n /\ dir[n].synced /\ ~dir[n].authored

LEMMA StillThere ==
    ASSUME NEW d \in Projects, NEW b \in BOOLEAN, NEW c \in Edits
    PROVE  /\ [d EXCEPT !.exposed = b] # None /\ [d EXCEPT !.seeded = b] # None
           /\ [d EXCEPT !.record = c] # None
<1>1. [d EXCEPT !.exposed = b] \in Projects /\ [d EXCEPT !.seeded = b] \in Projects
      /\ [d EXCEPT !.record = c] \in Projects
  BY DEF Projects
<1> QED
  BY <1>1, ProjectFields

LEMMA RemovedByStep ==
    ASSUME Inv, NEW p \in Ops, Step(p), NEW n \in Names, Undisturbed(n), dir[n].whole, dir'[n] = None
    PROVE  Active(p) /\ Removes(p, n)
<1>1. /\ TypeOK /\ PlaceInv(p) /\ WorkInv(p) /\ MadeInv(p) /\ Sound(dir[n])
      /\ dir[n] \in Projects /\ dir[n] # None /\ ~dir[n].exposed
  BY DEF Inv, TypeOK, DirInv, Undisturbed
<1>2. dir' # dir
  BY <1>1
<1>3. ASSUME Wipe(p) PROVE Active(p) /\ Removes(p, n)
  BY <1>1, <1>3 DEF Wipe, PlaceInv, Active, Removes, TypeOK, Is
<1>4. ASSUME Claim(p) PROVE FALSE
  BY <1>1, <1>2, <1>4 DEF Claim, TypeOK
<1>5. ASSUME Fill(p) PROVE FALSE
  <2>1. PICK b \in BOOLEAN : b = (Busy(op[p].name, p) \/ dir[op[p].name].exposed)
    OBVIOUS
  <2>2. made[p] \in Projects
    BY <1>1, <1>5 DEF Fill, PlaceInv, TypeOK
  <2>3. dir' = [dir EXCEPT ![op[p].name] = [made[p] EXCEPT !.exposed = b]]
    BY <1>5, <2>1 DEF Fill
  <2>4. [made[p] EXCEPT !.exposed = b] # None
    BY <2>2, StillThere, EditFacts
  <2> QED
    BY <1>1, <2>3, <2>4 DEF TypeOK
<1>6. ASSUME FillFails(p) PROVE FALSE
  BY <1>1, <1>2, <1>6 DEF FillFails, TypeOK, WorkInv, Undisturbed
<1>7. ASSUME Record(p) PROVE FALSE
  <2>1. dir' = [dir EXCEPT ![op[p].name] = [dir[op[p].name] EXCEPT !.record = dir[op[p].name].edit]]
    BY <1>2, <1>7 DEF Record, TypeOK
  <2>2. op[p].name = n
    BY <1>1, <2>1 DEF TypeOK
  <2>3. dir'[n] = [dir[n] EXCEPT !.record = dir[n].edit]
    BY <1>1, <2>1, <2>2 DEF TypeOK
  <2> QED
    BY <1>1, <2>3, ProjectFields, StillThere
<1>8. ASSUME Stamp(p) PROVE FALSE
  <2>1. dir' = [dir EXCEPT ![op[p].name] = [dir[op[p].name] EXCEPT !.seeded = TRUE]]
    BY <1>1, <1>2, <1>8 DEF Stamp, TypeOK
  <2>2. op[p].name = n
    BY <1>1, <2>1 DEF TypeOK
  <2>3. dir'[n] = [dir[n] EXCEPT !.seeded = TRUE]
    BY <1>1, <2>1, <2>2 DEF TypeOK
  <2> QED
    BY <1>1, <2>3, EditFacts, StillThere
<1>9. ASSUME Remove(p) PROVE Active(p) /\ Removes(p, n)
  <2>1. dir' = [dir EXCEPT ![op[p].name] = None] /\ pc[p] = "remove" /\ Active(p)
    BY <1>2, <1>9 DEF Remove, Active
  <2>2. op[p].name = n
    BY <1>1, <2>1 DEF TypeOK
  <2>3. Is(p, {"system"}) \/ Is(p, {"sync"})
    BY <1>1, <2>1 DEF PlaceInv, Is
  <2> QED
    BY <1>1, <2>1, <2>2, <2>3 DEF WorkInv, Undisturbed, Removes, Sound
<1>10. ASSUME Move(p) PROVE FALSE
  BY <1>1, <1>2, <1>10 DEF Move, TypeOK
<1>11. ASSUME Rename(p) PROVE Active(p) /\ Removes(p, n)
  <2>1. /\ pc[p] = "check" /\ Is(p, {"rename"}) /\ dir[op[p].name] = None
        /\ \A m \in Names \ {op[p].name, op[p].from} : dir'[m] = dir[m]
    BY <1>1, <1>11 DEF Rename, TypeOK
  <2>2. op[p].from = n
    BY <1>1, <2>1
  <2> QED
    BY <2>1, <2>2 DEF Active, Removes
<1>12. ASSUME Delete(p) PROVE Active(p) /\ Removes(p, n)
  BY <1>1, <1>12 DEF Delete, TypeOK, Active, Removes, Is
<1>13. \/ Wipe(p) \/ Claim(p) \/ Fill(p) \/ FillFails(p) \/ Record(p) \/ Stamp(p)
       \/ Remove(p) \/ Move(p) \/ Rename(p) \/ Delete(p)
  BY <1>2 DEF Step, ProvisionProject, Reprovision, Make, Look, Choose, Check, Refuse, Resync, Compare, Stage
<1> QED
  BY <1>3, <1>4, <1>5, <1>6, <1>7, <1>8, <1>9, <1>10, <1>11, <1>12, <1>13

LEMMA NotRemoved ==
    ASSUME Inv, NEW n \in Names, dir[n] # None, dir'[n] = None,
           \/ UNCHANGED dir
           \/ Save
           \/ \E P \in SUBSET Ops : Kill(P)
    PROVE  FALSE
<1>1. TypeOK /\ dir[n] \in Projects
  BY DEF Inv, TypeOK
<1>2. CASE Save
  <2>1. dir' # dir /\ n = tab.name
    BY <1>1, <1>2 DEF Save, TypeOK
  <2>2. PICK k \in Keys : k = tab.key
    BY <1>1, <1>2 DEF Save, TypeOK
  <2>3. PICK x \in Edits :
        dir' = [dir EXCEPT ![n] =
                  [dir[n] EXCEPT !.key = k, !.seeded = FALSE, !.edit = x, !.own = TRUE,
                                 !.checked = dir[n].checked /\ k = dir[n].key,
                                 !.exposed = dir[n].exposed \/ Busy(n, None)]]
    BY <1>1, <1>2, <2>1, <2>2 DEF Save
  <2>4. PICK b \in BOOLEAN : b = (dir[n].checked /\ k = dir[n].key)
    OBVIOUS
  <2>5. PICK c \in BOOLEAN : c = (dir[n].exposed \/ Busy(n, None))
    OBVIOUS
  <2>6. dir'[n] = [dir[n] EXCEPT !.key = k, !.seeded = FALSE, !.edit = x, !.own = TRUE,
                                 !.checked = b, !.exposed = c]
    BY <1>1, <2>3, <2>4, <2>5 DEF TypeOK
  <2>7. [dir[n] EXCEPT !.key = k, !.seeded = FALSE, !.edit = x, !.own = TRUE,
                       !.checked = b, !.exposed = c] \in Projects
    BY <1>1 DEF Projects
  <2> QED
    BY <2>6, <2>7, ProjectFields
<1>3. CASE \E P \in SUBSET Ops : Kill(P)
  <2>1. dir'[n] = dir[n] \/ dir'[n] = [dir[n] EXCEPT !.exposed = TRUE]
    BY <1>3 DEF Kill
  <2> QED
    BY <1>1, <2>1, EditFacts, StillThere
<1> QED
  BY <1>2, <1>3

\* A whole project that no two operations were on at a time goes only if the user
\* deletes, renames or forces it away, if a re-provision has staged its successor and no
\* file its record covers was edited, or if the start replaces a read-only project that
\* is marked as its import.
THEOREM WorkspaceUserWorkKept == Spec => UserWorkKept
<1> DEFINE Kept1 ==
      \A n \in Names :
          dir[n] # None /\ dir[n].whole /\ ~dir[n].exposed /\ dir'[n] = None =>
              \E p \in {q \in Ops : Active(q)} : Removes(p, n)
<1>1. ASSUME Inv, [Next]_vars PROVE [Kept1]_vars
  <2> SUFFICES ASSUME Next, NEW n \in Names, dir[n] # None, dir[n].whole, ~dir[n].exposed, dir'[n] = None
               PROVE  \E p \in {q \in Ops : Active(q)} : Removes(p, n)
    BY <1>1
  <2>1. CASE \E p \in Ops : Step(p)
    <3>1. PICK p \in Ops : Step(p)
      BY <2>1
    <3> QED
      BY <1>1, <3>1, RemovedByStep DEF Undisturbed
  <2>2. CASE \E p \in Ops, k \in Kinds, m, l \in Names : Ask(p, k, m, l)
    BY <2>2 DEF Ask
  <2>3. CASE \E m \in Names : Open(m)
    BY <2>3 DEF Open
  <2>4. CASE Save \/ \E P \in SUBSET Ops : Kill(P)
    BY <1>1, <2>4, NotRemoved
  <2> QED
    BY <2>1, <2>2, <2>3, <2>4 DEF Next
<1>2. [Kept1]_vars =>
      [\A n \in Names :
          dir[n] # None /\ dir[n].whole /\ ~dir[n].exposed /\ dir'[n] = None =>
              \E p \in {q \in Ops : Active(q)} :
                  \/ Is(p, {"delete"} \cup Forced) /\ op[p].name = n
                  \/ Is(p, {"rename"}) /\ op[p].from = n
                  \/ Is(p, {"system"}) /\ op[p].name = n /\ staged[p] /\ dir[n].edit = 0
                  \/ Is(p, {"sync"}) /\ op[p].name = n /\ dir[n].synced /\ ~dir[n].authored]_vars
  BY DEF Removes
<1> HIDE DEF Kept1
<1> QED
  BY <1>1, <1>2, SpecInv, PTL DEF Spec, UserWorkKept
=============================================================================
