---------------------------- MODULE DeployProofs ----------------------------
(***************************************************************************)
(* The proofs about Deploy, for any number of operations, targets and      *)
(* versions: what an operation finds and leaves on its target, what it     *)
(* tells, the versions that go down, and the registry's entries. At the    *)
(* end, the proofs about RemoteCommand, the command its executor runs.     *)
(***************************************************************************)
EXTENDS Deploy, RemoteCommand, TLAPS

(***************************************************************************)
(* The inductive invariant, one part per question, for each operation.     *)
(***************************************************************************)
\* The steps a kind of operation takes.
KindOK(d) ==
    /\ IF pc[d] = "idle" THEN kind[d] = None ELSE kind[d] \in Kinds /\ target[d] \in Targets
    /\ pc[d] \in {"materialize", "copy profile", "copy config", "downgrade"} => d \in Installs
    /\ pc[d] \in {"stage", "push", "script"} => d \in Staged
    /\ pc[d] = "is-active" => kind[d] \in {"stop", "restart"}
    /\ pc[d] = "measure" => kind[d] = "check"
    /\ script[d] # "none" => d \in Installs \cup Staged

\* The staging directory and install.sh, as far as d is.
StagingOK(d) ==
    /\ pc[d] \in {"idle", "materialize", "copy profile", "copy config", "downgrade", "fetch", "stage",
                  "measure"} => staging[d] = "none"
    /\ pc[d] \in {"run", "await"} /\ d \in Staged => staging[d] = "whole"
    /\ pc[d] \in {"register", "truncate", "write"} => staging[d] = "none" \/ left[d] # "no"
    /\ pc[d] = "ended" => staging[d] = "none" \/ left[d] # "no" \/ outcome[d] = "killed"

ScriptOK(d) ==
    pc[d] \in {"idle", "materialize", "copy profile", "copy config", "downgrade", "fetch", "stage",
               "push", "script", "run", "is-active", "measure"} => script[d] = "none"

ToldOK(d) ==
    /\ pc[d] \notin {"cleanup", "register", "truncate", "write", "ended"} => outcome[d] = "none"
    /\ outcome[d] = "refused" =>
          pc[d] = "ended" /\ script[d] = "none" /\ staging[d] \in {"none", "empty"}
    /\ outcome[d] = "ok" /\ d \in Installs => script[d] = "done"

\* The copy is of one save, if none ran.
CopyOK(d) ==
    ~disturbed[d] =>
        /\ pc[d] \in {"copy profile", "copy config"} =>
              saving = None /\ profile.save = config /\ profile.pin = pin[d]
        /\ pc[d] = "copy config" => copy[d].save = config /\ copy[d].pin = pin[d]
        /\ d \in Installs /\ (pc[d] \in {"downgrade", "fetch", "stage", "push", "script", "run", "await"}
                              \/ script[d] # "none") =>
              copy[d].save = copy[d].config /\ copy[d].pin = pin[d]

\* No deploy goes on from the downgrade check with a version it refuses.
CheckOK(d) ==
    d \in Installs /\ (pc[d] \in {"fetch", "stage", "push", "script", "run", "await"}
                       \/ script[d] # "none") => ~Refused(pin[d], seen[d])

LocalOK(d) == KindOK(d) /\ StagingOK(d) /\ ScriptOK(d) /\ ToldOK(d) /\ CopyOK(d) /\ CheckOK(d)

SaveOK == IF saving = None THEN profile.save = config ELSE saving.save = config

\* Unless registrations clashed, one writes at a time, and it writes all there was.
Writing(d) == pc[d] \in {"truncate", "write"}

RegistryOK ==
    ~clashed =>
        /\ \A d, e \in Deploys : Writing(d) /\ Writing(e) => d = e
        /\ \A d \in Deploys : Writing(d) => registered \subseteq listed[d]
        /\ (\A d \in Deploys : pc[d] # "write") => registered \subseteq fleet

Inv == TypeOK /\ SaveOK /\ RegistryOK /\ \A d \in Deploys : LocalOK(d)

LEMMA KindsNotNone == None \notin AllKinds /\ None \notin Kinds /\ None \notin Targets
BY DeployAssumption

LEMMA InitInv == Init => Inv
<1> SUFFICES ASSUME Init PROVE Inv
  OBVIOUS
<1> USE DEF Init
<1>1. TypeOK
  <2>1. /\ profile \in Profiles /\ config \in Saves /\ saving \in Profiles \cup {None}
        /\ crashes \in 0..MaxCrashes
    BY DeployAssumption DEF Profiles, Saves
  <2>2. /\ installed \in [Targets -> Versions] /\ prev \in [Targets -> Versions]
        /\ fleet \in SUBSET Targets /\ registered \in SUBSET Targets
        /\ listed \in [Deploys -> SUBSET Targets]
        /\ kind \in [Deploys -> Kinds \cup {None}] /\ target \in [Deploys -> Targets \cup {None}]
    OBVIOUS
  <2>3. service \in [Targets -> {"active", "inactive"}]
    OBVIOUS
  <2>4. pin \in [Deploys -> Versions] /\ seen \in [Deploys -> Versions]
    BY DeployAssumption DEF Versions
  <2>5. copy \in [Deploys -> Copies]
    BY DeployAssumption DEF Versions, Saves, NoCopy, Copies
  <2>6. pc \in [Deploys -> Labels]
    BY DEF Labels
  <2>7. /\ staging \in [Deploys -> {"none", "empty", "project", "whole"}]
        /\ script \in [Deploys -> {"none", "running", "installed", "done", "failed"}]
        /\ outcome \in [Deploys -> {"none", "ok", "refused", "failed", "killed"}]
        /\ left \in [Deploys -> {"no", "told", "silent"}]
    OBVIOUS
  <2>8. disturbed \in [Deploys -> BOOLEAN] /\ clashed \in BOOLEAN
    OBVIOUS
  <2> QED
    BY <2>1, <2>2, <2>3, <2>4, <2>5, <2>6, <2>7, <2>8 DEF TypeOK
<1>2. SaveOK
  BY DEF SaveOK
<1>3. RegistryOK
  BY DEF RegistryOK, Writing
<1>4. ASSUME NEW d \in Deploys PROVE LocalOK(d)
  <2>1. pc[d] = "idle" /\ kind[d] = None /\ staging[d] = "none" /\ script[d] = "none" /\ outcome[d] = "none"
    OBVIOUS
  <2>2. d \notin Installs
    BY <2>1, KindsNotNone DEF Installs, AllKinds
  <2> QED
    BY <2>1, <2>2 DEF LocalOK, KindOK, StagingOK, ScriptOK, ToldOK, CopyOK, CheckOK
<1> QED
  BY <1>1, <1>2, <1>3, <1>4 DEF Inv

(***************************************************************************)
(* A step of d: the other operations and the project stay as they were.    *)
(***************************************************************************)
Moves(d) ==
    /\ \A e \in Deploys \ {d} :
          /\ pc'[e] = pc[e] /\ kind'[e] = kind[e] /\ target'[e] = target[e] /\ pin'[e] = pin[e]
          /\ seen'[e] = seen[e] /\ copy'[e] = copy[e] /\ staging'[e] = staging[e] /\ script'[e] = script[e]
          /\ outcome'[e] = outcome[e] /\ left'[e] = left[e] /\ disturbed'[e] = disturbed[e]
    /\ UNCHANGED project

LEMMA MovesInv ==
    ASSUME Inv, NEW d \in Deploys, Moves(d), TypeOK', RegistryOK', LocalOK(d)'
    PROVE  Inv'
<1>1. UNCHANGED <<profile, config, saving>>
  BY DEF Moves, project
<1>2. SaveOK'
  BY <1>1 DEF Inv, SaveOK
<1>3. ASSUME NEW e \in Deploys \ {d} PROVE LocalOK(e)'
  <2>1. LocalOK(e)
    BY DEF Inv
  <2>2. /\ pc'[e] = pc[e] /\ kind'[e] = kind[e] /\ target'[e] = target[e] /\ pin'[e] = pin[e]
        /\ seen'[e] = seen[e] /\ copy'[e] = copy[e] /\ staging'[e] = staging[e] /\ script'[e] = script[e]
        /\ outcome'[e] = outcome[e] /\ left'[e] = left[e] /\ disturbed'[e] = disturbed[e]
    BY DEF Moves
  <2>3. (e \in Installs)' = (e \in Installs) /\ (e \in Staged)' = (e \in Staged)
    BY <2>2 DEF Installs, Staged
  <2>4. KindOK(e)' /\ StagingOK(e)'
    BY <2>1, <2>2, <2>3 DEF LocalOK, KindOK, StagingOK
  <2>5. ScriptOK(e)' /\ ToldOK(e)'
    BY <2>1, <2>2, <2>3 DEF LocalOK, ScriptOK, ToldOK
  <2>6. CopyOK(e)'
    BY <1>1, <2>1, <2>2, <2>3 DEF LocalOK, CopyOK
  <2>7. CheckOK(e)'
    BY <2>1, <2>2, <2>3 DEF LocalOK, CheckOK, Refused
  <2> QED
    BY <2>4, <2>5, <2>6, <2>7 DEF LocalOK
<1> QED
  BY <1>2, <1>3 DEF Inv

\* A step that does not write the registry, nor begins or ends to.
LEMMA RegistryKept ==
    ASSUME Inv, NEW d \in Deploys, UNCHANGED registry,
           \A e \in Deploys \ {d} : pc'[e] = pc[e],
           ~Writing(d), ~Writing(d)'
    PROVE  RegistryOK'
<1>1. UNCHANGED <<fleet, listed, registered, clashed>>
  BY DEF registry
<1>2. \A e \in Deploys : Writing(e)' = Writing(e) /\ (pc'[e] = "write") = (pc[e] = "write")
  BY DEF Writing
<1> QED
  BY <1>1, <1>2 DEF Inv, RegistryOK

LEMMA Going ==
    ASSUME Inv, NEW d \in Deploys, NEW label \in Labels, Goto(d, label)
    PROVE  /\ pc' \in [Deploys -> Labels]
           /\ pc'[d] = label
           /\ \A e \in Deploys \ {d} : pc'[e] = pc[e]
<1>1. pc \in [Deploys -> Labels]
  BY DEF Inv, TypeOK
<1> QED
  BY <1>1 DEF Goto

LEMMA TypeFacts ==
    ASSUME Inv, NEW d \in Deploys
    PROVE  /\ TypeOK /\ SaveOK /\ RegistryOK
           /\ KindOK(d) /\ StagingOK(d) /\ ScriptOK(d) /\ ToldOK(d) /\ CopyOK(d) /\ CheckOK(d)
           /\ pin \in [Deploys -> Versions] /\ seen \in [Deploys -> Versions]
           /\ copy \in [Deploys -> Copies]
           /\ staging \in [Deploys -> {"none", "empty", "project", "whole"}]
           /\ script \in [Deploys -> {"none", "running", "installed", "done", "failed"}]
           /\ outcome \in [Deploys -> {"none", "ok", "refused", "failed", "killed"}]
           /\ left \in [Deploys -> {"no", "told", "silent"}]
           /\ disturbed \in [Deploys -> BOOLEAN]
           /\ installed \in [Targets -> Versions] /\ prev \in [Targets -> Versions]
           /\ service \in [Targets -> {"active", "inactive"}]
           /\ profile.save \in Saves /\ profile.pin \in Versions /\ config \in Saves
           /\ pc \in [Deploys -> Labels]
<1>1. profile \in Profiles /\ config \in Saves
  BY DEF Inv, TypeOK
<1>2. profile.save \in Saves /\ profile.pin \in 1..MaxVersion
  BY <1>1 DEF Profiles
<1>3. profile.pin \in Versions
  BY <1>2, DeployAssumption DEF Versions
<1> QED
  BY <1>1, <1>2, <1>3 DEF Inv, LocalOK, TypeOK

\* d ends, but for its cleanup, and tells r. It may have read the versions first.
LEMMA EndInv ==
    ASSUME Inv, NEW d \in Deploys, NEW r \in {"ok", "refused", "failed"}, EndWith(d, r),
           pc[d] \notin {"idle", "truncate", "write"},
           UNCHANGED <<project, machines, registry, staging, script, crashes, kind, target, copy, left,
                       disturbed>>,
           pin' \in [Deploys -> Versions], seen' \in [Deploys -> Versions],
           \A e \in Deploys \ {d} : pin'[e] = pin[e] /\ seen'[e] = seen[e],
           script[d] = "none" \/ (pin'[d] = pin[d] /\ seen'[d] = seen[d]),
           r = "refused" => script[d] = "none" /\ staging[d] = "none",
           r = "ok" /\ d \in Installs => script[d] = "done"
    PROVE  Inv'
<1> USE TypeFacts
<1>1. PICK label \in {"cleanup", "ended"} :
         Goto(d, label) /\ (label = "cleanup" <=> staging[d] # "none")
  BY DEF EndWith
<1>2. /\ pc' \in [Deploys -> Labels] /\ pc'[d] = label
      /\ \A e \in Deploys \ {d} : pc'[e] = pc[e]
  BY <1>1, Going DEF Labels, Ending
<1>3. /\ outcome' \in [Deploys -> {"none", "ok", "refused", "failed", "killed"}] /\ outcome'[d] = r
      /\ \A e \in Deploys \ {d} : outcome'[e] = outcome[e]
  BY DEF EndWith
<1>4. UNCHANGED <<profile, config, saving, installed, prev, service, fleet, listed, registered, clashed>>
  BY DEF project, machines, registry
<1>5. TypeOK'
  BY <1>2, <1>3, <1>4 DEF TypeOK
<1>6. Moves(d)
  BY <1>2, <1>3 DEF Moves
<1>7. RegistryOK'
  BY <1>1, <1>2, RegistryKept DEF Writing
<1>8. (d \in Installs)' = (d \in Installs) /\ (d \in Staged)' = (d \in Staged)
  BY DEF Installs, Staged
<1>9. KindOK(d)' /\ ScriptOK(d)'
  BY <1>2, <1>8 DEF KindOK, ScriptOK
<1>10. StagingOK(d)' /\ ToldOK(d)'
  BY <1>1, <1>2, <1>3, <1>8 DEF StagingOK, ToldOK
<1>11. CopyOK(d)'
  BY <1>2, <1>8 DEF CopyOK
<1>12. CheckOK(d)'
  BY <1>2, <1>8 DEF CheckOK, Refused
<1> QED
  BY <1>5, <1>6, <1>7, <1>9, <1>10, <1>11, <1>12, MovesInv DEF LocalOK

\* d goes on to label, which is not the registry's; what it changed is its own.
LEMMA GoInv ==
    ASSUME Inv, NEW d \in Deploys, NEW label \in Labels \ {"truncate", "write"}, Goto(d, label),
           pc[d] \notin {"truncate", "write"},
           UNCHANGED <<project, registry, crashes, kind, target, outcome>>,
           installed' = installed, prev' = prev, service' \in [Targets -> {"active", "inactive"}],
           pin' \in [Deploys -> Versions], seen' \in [Deploys -> Versions], copy' \in [Deploys -> Copies],
           staging' \in [Deploys -> {"none", "empty", "project", "whole"}],
           script' \in [Deploys -> {"none", "running", "installed", "done", "failed"}],
           left' \in [Deploys -> {"no", "told", "silent"}],
           disturbed' \in [Deploys -> BOOLEAN],
           \A e \in Deploys \ {d} :
              /\ pin'[e] = pin[e] /\ seen'[e] = seen[e] /\ copy'[e] = copy[e]
              /\ staging'[e] = staging[e] /\ script'[e] = script[e] /\ left'[e] = left[e]
              /\ disturbed'[e] = disturbed[e],
           KindOK(d)', StagingOK(d)', ScriptOK(d)', ToldOK(d)', CopyOK(d)', CheckOK(d)'
    PROVE  Inv'
<1> USE TypeFacts
<1>1. /\ pc' \in [Deploys -> Labels] /\ pc'[d] = label
      /\ \A e \in Deploys \ {d} : pc'[e] = pc[e]
  BY Going
<1>2. UNCHANGED <<profile, config, saving, fleet, listed, registered, clashed>>
  BY DEF project, registry
<1>3. TypeOK'
  BY <1>1, <1>2 DEF TypeOK
<1>4. Moves(d)
  BY <1>1 DEF Moves
<1>5. RegistryOK'
  BY <1>1, RegistryKept DEF Writing
<1> QED
  BY <1>3, <1>4, <1>5, MovesInv DEF LocalOK

LEMMA GoLabels ==
    {"copy profile", "copy config", "materialize", "downgrade", "fetch", "stage", "push", "script", "run",
     "await", "is-active", "measure", "register", "ended"} \subseteq Labels \ {"truncate", "write"}
BY DEF Labels, Copying, Readying, Ending

(***************************************************************************)
(* Getting ready.                                                          *)
(***************************************************************************)
LEMMA MaterializeInv == ASSUME Inv, NEW d \in Deploys, Materialize(d) PROVE Inv'
<1> USE TypeFacts DEF Materialize
<1>1. pc'[d] = "copy profile"
  BY Going, GoLabels
<1>2. UNCHANGED <<profile, config, saving, fleet, listed, registered, clashed, installed, prev, service>>
  BY DEF project, registry, machines
<1>3. /\ pin' \in [Deploys -> Versions] /\ pin'[d] = profile.pin
      /\ \A e \in Deploys \ {d} : pin'[e] = pin[e]
  OBVIOUS
<1>4. /\ disturbed' \in [Deploys -> BOOLEAN] /\ disturbed'[d] = (saving # None)
      /\ \A e \in Deploys \ {d} : disturbed'[e] = disturbed[e]
  OBVIOUS
<1>5. d \in Installs /\ (d \in Installs)' /\ script[d] = "none" /\ staging[d] = "none" /\ outcome[d] = "none"
  BY DEF KindOK, ScriptOK, StagingOK, ToldOK, Installs
<1>6. KindOK(d)' /\ StagingOK(d)' /\ ScriptOK(d)' /\ ToldOK(d)'
  BY <1>1, <1>5 DEF KindOK, StagingOK, ScriptOK, ToldOK
<1>7. CopyOK(d)'
  <2>1. ~disturbed'[d] => saving' = None /\ profile'.save = config' /\ profile'.pin = pin'[d]
    BY <1>2, <1>3, <1>4 DEF SaveOK
  <2> QED
    BY <1>1, <1>5, <2>1 DEF CopyOK
<1>8. CheckOK(d)'
  BY <1>1, <1>5 DEF CheckOK
<1>9. "copy profile" \in Labels \ {"truncate", "write"}
  BY GoLabels
<1> QED
  BY <1>2, <1>3, <1>4, <1>6, <1>7, <1>8, <1>9, GoInv DEF TypeOK

LEMMA CopyFilesInv == ASSUME Inv, NEW d \in Deploys, CopyFiles(d) PROVE Inv'
<1> USE TypeFacts DEF CopyFiles
<1>1. /\ d \in Installs /\ (d \in Installs)' /\ script[d] = "none" /\ staging[d] = "none"
      /\ outcome[d] = "none" /\ copy[d] \in Copies
  BY DEF KindOK, ScriptOK, StagingOK, ToldOK, Installs
<1>2. UNCHANGED <<profile, config, saving, fleet, listed, registered, clashed, installed, prev, service>>
  BY DEF project, registry, machines
<1>3. profile.save \in Saves /\ profile.pin \in Versions /\ config \in Saves
  OBVIOUS
<1>4. CASE pc[d] = "copy profile"
  <2>1. pc'[d] = "copy config" /\ Goto(d, "copy config")
    BY <1>4, Going, GoLabels
  <2>2. copy' = [copy EXCEPT ![d] = [save |-> profile.save, pin |-> profile.pin, config |-> copy[d].config]]
    BY <1>1, <1>4 DEF Copies
  <2>3. [save |-> profile.save, pin |-> profile.pin, config |-> copy[d].config] \in Copies
    BY <1>1, <1>3 DEF Copies
  <2>4. /\ copy' \in [Deploys -> Copies] /\ copy'[d].save = profile.save /\ copy'[d].pin = profile.pin
        /\ \A e \in Deploys \ {d} : copy'[e] = copy[e]
    BY <2>2, <2>3
  <2>5. KindOK(d)' /\ StagingOK(d)' /\ ScriptOK(d)' /\ ToldOK(d)'
    BY <1>1, <2>1 DEF KindOK, StagingOK, ScriptOK, ToldOK
  <2>6. CopyOK(d)' /\ CheckOK(d)'
    BY <1>1, <1>2, <1>4, <2>1, <2>4 DEF CopyOK, CheckOK
  <2> QED
    BY <1>2, <2>1, <2>4, <2>5, <2>6, GoLabels, GoInv DEF TypeOK
<1>5. CASE pc[d] = "copy config"
  <2>1. pc'[d] = "downgrade" /\ Goto(d, "downgrade")
    BY <1>5, Going, GoLabels
  <2>2. copy' = [copy EXCEPT ![d] = [save |-> copy[d].save, pin |-> copy[d].pin, config |-> config]]
    BY <1>1, <1>5 DEF Copies
  <2>3. [save |-> copy[d].save, pin |-> copy[d].pin, config |-> config] \in Copies
    BY <1>1, <1>3 DEF Copies
  <2>4. /\ copy' \in [Deploys -> Copies] /\ copy'[d].config = config
        /\ copy'[d].save = copy[d].save /\ copy'[d].pin = copy[d].pin
        /\ \A e \in Deploys \ {d} : copy'[e] = copy[e]
    BY <2>2, <2>3
  <2>5. KindOK(d)' /\ StagingOK(d)' /\ ScriptOK(d)' /\ ToldOK(d)'
    BY <1>1, <2>1 DEF KindOK, StagingOK, ScriptOK, ToldOK
  <2>6. CopyOK(d)' /\ CheckOK(d)'
    BY <1>1, <1>2, <1>5, <2>1, <2>4 DEF CopyOK, CheckOK
  <2> QED
    BY <1>2, <2>1, <2>4, <2>5, <2>6, GoLabels, GoInv DEF TypeOK
<1> QED
  BY <1>4, <1>5

LEMMA CheckDowngradeInv == ASSUME Inv, NEW d \in Deploys, CheckDowngrade(d) PROVE Inv'
<1> USE TypeFacts DEF CheckDowngrade
<1>1. /\ d \in Installs /\ (d \in Installs)' /\ script[d] = "none" /\ staging[d] = "none"
      /\ outcome[d] = "none" /\ target[d] \in Targets /\ kind[d] \in Kinds
  BY DEF KindOK, ScriptOK, StagingOK, ToldOK, Installs
<1>2. /\ seen' \in [Deploys -> Versions] /\ seen'[d] = installed[target[d]]
      /\ \A e \in Deploys \ {d} : seen'[e] = seen[e]
  BY <1>1
<1>3. CASE Refused(pin[d], installed[target[d]])
  BY <1>1, <1>2, <1>3, EndInv
<1>4. CASE ~Refused(pin[d], installed[target[d]])
  <2>1. pc'[d] = "fetch" /\ Goto(d, "fetch") /\ outcome' = outcome
    BY <1>4, Going, GoLabels
  <2>2. KindOK(d)' /\ StagingOK(d)' /\ ScriptOK(d)' /\ ToldOK(d)'
    BY <1>1, <2>1 DEF KindOK, StagingOK, ScriptOK, ToldOK
  <2>3. CopyOK(d)'
    BY <1>1, <2>1 DEF CopyOK
  <2>4. CheckOK(d)'
    BY <1>2, <1>4 DEF CheckOK, Refused
  <2>5. installed' = installed /\ prev' = prev /\ service' = service
    BY DEF machines
  <2> QED
    BY <1>2, <2>1, <2>2, <2>3, <2>4, <2>5, GoLabels, GoInv
<1> QED
  BY <1>3, <1>4

LEMMA FetchInv == ASSUME Inv, NEW d \in Deploys, Fetch(d) PROVE Inv'
<1> USE TypeFacts DEF Fetch
<1>1. UNCHANGED <<kind, target, pin, seen, copy, outcome, left, disturbed, installed, prev, service>>
  BY DEF work, machines
<1>2. /\ kind[d] \in Kinds /\ target[d] \in Targets /\ script[d] = "none" /\ staging[d] = "none"
      /\ outcome[d] = "none"
  BY DEF KindOK, ScriptOK, StagingOK, ToldOK
<1>3. PICK label \in {"stage", "run"} : Goto(d, label) /\ (label = "stage" <=> d \in Staged)
  OBVIOUS
<1>4. pc'[d] = label
  BY <1>3, Going, GoLabels
<1>5. (d \in Installs)' = (d \in Installs) /\ (d \in Staged)' = (d \in Staged)
  BY <1>1 DEF Installs, Staged
<1>6. KindOK(d)' /\ StagingOK(d)' /\ ScriptOK(d)' /\ ToldOK(d)'
  BY <1>1, <1>2, <1>3, <1>4, <1>5 DEF KindOK, StagingOK, ScriptOK, ToldOK
<1>7. CopyOK(d)' /\ CheckOK(d)'
  BY <1>1, <1>4, <1>5 DEF CopyOK, CheckOK, Refused
<1> QED
  BY <1>1, <1>3, <1>6, <1>7, GoLabels, GoInv

LEMMA MakeStagingInv == ASSUME Inv, NEW d \in Deploys, MakeStaging(d) PROVE Inv'
<1> USE TypeFacts DEF MakeStaging
<1>1. UNCHANGED <<kind, target, pin, seen, copy, outcome, left, disturbed, installed, prev, service>>
  BY DEF work, machines
<1>2. /\ kind[d] \in Kinds /\ target[d] \in Targets /\ d \in Staged /\ script[d] = "none"
      /\ outcome[d] = "none"
  BY DEF KindOK, ScriptOK, ToldOK
<1>3. PICK label \in {"push", "script"} : Goto(d, label)
  OBVIOUS
<1>4. pc'[d] = label
  BY <1>3 DEF Goto
<1>5. (d \in Installs)' = (d \in Installs) /\ (d \in Staged)' = (d \in Staged)
  BY <1>1 DEF Installs, Staged
<1>6. KindOK(d)' /\ StagingOK(d)' /\ ScriptOK(d)' /\ ToldOK(d)'
  BY <1>1, <1>2, <1>4, <1>5 DEF KindOK, StagingOK, ScriptOK, ToldOK
<1>7. CopyOK(d)' /\ CheckOK(d)'
  BY <1>1, <1>4, <1>5 DEF CopyOK, CheckOK, Refused
<1> QED
  BY <1>1, <1>3, <1>6, <1>7, GoLabels, GoInv

LEMMA RefuseInv == ASSUME Inv, NEW d \in Deploys, Refuse(d) PROVE Inv'
<1> USE TypeFacts DEF Refuse
<1>1. /\ kind[d] \in Kinds /\ target[d] \in Targets /\ script[d] = "none" /\ staging[d] = "none"
      /\ outcome[d] = "none"
  BY DEF KindOK, ScriptOK, StagingOK, ToldOK
<1>2. CASE UNCHANGED <<staging, left>>
  BY <1>1, <1>2, EndInv
<1>3. CASE /\ staging' = [staging EXCEPT ![d] = "empty"]
           /\ left' = [left EXCEPT ![d] = "silent"]
  <2>1. /\ pc' \in [Deploys -> Labels] /\ pc'[d] = "ended"
        /\ \A e \in Deploys \ {d} : pc'[e] = pc[e]
    BY <1>1, Going, GoLabels DEF EndWith
  <2>2. /\ outcome' \in [Deploys -> {"none", "ok", "refused", "failed", "killed"}]
        /\ outcome'[d] = "refused" /\ \A e \in Deploys \ {d} : outcome'[e] = outcome[e]
    BY DEF EndWith
  <2>3. UNCHANGED <<profile, config, saving, installed, prev, service, fleet, listed, registered, clashed>>
    BY DEF project, machines, registry
  <2>4. TypeOK'
    BY <1>3, <2>1, <2>2, <2>3 DEF TypeOK
  <2>5. Moves(d)
    BY <1>3, <2>1, <2>2 DEF Moves
  <2>6. RegistryOK'
    BY <2>1, RegistryKept DEF Writing
  <2>7. (d \in Installs)' = (d \in Installs) /\ staging'[d] = "empty" /\ left'[d] = "silent"
    BY <1>3 DEF Installs
  <2>8. KindOK(d)' /\ StagingOK(d)' /\ ScriptOK(d)' /\ ToldOK(d)'
    BY <1>1, <2>1, <2>2, <2>7 DEF KindOK, StagingOK, ScriptOK, ToldOK
  <2>9. CopyOK(d)' /\ CheckOK(d)'
    BY <1>1, <2>1, <2>7 DEF CopyOK, CheckOK
  <2> QED
    BY <2>4, <2>5, <2>6, <2>8, <2>9, MovesInv DEF LocalOK
<1> QED
  BY <1>2, <1>3

LEMMA PushInv == ASSUME Inv, NEW d \in Deploys, Push(d) PROVE Inv'
<1> USE TypeFacts DEF Push
<1>1. UNCHANGED <<kind, target, pin, seen, copy, outcome, left, disturbed, installed, prev, service>>
  BY DEF work, machines
<1>2. /\ kind[d] \in Kinds /\ target[d] \in Targets /\ d \in Staged /\ script[d] = "none"
      /\ outcome[d] = "none"
  BY DEF KindOK, ScriptOK, ToldOK
<1>3. PICK label \in {"script", "run"} :
         /\ Goto(d, label)
         /\ staging' = [staging EXCEPT ![d] = IF label = "run" THEN "whole" ELSE "project"]
  OBVIOUS
<1>4. pc'[d] = label
  BY <1>3 DEF Goto
<1>5. (d \in Installs)' = (d \in Installs) /\ (d \in Staged)' = (d \in Staged)
  BY <1>1 DEF Installs, Staged
<1>6. KindOK(d)' /\ StagingOK(d)' /\ ScriptOK(d)' /\ ToldOK(d)'
  BY <1>1, <1>2, <1>3, <1>4, <1>5 DEF KindOK, StagingOK, ScriptOK, ToldOK
<1>7. CopyOK(d)' /\ CheckOK(d)'
  BY <1>1, <1>4, <1>5 DEF CopyOK, CheckOK, Refused
<1> QED
  BY <1>1, <1>3, <1>6, <1>7, GoLabels, GoInv

LEMMA RunScriptInv == ASSUME Inv, NEW d \in Deploys, RunScript(d) PROVE Inv'
<1> USE TypeFacts DEF RunScript
<1>1. UNCHANGED <<kind, target, pin, seen, copy, outcome, left, disturbed, installed, prev, service>>
  BY DEF work, machines
<1>2. kind[d] \in Kinds /\ target[d] \in Targets /\ outcome[d] = "none"
  BY DEF KindOK, ToldOK
<1>3. pc'[d] = "await" /\ script'[d] = "running"
  BY Going, GoLabels
<1>4. (d \in Installs)' = (d \in Installs) /\ (d \in Staged)' = (d \in Staged)
  BY <1>1 DEF Installs, Staged
<1>5. KindOK(d)' /\ StagingOK(d)' /\ ScriptOK(d)' /\ ToldOK(d)'
  BY <1>1, <1>2, <1>3, <1>4 DEF KindOK, StagingOK, ScriptOK, ToldOK
<1>6. CopyOK(d)' /\ CheckOK(d)'
  BY <1>1, <1>3, <1>4 DEF CopyOK, CheckOK, Refused
<1> QED
  BY <1>1, <1>5, <1>6, GoLabels, GoInv

LEMMA TargetFailsInv == ASSUME Inv, NEW d \in Deploys, TargetFails(d) PROVE Inv'
BY TypeFacts, EndInv DEF TargetFails

LEMMA CollectInv == ASSUME Inv, NEW d \in Deploys, Collect(d) PROVE Inv'
BY TypeFacts, EndInv DEF Collect

LEMMA TimeOutInv == ASSUME Inv, NEW d \in Deploys, TimeOut(d) PROVE Inv'
BY TypeFacts, EndInv DEF TimeOut

LEMMA IsActiveInv == ASSUME Inv, NEW d \in Deploys, IsActive(d) PROVE Inv'
<1>1. d \notin Installs
  BY TypeFacts DEF IsActive, KindOK, Installs
<1> QED
  BY <1>1, TypeFacts, EndInv DEF IsActive

LEMMA MeasureInv == ASSUME Inv, NEW d \in Deploys, Measure(d) PROVE Inv'
<1> USE TypeFacts DEF Measure
<1>1. d \notin Installs /\ script[d] = "none" /\ staging[d] = "none" /\ target[d] \in Targets
  BY DEF KindOK, ScriptOK, StagingOK, Installs
<1>2. /\ pin' \in [Deploys -> Versions] /\ seen' \in [Deploys -> Versions]
      /\ \A e \in Deploys \ {d} : pin'[e] = pin[e] /\ seen'[e] = seen[e]
  BY <1>1
<1> QED
  BY <1>1, <1>2, EndInv

(***************************************************************************)
(* On the target, and back.                                                *)
(***************************************************************************)
LEMMA SystemctlInv == ASSUME Inv, NEW d \in Deploys, Systemctl(d) PROVE Inv'
<1> USE TypeFacts DEF Systemctl
<1>1. UNCHANGED <<kind, target, pin, seen, copy, outcome, left, disturbed, installed, prev>>
  BY DEF work
<1>2. kind[d] \in Kinds /\ target[d] \in Targets /\ script[d] = "none" /\ outcome[d] = "none"
  BY DEF KindOK, ScriptOK, ToldOK
<1>3. pc'[d] = "is-active"
  BY Going, GoLabels
<1>4. d \notin Installs /\ d \notin Staged /\ (d \notin Installs)' /\ (d \notin Staged)'
  BY <1>1 DEF Installs, Staged
<1>5. KindOK(d)' /\ StagingOK(d)' /\ ScriptOK(d)' /\ ToldOK(d)'
  BY <1>1, <1>2, <1>3, <1>4 DEF KindOK, StagingOK, ScriptOK, ToldOK
<1>6. CopyOK(d)' /\ CheckOK(d)'
  BY <1>3, <1>4 DEF CopyOK, CheckOK
<1>7. service' \in [Targets -> {"active", "inactive"}]
  BY <1>2
<1> QED
  BY <1>1, <1>5, <1>6, <1>7, GoLabels, GoInv

LEMMA CleanupInv == ASSUME Inv, NEW d \in Deploys, Cleanup(d) PROVE Inv'
<1> USE TypeFacts DEF Cleanup
<1>1. PICK label \in {"register", "ended"} : Goto(d, label)
  OBVIOUS
<1>2. pc'[d] = label
  BY <1>1 DEF Goto
<1>3. kind[d] \in Kinds /\ target[d] \in Targets /\ outcome[d] # "refused"
  BY DEF KindOK, ToldOK
<1>4. (d \in Installs)' = (d \in Installs) /\ (d \in Staged)' = (d \in Staged)
  BY DEF Installs, Staged
<1>5. /\ staging' \in [Deploys -> {"none", "empty", "project", "whole"}]
      /\ left' \in [Deploys -> {"no", "told", "silent"}]
      /\ staging'[d] = "none" \/ left'[d] # "no"
      /\ \A e \in Deploys \ {d} : staging'[e] = staging[e] /\ left'[e] = left[e]
  <2>1. CASE staging' = [staging EXCEPT ![d] = "none"] /\ left' = left
    BY <2>1
  <2>2. CASE left' = [left EXCEPT ![d] = "told"] /\ staging' = staging
    BY <2>2
  <2>3. CASE left' = [left EXCEPT ![d] = "silent"] /\ staging' = staging
    BY <2>3
  <2> QED
    BY <2>1, <2>2, <2>3
<1>6. KindOK(d)' /\ StagingOK(d)' /\ ScriptOK(d)' /\ ToldOK(d)'
  BY <1>2, <1>3, <1>4, <1>5 DEF KindOK, StagingOK, ScriptOK, ToldOK
<1>7. CopyOK(d)' /\ CheckOK(d)'
  BY <1>2, <1>4 DEF CopyOK, CheckOK, Refused, project
<1>8. installed' = installed /\ prev' = prev /\ service' = service
  BY DEF machines
<1> QED
  BY <1>1, <1>5, <1>6, <1>7, <1>8, GoLabels, GoInv

\* install.sh moves on by itself; d's own thread stays where it is.
LEMMA ScriptInv ==
    ASSUME Inv, NEW d \in Deploys, NEW state \in {"installed", "done", "failed"},
           script[d] # "none", script[d] # "done", script' = [script EXCEPT ![d] = state],
           installed' \in [Targets -> Versions], prev' \in [Targets -> Versions],
           service' \in [Targets -> {"active", "inactive"}],
           UNCHANGED <<project, registry, work, pc, staging, crashes>>
    PROVE  Inv'
<1> USE TypeFacts
<1>1. UNCHANGED <<kind, target, pin, seen, copy, outcome, left, disturbed, profile, config, saving,
                  fleet, listed, registered, clashed>>
  BY DEF work, project, registry
<1>2. /\ script' \in [Deploys -> {"none", "running", "installed", "done", "failed"}]
      /\ script'[d] = state /\ \A e \in Deploys \ {d} : script'[e] = script[e]
  OBVIOUS
<1>3. TypeOK'
  BY <1>1, <1>2 DEF TypeOK
<1>4. Moves(d)
  BY <1>1, <1>2 DEF Moves, project
<1>5. RegistryOK'
  BY <1>1 DEF RegistryOK, Writing
<1>6. (d \in Installs)' = (d \in Installs) /\ (d \in Staged)' = (d \in Staged)
  BY <1>1 DEF Installs, Staged
<1>7. KindOK(d)' /\ StagingOK(d)' /\ ScriptOK(d)'
  BY <1>1, <1>2, <1>6 DEF KindOK, StagingOK, ScriptOK
<1>8. ToldOK(d)'
  BY <1>1, <1>2, <1>6 DEF ToldOK
<1>9. CopyOK(d)' /\ CheckOK(d)'
  BY <1>1, <1>2, <1>6 DEF CopyOK, CheckOK, Refused
<1> QED
  BY <1>3, <1>4, <1>5, <1>7, <1>8, <1>9, MovesInv DEF LocalOK

LEMMA InstallSwapsInv == ASSUME Inv, NEW d \in Deploys, InstallSwaps(d) PROVE Inv'
<1> USE TypeFacts
<1> DEFINE v == IF d \in Installs THEN copy[d].pin ELSE prev[target[d]]
<1>1. target[d] \in Targets /\ kind[d] \in Kinds
  BY DEF InstallSwaps, KindOK, ScriptOK
<1>2. v \in Versions
  BY <1>1 DEF Copies
<1>3. /\ script[d] = "running" /\ script' = [script EXCEPT ![d] = "installed"]
      /\ installed' = [installed EXCEPT ![target[d]] = v]
      /\ service' = [service EXCEPT ![target[d]] = "active"]
      /\ UNCHANGED <<project, registry, work, pc, staging, crashes>>
  BY DEF InstallSwaps
<1>4. prev' \in [Targets -> Versions]
  BY <1>1 DEF InstallSwaps
<1>5. installed' \in [Targets -> Versions] /\ service' \in [Targets -> {"active", "inactive"}]
  BY <1>2, <1>3
<1> QED
  BY <1>3, <1>4, <1>5, ScriptInv

LEMMA InstallEndsInv == ASSUME Inv, NEW d \in Deploys, InstallEnds(d) PROVE Inv'
<1>1. PICK state \in {"done", "failed"} : script' = [script EXCEPT ![d] = state]
  BY DEF InstallEnds
<1> QED
  BY <1>1, TypeFacts, ScriptInv DEF InstallEnds, machines

(***************************************************************************)
(* The registry.                                                           *)
(***************************************************************************)
\* d moves in the registry to label; outcome and what it deployed stay.
LEMMA RegisterMove ==
    ASSUME Inv, NEW d \in Deploys, NEW label \in {"truncate", "write", "ended"}, Goto(d, label),
           pc[d] \in {"register", "truncate", "write"},
           UNCHANGED <<project, machines, work, staging, script, crashes>>,
           fleet' \in SUBSET Targets, registered' \in SUBSET Targets,
           listed' \in [Deploys -> SUBSET Targets], clashed' \in BOOLEAN,
           RegistryOK'
    PROVE  Inv'
<1> USE TypeFacts
<1>1. UNCHANGED <<kind, target, pin, seen, copy, outcome, left, disturbed, profile, config, saving,
                  installed, prev, service>>
  BY DEF work, project, machines
<1>2. /\ pc' \in [Deploys -> Labels] /\ pc'[d] = label
      /\ \A e \in Deploys \ {d} : pc'[e] = pc[e]
  BY Going DEF Labels, Ending
<1>3. TypeOK'
  BY <1>1, <1>2 DEF TypeOK
<1>4. Moves(d)
  BY <1>1, <1>2 DEF Moves, project
<1>5. (d \in Installs)' = (d \in Installs) /\ (d \in Staged)' = (d \in Staged)
  BY <1>1 DEF Installs, Staged
<1>6. KindOK(d)' /\ StagingOK(d)' /\ ScriptOK(d)' /\ ToldOK(d)'
  BY <1>1, <1>2, <1>5 DEF KindOK, StagingOK, ScriptOK, ToldOK
<1>7. CopyOK(d)' /\ CheckOK(d)'
  BY <1>1, <1>2, <1>5 DEF CopyOK, CheckOK, Refused
<1> QED
  BY <1>3, <1>4, <1>6, <1>7, MovesInv DEF LocalOK

LEMMA RegistryTypes ==
    ASSUME Inv, NEW d \in Deploys, pc[d] # "idle"
    PROVE  /\ fleet \in SUBSET Targets /\ registered \in SUBSET Targets
           /\ listed \in [Deploys -> SUBSET Targets] /\ clashed \in BOOLEAN
           /\ target[d] \in Targets
BY TypeFacts DEF TypeOK, KindOK

LEMMA RegisterReadInv == ASSUME Inv, NEW d \in Deploys, RegisterRead(d) PROVE Inv'
<1>1. /\ pc'[d] = "truncate" /\ \A e \in Deploys \ {d} : pc'[e] = pc[e]
  BY Going DEF RegisterRead, Labels, Ending
<1>2. /\ listed' \in [Deploys -> SUBSET Targets] /\ listed'[d] = fleet
      /\ \A e \in Deploys \ {d} : listed'[e] = listed[e]
  BY RegistryTypes DEF RegisterRead
<1>3. ~clashed' => ~clashed /\ \A e \in Deploys : ~Writing(e)
  BY DEF RegisterRead, Writing
<1>4. fleet' = fleet /\ registered' = registered
  BY DEF RegisterRead
<1>5. RegistryOK'
  <2> SUFFICES ASSUME ~clashed' PROVE RegistryOK'
    BY DEF RegistryOK
  <2>1. registered \subseteq fleet
    BY <1>3, TypeFacts DEF RegistryOK, Writing
  <2>2. \A e \in Deploys : Writing(e)' => e = d
    BY <1>1, <1>3 DEF Writing
  <2> QED
    BY <1>1, <1>2, <1>4, <2>1, <2>2 DEF RegistryOK
<1>6. clashed' \in BOOLEAN
  BY DEF RegisterRead
<1> QED
  BY <1>2, <1>4, <1>5, <1>6, RegistryTypes, RegisterMove DEF RegisterRead

LEMMA RegisterWriteInv == ASSUME Inv, NEW d \in Deploys, RegisterWrite(d) PROVE Inv'
<1> USE TypeFacts, RegistryTypes
<1>1. Writing(d) /\ clashed' = clashed
  BY DEF RegisterWrite, Writing
<1>2. ~clashed => /\ \A e \in Deploys \ {d} : ~Writing(e)
                  /\ registered \subseteq listed[d]
  BY <1>1 DEF RegistryOK
<1>3. CASE pc[d] = "truncate"
  <2>1. /\ Goto(d, "write") /\ fleet' = {} /\ listed' = listed /\ registered' = registered
    BY <1>3 DEF RegisterWrite
  <2>2. pc'[d] = "write" /\ \A e \in Deploys \ {d} : pc'[e] = pc[e]
    BY <2>1, Going DEF Labels, Ending
  <2>3. RegistryOK'
    BY <1>1, <1>2, <2>1, <2>2 DEF RegistryOK, Writing
  <2> QED
    BY <1>1, <1>3, <2>1, <2>3, RegisterMove DEF RegisterWrite
<1>4. CASE pc[d] = "write"
  <2>1. /\ Goto(d, "ended") /\ fleet' = listed[d] \cup {target[d]}
        /\ listed' = [listed EXCEPT ![d] = {}] /\ registered' = registered \cup {target[d]}
    BY <1>4 DEF RegisterWrite
  <2>2. pc'[d] = "ended" /\ \A e \in Deploys \ {d} : pc'[e] = pc[e]
    BY <2>1, Going DEF Labels
  <2>3. RegistryOK'
    <3>1. ~clashed => (\A e \in Deploys : ~Writing(e)') /\ registered' \subseteq fleet'
      BY <1>2, <2>1, <2>2 DEF Writing
    <3> QED
      BY <1>1, <3>1 DEF RegistryOK
  <2>4. fleet' \in SUBSET Targets /\ registered' \in SUBSET Targets /\ listed' \in [Deploys -> SUBSET Targets]
    BY <1>4, <2>1
  <2> QED
    BY <1>1, <1>4, <2>1, <2>3, <2>4, RegisterMove DEF RegisterWrite
<1> QED
  BY <1>3, <1>4 DEF RegisterWrite

\* d is at its end, with no cleanup after it.
LEMMA StopInv ==
    ASSUME Inv, NEW d \in Deploys, NEW r \in {"failed", "killed"}, Goto(d, "ended"),
           pc[d] \notin {"idle", "ended"}, pc[d] = "register" \/ r = "killed",
           outcome' = [outcome EXCEPT ![d] = r],
           UNCHANGED <<project, machines, fleet, listed, registered, staging, script,
                       kind, target, pin, seen, copy, left, disturbed>>,
           crashes' \in 0..MaxCrashes, clashed' \in BOOLEAN,
           ~clashed' => ~clashed /\ pc[d] # "write"
    PROVE  Inv'
<1> USE TypeFacts
<1>1. UNCHANGED <<profile, config, saving, installed, prev, service>>
  BY DEF project, machines
<1>2. /\ pc' \in [Deploys -> Labels] /\ pc'[d] = "ended"
      /\ \A e \in Deploys \ {d} : pc'[e] = pc[e]
  BY Going DEF Labels
<1>3. /\ outcome' \in [Deploys -> {"none", "ok", "refused", "failed", "killed"}] /\ outcome'[d] = r
      /\ \A e \in Deploys \ {d} : outcome'[e] = outcome[e]
  OBVIOUS
<1>4. TypeOK'
  BY <1>1, <1>2, <1>3 DEF TypeOK
<1>5. Moves(d)
  BY <1>2, <1>3 DEF Moves
<1>6. RegistryOK'
  <2> SUFFICES ASSUME ~clashed' PROVE RegistryOK'
    BY DEF RegistryOK
  <2>1. \A e \in Deploys : /\ Writing(e)' => Writing(e)
                           /\ pc[e] = "write" => pc'[e] = "write"
    BY <1>2 DEF Writing
  <2> QED
    BY <2>1 DEF RegistryOK
<1>7. (d \in Installs)' = (d \in Installs) /\ (d \in Staged)' = (d \in Staged)
  BY DEF Installs, Staged
<1>8. KindOK(d)' /\ StagingOK(d)' /\ ScriptOK(d)' /\ ToldOK(d)'
  BY <1>2, <1>3, <1>7 DEF KindOK, StagingOK, ScriptOK, ToldOK
<1>9. CopyOK(d)' /\ CheckOK(d)'
  BY <1>2, <1>7 DEF CopyOK, CheckOK, Refused
<1> QED
  BY <1>4, <1>5, <1>6, <1>8, <1>9, MovesInv DEF LocalOK

LEMMA RegisterFailsInv == ASSUME Inv, NEW d \in Deploys, RegisterFails(d) PROVE Inv'
<1>1. UNCHANGED <<fleet, listed, registered, clashed>> /\ clashed \in BOOLEAN /\ crashes \in 0..MaxCrashes
  BY DEF RegisterFails, registry, Inv, TypeOK
<1> QED
  BY <1>1, StopInv DEF RegisterFails

LEMMA KillInv == ASSUME Inv, NEW d \in Deploys, Kill(d) PROVE Inv'
<1>1. crashes' \in 0..MaxCrashes
  BY DeployAssumption DEF Kill, Inv, TypeOK
<1>2. clashed' \in BOOLEAN /\ (~clashed' => ~clashed /\ pc[d] # "write")
  BY DEF Kill
<1> QED
  BY <1>1, <1>2, StopInv DEF Kill

(***************************************************************************)
(* Operations are asked for, and the project is saved.                     *)
(***************************************************************************)
LEMMA AskInv ==
    ASSUME Inv, NEW d \in Deploys, NEW t \in Targets, NEW k, NEW label \in Labels \ {"truncate", "write"},
           Ask(d, k, t, label),
           \/ k \in {"local", "remote", "cli"} /\ label = "materialize"
           \/ k = "rollback" /\ label = "fetch"
           \/ k \in {"stop", "restart"} /\ label = "run"
           \/ k = "check" /\ label = "measure"
    PROVE  Inv'
<1> USE TypeFacts DEF Ask
<1>1. /\ kind' \in [Deploys -> Kinds \cup {None}] /\ kind'[d] = k
      /\ target' \in [Deploys -> Targets \cup {None}] /\ target'[d] = t
      /\ \A e \in Deploys \ {d} : kind'[e] = kind[e] /\ target'[e] = target[e]
  BY DEF Inv, TypeOK
<1>2. /\ pc' \in [Deploys -> Labels] /\ pc'[d] = label
      /\ \A e \in Deploys \ {d} : pc'[e] = pc[e]
  BY Going
<1>3. UNCHANGED <<profile, config, saving, installed, prev, service, fleet, listed, registered, clashed>>
  BY DEF project, machines, registry
<1>4. TypeOK'
  BY <1>1, <1>2, <1>3 DEF TypeOK
<1>5. Moves(d)
  BY <1>1, <1>2 DEF Moves
<1>6. RegistryOK'
  BY <1>2, RegistryKept DEF Writing
<1>7. script[d] = "none" /\ staging[d] = "none" /\ outcome[d] = "none"
  BY DEF ScriptOK, StagingOK, ToldOK
<1>8. /\ label = "materialize" => (d \in Installs)'
      /\ label = "run" => (d \notin Installs)' /\ (d \notin Staged)'
      /\ label = "fetch" => (d \notin Installs)'
  BY <1>1 DEF Installs, Staged
<1>9. label \in {"materialize", "fetch", "run", "measure"}
  OBVIOUS
<1>10. KindOK(d)'
  <2>1. /\ kind'[d] \in Kinds /\ target'[d] \in Targets /\ script'[d] = "none"
        /\ label = "measure" => kind'[d] = "check"
    BY <1>1, <1>7
  <2> HIDE DEF Ask
  <2> QED
    BY <1>2, <1>8, <1>9, <2>1 DEF KindOK
<1>11. StagingOK(d)' /\ ScriptOK(d)' /\ ToldOK(d)'
  BY <1>2, <1>7, <1>8, <1>9 DEF StagingOK, ScriptOK, ToldOK
<1>12. CopyOK(d)' /\ CheckOK(d)'
  BY <1>2, <1>7, <1>8, <1>9 DEF CopyOK, CheckOK
<1> QED
  BY <1>4, <1>5, <1>6, <1>10, <1>11, <1>12, MovesInv DEF LocalOK

\* A save meets the deploys that are copying; the others have their copy.
LEMMA SaveInv ==
    ASSUME Inv, Disturb, saving # None \/ saving' # None,
           UNCHANGED <<machines, registry, pc, staging, script, crashes,
                       kind, target, pin, seen, copy, outcome, left>>,
           profile' \in Profiles, config' \in Saves, saving' \in Profiles \cup {None}, SaveOK'
    PROVE  Inv'
<1>1. UNCHANGED <<installed, prev, service, fleet, listed, registered, clashed>>
  BY DEF machines, registry
<1>2. /\ disturbed' \in [Deploys -> BOOLEAN]
      /\ \A d \in Deploys : disturbed'[d] = (disturbed[d] \/ pc[d] \in {"copy profile", "copy config"})
  BY DEF Disturb, Inv, TypeOK
<1>3. TypeOK'
  <2>1. TypeOK
    BY DEF Inv
  <2> QED
    BY <1>1, <1>2, <2>1 DEF TypeOK
<1>4. RegistryOK'
  BY <1>1 DEF Inv, RegistryOK, Writing
<1>5. ASSUME NEW d \in Deploys PROVE LocalOK(d)'
  <2> USE TypeFacts
  <2>1. (d \in Installs)' = (d \in Installs) /\ (d \in Staged)' = (d \in Staged)
    BY DEF Installs, Staged
  <2>2. KindOK(d)' /\ StagingOK(d)' /\ ScriptOK(d)'
    BY <2>1 DEF KindOK, StagingOK, ScriptOK
  <2>3. ToldOK(d)' /\ CheckOK(d)'
    BY <2>1 DEF ToldOK, CheckOK, Refused
  <2>4. CopyOK(d)'
    BY <1>2, <2>1 DEF CopyOK
  <2> QED
    BY <2>2, <2>3, <2>4 DEF LocalOK
<1> QED
  BY <1>3, <1>4, <1>5 DEF Inv

LEMMA SaveConfigsInv == ASSUME Inv, NEW v \in 1..MaxVersion, SaveConfigs(v) PROVE Inv'
<1>1. config' \in Saves
  BY DeployAssumption DEF SaveConfigs, Inv, TypeOK, Saves
<1>2. saving' \in Profiles
  BY <1>1 DEF SaveConfigs, Profiles
<1>3. saving' # None
  BY <1>2, DeployAssumption
<1>4. SaveOK'
  BY <1>3 DEF SaveOK, SaveConfigs
<1>5. profile' \in Profiles
  BY DEF SaveConfigs, Inv, TypeOK
<1> QED
  BY <1>1, <1>2, <1>3, <1>4, <1>5, SaveInv DEF SaveConfigs

LEMMA SaveProfileInv == ASSUME Inv, SaveProfile PROVE Inv'
<1>1. profile' \in Profiles /\ config' = config /\ config \in Saves
  BY DEF SaveProfile, Inv, TypeOK
<1>2. SaveOK'
  BY DEF SaveProfile, Inv, SaveOK
<1> QED
  BY <1>1, <1>2, SaveInv DEF SaveProfile

LEMMA NextInv == Inv /\ [Next]_vars => Inv'
<1> SUFFICES ASSUME Inv, [Next]_vars PROVE Inv'
  OBVIOUS
<1>1. CASE UNCHANGED vars
  <2>1. UNCHANGED <<profile, config, saving, installed, prev, service, fleet, listed, registered, clashed,
                    kind, target, pin, seen, copy, outcome, left, disturbed, pc, staging, script, crashes>>
    BY <1>1 DEF vars, project, machines, registry, work
  <2>2. TypeOK'
    BY <2>1 DEF Inv, TypeOK
  <2>3. SaveOK' /\ RegistryOK'
    BY <2>1 DEF Inv, SaveOK, RegistryOK, Writing
  <2>4. ASSUME NEW d \in Deploys PROVE LocalOK(d)'
    BY <2>1 DEF Inv, LocalOK, KindOK, StagingOK, ScriptOK, ToldOK, CopyOK, CheckOK, Refused, Installs, Staged
  <2> QED
    BY <2>2, <2>3, <2>4 DEF Inv
<1>2. ASSUME NEW d \in Deploys, Step(d) PROVE Inv'
  <2>1. CASE Prepare(d)
    BY <2>1, MaterializeInv, CopyFilesInv, CheckDowngradeInv, FetchInv, RefuseInv DEF Prepare
  <2>2. CASE Remote(d)
    BY <2>2, MakeStagingInv, PushInv, TargetFailsInv, CleanupInv DEF Remote
  <2>3. CASE RunInstallSh(d)
    BY <2>3, RunScriptInv, CollectInv, TimeOutInv DEF RunInstallSh
  <2>4. CASE AutoRegisterHost(d)
    BY <2>4, RegisterReadInv, RegisterWriteInv, RegisterFailsInv DEF AutoRegisterHost
  <2>5. CASE ControlService(d) \/ Measure(d)
    BY <2>5, SystemctlInv, IsActiveInv, MeasureInv DEF ControlService
  <2> QED
    BY <1>2, <2>1, <2>2, <2>3, <2>4, <2>5 DEF Step
<1>3. ASSUME NEW d \in Deploys, NEW t \in Targets,
             AskLocal(d, t) \/ AskRemote(d, t) \/ AskRollback(d, t) \/ AskService(d, t) \/ AskCheck(d, t)
      PROVE  Inv'
  <2>1. {"materialize", "fetch", "run", "measure"} \subseteq Labels \ {"truncate", "write"}
    BY GoLabels
  <2> QED
    BY <1>3, <2>1, AskInv DEF AskLocal, AskRemote, AskRollback, AskService, AskCheck
<1>4. ASSUME NEW d \in Deploys, Script(d) \/ Kill(d) PROVE Inv'
  BY <1>4, InstallSwapsInv, InstallEndsInv, KillInv DEF Script
<1> QED
  BY <1>1, <1>2, <1>3, <1>4, SaveConfigsInv, SaveProfileInv DEF Next

LEMMA InvAlways == Spec => []Inv
BY InitInv, NextInv, PTL DEF Spec

(***************************************************************************)
(* What follows from it.                                                   *)
(***************************************************************************)
\* Every operation is at one of its steps, on a target with a version.
THEOREM DeployTypeOK == Spec => []TypeOK
<1>1. Inv => TypeOK
  BY DEF Inv
<1> QED
  BY <1>1, InvAlways, PTL

\* install.sh finds its directory whole while it is waited for, and the directory goes
\* with the operation unless its removal failed.
THEOREM DeployStagingSafe == Spec => []StagingSafe
<1>1. ASSUME Inv PROVE StagingSafe
  <2>1. RunsWhole
    BY <1>1 DEF Inv, LocalOK, StagingOK, RunsWhole, Intact
  <2>2. StagingRemoved
    BY <1>1 DEF Inv, LocalOK, StagingOK, StagingRemoved
  <2> QED
    BY <2>1, <2>2 DEF StagingSafe
<1> QED
  BY <1>1, InvAlways, PTL

\* "Nothing was deployed" and success are told only where they are so, and what is
\* deployed is one save of the project with the install.sh of the version it pins.
THEOREM DeployInstallTrue == Spec => []InstallTrue
<1>1. ASSUME Inv PROVE InstallTrue
  <2>1. ASSUME NEW d \in Installs PROVE d \in Deploys
    BY DEF Installs
  <2>2. OutcomeTrue
    BY <1>1, <2>1 DEF Inv, LocalOK, ToldOK, OutcomeTrue
  <2>3. CopyTrue
    BY <1>1, <2>1 DEF Inv, LocalOK, CopyOK, CopyTrue
  <2> QED
    BY <2>2, <2>3 DEF InstallTrue
<1> QED
  BY <1>1, InvAlways, PTL

\* A host whose registration has ended is in fleet.yaml as long as registrations do not
\* overlap and none is cut short.
THEOREM DeployRegisteredStays == Spec => []RegisteredStays
<1>1. Inv => RegisteredStays
  BY DEF Inv, RegistryOK, RegisteredStays
<1> QED
  BY <1>1, InvAlways, PTL

\* Only install.sh changes an installed version.
LEMMA OnlySwaps ==
    ASSUME [Next]_vars, installed' # installed
    PROVE  \E d \in Deploys : InstallSwaps(d)
<1>1. ASSUME NEW d \in Deploys, Step(d) PROVE FALSE
  <2>1. ~Prepare(d)
    BY DEF Prepare, Materialize, CopyFiles, CheckDowngrade, Fetch, Refuse, machines
  <2>2. ~Remote(d)
    BY DEF Remote, MakeStaging, Push, TargetFails, Cleanup, machines
  <2>3. ~RunInstallSh(d) /\ ~Measure(d)
    BY DEF RunInstallSh, RunScript, Collect, TimeOut, Measure, machines
  <2>4. ~AutoRegisterHost(d) /\ ~ControlService(d)
    BY DEF AutoRegisterHost, RegisterRead, RegisterWrite, RegisterFails, ControlService, Systemctl,
           IsActive, machines
  <2> QED
    BY <1>1, <2>1, <2>2, <2>3, <2>4 DEF Step
<1>2. ASSUME NEW d \in Deploys, NEW t \in Targets,
             AskLocal(d, t) \/ AskRemote(d, t) \/ AskRollback(d, t) \/ AskService(d, t) \/ AskCheck(d, t)
      PROVE  FALSE
  BY <1>2 DEF AskLocal, AskRemote, AskRollback, AskService, AskCheck, Ask, machines
<1>3. \A v : ~SaveConfigs(v)
  BY DEF SaveConfigs, machines
<1>4. ~SaveProfile /\ \A d \in Deploys : ~Kill(d) /\ ~InstallEnds(d)
  BY DEF SaveProfile, Kill, InstallEnds, machines
<1>5. Next
  BY DEF vars, machines
<1> QED
  BY <1>1, <1>2, <1>3, <1>4, <1>5 DEF Next, Script

LEMMA DownStep ==
    ASSUME Inv, NEW d \in Deploys, InstallSwaps(d), NEW t \in Targets, installed'[t] < installed[t]
    PROVE  /\ target[d] = t /\ script[d] = "running"
           /\ kind[d] = "rollback" \/ seen[d] # installed[t] \/ copy[d].pin # pin[d]
<1> USE TypeFacts DEF InstallSwaps
<1>1. target[d] \in Targets /\ kind[d] \in Kinds /\ script[d] = "running"
  BY DEF KindOK, ScriptOK
<1>2. copy[d].pin \in Versions /\ pin[d] \in Versions /\ installed[t] \in Versions
  BY DEF Copies
<1>3. target[d] = t
  BY <1>2, DeployAssumption DEF Versions
<1>4. ASSUME kind[d] # "rollback", seen[d] = installed[t], copy[d].pin = pin[d] PROVE FALSE
  <2>1. d \in Installs
    BY <1>1, <1>4 DEF KindOK, Installs, Staged
  <2>2. installed'[t] = copy[d].pin /\ ~(pin[d] >= Guard /\ copy[d].pin < installed[t])
    BY <1>3, <2>1
  <2>3. ~Refused(pin[d], seen[d])
    BY <1>1, <2>1 DEF CheckOK
  <2> QED
    BY <1>2, <1>4, <2>2, <2>3, DeployAssumption DEF Refused, Versions
<1> QED
  BY <1>1, <1>3, <1>4

\* A lower version is installed by a rollback only, or by a deploy whose check of the
\* target, or whose copy of the pin, another operation or a save has overtaken.
THEOREM DeployNoSilentDowngrade == Spec => NoSilentDowngrade
<1>1. ASSUME Inv, [Next]_vars
      PROVE  [\A t \in Targets : installed'[t] < installed[t] =>
                 \E d \in Deploys :
                    /\ target[d] = t /\ script[d] = "running"
                    /\ kind[d] = "rollback" \/ seen[d] # installed[t] \/ copy[d].pin # pin[d]]_vars
  <2>1. ASSUME NEW t \in Targets, installed'[t] < installed[t]
        PROVE  \E d \in Deploys :
                 /\ target[d] = t /\ script[d] = "running"
                 /\ kind[d] = "rollback" \/ seen[d] # installed[t] \/ copy[d].pin # pin[d]
    <3>1. installed[t] \in Versions /\ installed' # installed
      BY <1>1, <2>1, DeployAssumption DEF Inv, TypeOK, Versions
    <3>2. PICK d \in Deploys : InstallSwaps(d)
      BY <1>1, <3>1, OnlySwaps
    <3> QED
      BY <1>1, <2>1, <3>2, DownStep
  <2> QED
    BY <2>1
<1> QED
  BY <1>1, InvAlways, PTL DEF Spec, NoSilentDowngrade

(***************************************************************************)
(* One command on the target, RemoteCommand: whatever it writes and        *)
(* however large the window is, a result holds all of the output. Deploy   *)
(* sees only that run returns or runs out of time: the two share no state. *)
(***************************************************************************)
\* What is read was filed, what is filed was written, and the end of the output comes
\* after all of it.
CommandCountsInv ==
    \A s \in Streams :
        /\ read[s] <= sent[s]
        /\ output[s] + sent[s] <= MaxSent
        /\ eof => output[s] = 0

\* Once the flag was up nothing more is filed: what a drain leaves read stays all
\* there is.
CommandDrainInv ==
    /\ ended => eof \/ closed
    /\ ended /\ place \in {Err, "test", "status", "returned"} => read[Out] = sent[Out]
    /\ ended /\ place \in {"test", "status", "returned"} => read[Err] = sent[Err]
    /\ place \in {"status", "returned"} => ended

CommandInv == CommandTypeOK /\ CommandCountsInv /\ CommandDrainInv

\* The streams and the other steps of _collect are told apart.
LEMMA CommandLabelsDistinct ==
    /\ Out # Err
    /\ Out # "flag" /\ Out # "test" /\ Out # "status"
    /\ Out # "returned" /\ Out # "timed out"
    /\ Err # "flag" /\ Err # "test" /\ Err # "status"
    /\ Err # "returned" /\ Err # "timed out"
BY CommandAssumption

\* Nothing has been filed yet.
LEMMA CommandInitInv == ASSUME CommandInit PROVE CommandInv
<1> USE CommandAssumption DEF CommandInit, Counts
<1>1. output \in Counts /\ sent \in Counts /\ read \in Counts
  OBVIOUS
<1>2. eof \in BOOLEAN /\ closed \in BOOLEAN /\ status \in BOOLEAN /\ ended \in BOOLEAN
  OBVIOUS
<1>3. CommandCountsInv
  <2>1. \A s \in Streams : read[s] = 0 /\ sent[s] = 0 /\ output[s] \in 0..MaxSent
    OBVIOUS
  <2> QED
    BY <2>1 DEF CommandCountsInv
<1>4. CommandDrainInv
  BY CommandLabelsDistinct DEF CommandDrainInv
<1> QED
  BY <1>1, <1>2, <1>3, <1>4 DEF CommandInv, CommandTypeOK

\* What is filed was written, and no flag was up.
LEMMA CommandDataInv ==
    ASSUME CommandInv, NEW s \in Streams, Data(s) PROVE CommandInv'
<1> USE CommandAssumption DEF CommandInv, Counts
<1>1. /\ output \in [Streams -> 0..MaxSent] /\ sent \in [Streams -> 0..MaxSent]
      /\ output[s] > 0 /\ output[s] + sent[s] <= MaxSent /\ read[s] <= sent[s]
  BY DEF Data, CommandTypeOK, CommandCountsInv
<1>2. output' \in Counts /\ sent' \in Counts
  BY <1>1 DEF Data
<1>3. CommandTypeOK'
  BY <1>2 DEF Data, CommandTypeOK
<1>4. CommandCountsInv'
  <2>1. /\ \A t \in Streams :
               /\ output[t] \in 0..MaxSent /\ sent[t] \in 0..MaxSent
               /\ read[t] \in 0..MaxSent
        /\ \A t \in Streams : read[t] <= sent[t] /\ output[t] + sent[t] <= MaxSent
    BY DEF CommandTypeOK, CommandCountsInv
  <2>2. /\ output'[s] = output[s] - 1 /\ sent'[s] = sent[s] + 1
        /\ \A t \in Streams \ {s} : output'[t] = output[t] /\ sent'[t] = sent[t]
        /\ read' = read
    BY <1>1 DEF Data
  <2>3. ~eof'
    BY DEF Data
  <2> QED
    BY <2>1, <2>2, <2>3 DEF CommandCountsInv
<1>5. ~ended
  BY DEF Data, CommandDrainInv
<1>6. CommandDrainInv'
  BY <1>5 DEF Data, CommandDrainInv
<1> QED
  BY <1>3, <1>4, <1>6

\* A drain reads what was filed.
LEMMA CommandRecvInv ==
    ASSUME CommandInv, NEW s \in Streams, Recv(s) PROVE CommandInv'
<1> USE CommandAssumption DEF CommandInv, Counts
<1>1. read \in [Streams -> 0..MaxSent] /\ sent[s] \in 0..MaxSent
  BY DEF CommandTypeOK
<1>2. read' = [read EXCEPT ![s] = sent[s]] /\ read'[s] = sent[s]
  BY <1>1 DEF Recv
<1>3. CommandTypeOK'
  BY <1>1, <1>2 DEF Recv, CommandTypeOK, channel
<1>4. CommandCountsInv'
  <2>1. /\ read'[s] = sent[s]
        /\ \A t \in Streams \ {s} : read'[t] = read[t]
        /\ sent' = sent /\ output' = output /\ eof' = eof
    BY <1>1, <1>2 DEF Recv, channel
  <2> QED
    BY <1>1, <2>1 DEF CommandCountsInv
<1>5. place = s /\ place' = s /\ s \in {Out, Err}
  BY DEF Recv, Streams
<1>6. CommandDrainInv'
  <2>1. sent' = sent /\ ended' = ended /\ eof' = eof /\ closed' = closed
    BY DEF Recv, channel
  <2>2. CASE s = Out
    BY <1>5, <2>1, <2>2, CommandLabelsDistinct DEF CommandDrainInv
  <2>3. CASE s = Err
    <3>1. read'[Out] = read[Out]
      BY <1>1, <1>2, <2>3, CommandLabelsDistinct DEF Streams
    <3> QED
      BY <1>5, <2>1, <2>3, <3>1, CommandLabelsDistinct DEF CommandDrainInv
  <2> QED
    BY <1>5, <2>2, <2>3
<1> QED
  BY <1>3, <1>4, <1>6

\* A stream is left only when all that was filed is read.
LEMMA CommandDrainedInv ==
    ASSUME CommandInv, NEW s \in Streams, Drained(s) PROVE CommandInv'
<1>1. s \in {Out, Err}
  BY DEF Streams
<1>2. CommandTypeOK' /\ CommandCountsInv'
  BY CommandLabelsDistinct
     DEF CommandInv, Drained, CommandTypeOK, CommandCountsInv, Counts,
         channel
<1>3. CommandDrainInv'
  BY <1>1, CommandLabelsDistinct DEF CommandInv, Drained, CommandDrainInv, channel
<1> QED
  BY <1>2, <1>3 DEF CommandInv

\* The actions that change neither counts nor what is read.
LEMMA CommandOtherInv ==
    ASSUME CommandInv,
           \/ ReadFlag \/ Test \/ Return \/ RunTimesOut
           \/ ExitStatus \/ EndOfOutput \/ Close
    PROVE  CommandInv'
<1>1. CASE ReadFlag
  BY <1>1, CommandLabelsDistinct
     DEF CommandInv, ReadFlag, CommandTypeOK, CommandCountsInv, CommandDrainInv,
         Counts, channel
<1>2. CASE Test
  BY <1>2, CommandLabelsDistinct
     DEF CommandInv, Test, CommandTypeOK, CommandCountsInv, CommandDrainInv,
         Counts, channel
<1>3. CASE Return
  BY <1>3, CommandLabelsDistinct
     DEF CommandInv, Return, CommandTypeOK, CommandCountsInv, CommandDrainInv,
         Counts, channel
<1>4. CASE RunTimesOut
  BY <1>4, CommandLabelsDistinct
     DEF CommandInv, RunTimesOut, CommandTypeOK, CommandCountsInv, CommandDrainInv,
         Counts
<1>5. CASE ExitStatus
  BY <1>5
     DEF CommandInv, ExitStatus, CommandTypeOK, CommandCountsInv, CommandDrainInv,
         Counts
<1>6. CASE EndOfOutput
  BY <1>6
     DEF CommandInv, EndOfOutput, CommandTypeOK, CommandCountsInv, CommandDrainInv,
         Counts
<1>7. CASE Close
  BY <1>7
     DEF CommandInv, Close, CommandTypeOK, CommandCountsInv, CommandDrainInv,
         Counts
<1> QED
  BY <1>1, <1>2, <1>3, <1>4, <1>5, <1>6, <1>7

\* Every step keeps the invariant.
LEMMA CommandNextInv ==
    ASSUME CommandInv, [CommandNext]_commandVars PROVE CommandInv'
<1>1. CASE UNCHANGED commandVars
  BY <1>1
     DEF commandVars, channel, CommandInv, CommandTypeOK, CommandCountsInv,
         CommandDrainInv
<1>2. CASE CommandNext
  BY <1>2, CommandDataInv, CommandRecvInv, CommandDrainedInv, CommandOtherInv
     DEF CommandNext, CollectOutput, Server
<1> QED
  BY <1>1, <1>2

\* So it holds throughout.
LEMMA CommandInvAlways == CommandSpec => []CommandInv
BY CommandInitInv, CommandNextInv, PTL DEF CommandSpec

\* The counts stay what the command can have written, and _collect at one of its steps.
THEOREM RemoteTypeOK == CommandSpec => []CommandTypeOK
<1>1. CommandInv => CommandTypeOK
  BY DEF CommandInv
<1> QED
  BY <1>1, CommandInvAlways, PTL

\* What _collect returns is all that was filed and, if the output had ended, all that
\* the command wrote: the flag is read before the drain.
THEOREM RemoteAllCollected == CommandSpec => []AllCollected
<1>1. CommandInv => AllCollected
  BY DEF CommandInv, CommandDrainInv, CommandCountsInv, AllCollected, Streams
<1> QED
  BY <1>1, CommandInvAlways, PTL
=============================================================================
