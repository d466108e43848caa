--------------------------- MODULE ProjectFilesProofs ---------------------------
(***************************************************************************)
(* Proofs about ProjectFiles for any number of threads and configs.        *)
(*                                                                         *)
(* The argument: saves exclude each other (PlaceInv: who saves holds the   *)
(* lock), and as long as no save has met a migration no migration is under *)
(* way beside a save (SoloInv). So the configs a writer has put in place   *)
(* stay until its profile names them (FilesInv), which is DeclaredExist,   *)
(* and what a save leaves is what it wrote, SaveExact. LegacyUntilDone     *)
(* needs neither: RetiredInv says how far a migration has come.            *)
(* Reads are proved below, from what their stamps can mean.                *)
(***************************************************************************)
EXTENDS ProjectFiles, TLAPS

\* t is saving: its request has the lock and has begun to write.
Saves(t) == op[t] = "save" /\ pc[t] \in Writing

\* Where a request is and what it serves go together.
PlaceInv ==
    \A t \in Threads :
        /\ pc[t] \in {"parse"} \cup Retiring \cup Reading => op[t] # "save"
        /\ pc[t] = "wait" => op[t] = "save"
        /\ Saves(t) => lock = t
        /\ pc[t] \in Writing => new[t].writer # Absent
        /\ pc[t] \in Writing /\ op[t] # "save" => new[t].declares = Configs /\ pc[t] # "prune"

\* How far a migration has come by the time it is where it is.
RetiredInv ==
    /\ \A t \in Threads :
        /\ pc[t] \in {"list", "prune", "sidecar"} \cup Retiring => profile # NoProfile
        /\ pc[t] \in Retiring => sidecar # Absent
        /\ pc[t] \in {"copy", "retire"} => backup # "none"
    /\ LegacyUntilDone

\* Until a save has met a migration, there is none beside a save.
SoloInv ==
    ~raced => \A t \in Threads : Saves(t) => ~system /\ \A u \in Threads : ~Migrates(u)

\* What a writer has written is there, and a save has all to itself.
FilesOf(t) ==
    /\ pc[t] = "configs" =>
          \A c \in new[t].declares \ todo[t] :
              config[c] # Absent /\ (Saves(t) => config[c] = new[t].writer)
    /\ Saves(t) /\ pc[t] \in {"list", "prune", "sidecar"} =>
          profile = new[t] /\ \A c \in new[t].declares : config[c] = new[t].writer
    /\ pc[t] = "prune" =>
          /\ todo[t] \cap new[t].declares = {}
          /\ \A c \in Configs \ new[t].declares : config[c] # Absent => c \in todo[t]
    /\ Saves(t) /\ pc[t] = "sidecar" =>
          \A c \in Configs \ new[t].declares : config[c] = Absent

FilesInv == ~raced => \A t \in Threads : FilesOf(t)

IInv ==
    /\ TypeOK
    /\ PlaceInv
    /\ RetiredInv
    /\ SoloInv
    /\ FilesInv
    /\ DeclaredExist
-----------------------------------------------------------------------------
\* The initial state satisfies every part of the invariant.
LEMMA InvInit == Init => IInv
<1> SUFFICES ASSUME Init PROVE IInv
    OBVIOUS
<1> USE FilesAssumption
<1>1. TypeOK
  <2>1. Blank \in Entries
    BY DEF Blank, Entries, Writers, Absent
  <2>2. profile \in Documents /\ config \in [Configs -> Writers] /\ sidecar \in Writers
    BY DEF Init, LegacyProject, AuthoredProject, Documents, NoProfile, Writers, Absent
  <2>3. system \in BOOLEAN /\ raced \in BOOLEAN
    BY Zenon DEF Init, LegacyProject, AuthoredProject
  <2>4. cache \in Entries \cup {None} /\ read \in [Threads -> Entries]
    BY <2>1 DEF Init
  <2>5. /\ lock \in Threads \cup {None}
        /\ op \in [Threads -> {"get", "list", "save", None}]
        /\ new \in [Threads -> Documents]
        /\ owned \in [Threads -> SUBSET Configs]
        /\ todo \in [Threads -> SUBSET Files]
        /\ backup \in {"none", "partial", "whole"}
    <3>1. NoProfile \in Documents
      BY DEF NoProfile, Documents, Writers, Absent
    <3> QED
      BY <3>1 DEF Init
  <2>6. /\ writers \in Writers /\ saved \in Writers
        /\ floor \in [Threads -> Writers]
        /\ crashes \in 0..MaxCrashes
    BY DEF Init, Writers
  <2>7. pc \in [Threads -> {"idle", "wait", "parse"} \cup Writing \cup Retiring \cup Reading]
    BY DEF Init
  <2> QED
    BY <2>2, <2>3, <2>4, <2>5, <2>6, <2>7 DEF TypeOK
<1>2. PlaceInv /\ SoloInv /\ FilesInv
  BY DEF Init, PlaceInv, SoloInv, FilesInv, FilesOf, Saves, Writing, Retiring, Reading
<1>3. RetiredInv
  BY DEF Init, LegacyProject, AuthoredProject, RetiredInv, LegacyUntilDone, Retiring, NoProfile, Absent
<1>4. DeclaredExist
  BY DEF Init, LegacyProject, AuthoredProject, DeclaredExist, NoProfile, Absent
<1> QED
  BY <1>1, <1>2, <1>3, <1>4 DEF IInv

-----------------------------------------------------------------------------
(* Types.                                                                  *)

\* A read that has not read anything.
LEMMA BlankType == Blank \in Entries
BY FilesAssumption DEF Entries, Blank, Writers, Absent

\* Every file's content on disk is a writer or Absent.
LEMMA OnDiskType == TypeOK => \A f \in Files : OnDisk(f) \in Writers
BY DEF TypeOK, OnDisk, Files, Documents

\* What a read holds after it stamped or loaded a file.
LEMMA ReadTypes ==
    ASSUME TypeOK, NEW t \in Threads, NEW f \in Files
    PROVE  /\ Stamp(t, f) \in Entries
           /\ Load(t, f) \in Entries
           /\ [Load(t, f) EXCEPT !.declares = profile.declares] \in Entries
<1>1. read[t] \in Entries /\ OnDisk(f) \in Writers
  BY OnDiskType DEF TypeOK
<1>2. profile.declares \in SUBSET Configs
  BY DEF TypeOK, Documents
<1>3. Stamp(t, f) \in Entries
  BY <1>1 DEF Stamp, Entries
<1>4. Load(t, f) \in Entries
  BY <1>1 DEF Load, Entries
<1>5. [Load(t, f) EXCEPT !.declares = profile.declares] \in Entries
  BY <1>2, <1>4 DEF Entries
<1> QED
  BY <1>3, <1>4, <1>5

Labels == {"idle", "wait", "parse"} \cup Writing \cup Retiring \cup Reading

\* A request's end keeps the types.
LEMMA AnswerTypes ==
    ASSUME TypeOK, NEW t \in Threads, Answer(t)
    PROVE  /\ pc' \in [Threads -> Labels] /\ op' \in [Threads -> {"get", "list", "save", None}]
           /\ new' \in [Threads -> Documents] /\ owned' \in [Threads -> SUBSET Configs]
           /\ todo' \in [Threads -> SUBSET Files] /\ floor' \in [Threads -> Writers]
           /\ lock' \in Threads \cup {None} /\ read' \in [Threads -> Entries]
<1>1. NoProfile \in Documents /\ 0 \in Writers
  BY FilesAssumption DEF NoProfile, Documents, Writers, Absent
<1>2. read' \in [Threads -> Entries]
  BY BlankType DEF TypeOK, Answer
<1> QED
  BY <1>1, <1>2 DEF TypeOK, Answer, Goto, Labels

\* A step of a read keeps the types.
LEMMA ReadStepTypes ==
    ASSUME TypeOK, NEW t \in Threads, NEW label \in Labels, NEW rest \in SUBSET Files,
           NEW r \in Entries, ReadStep(t, label, rest, r)
    PROVE  /\ pc' \in [Threads -> Labels] /\ todo' \in [Threads -> SUBSET Files]
           /\ read' \in [Threads -> Entries]
BY DEF TypeOK, ReadStep, Goto, Labels

\* Every step keeps the types.
LEMMA TypeStep == TypeOK /\ [Next]_vars => TypeOK'
<1> SUFFICES ASSUME TypeOK, [Next]_vars PROVE TypeOK'
    OBVIOUS
<1> USE FilesAssumption
<1>1. ASSUME NEW t \in Threads, Answer(t), UNCHANGED <<disk, writers, raced, crashes>>,
             cache' \in Entries \cup {None}, saved' \in Writers
      PROVE  TypeOK'
  <2>1. UNCHANGED <<system, backup, profile, config, sidecar, writers, raced, crashes>>
    BY <1>1 DEF disk
  <2> QED
    BY <1>1, <2>1, AnswerTypes DEF TypeOK, Labels
<1>2. ASSUME NEW t \in Threads, NEW label \in Labels, NEW rest \in SUBSET Files,
             Step(t, label, rest), UNCHANGED cache,
             system' \in BOOLEAN, backup' \in {"none", "partial", "whole"},
             profile' \in Documents, config' \in [Configs -> Writers], sidecar' \in Writers
      PROVE  TypeOK'
  <2>1. /\ pc' \in [Threads -> Labels] /\ todo' \in [Threads -> SUBSET Files]
        /\ UNCHANGED <<lock, op, new, owned, read, floor, writers, saved, raced, crashes>>
    BY <1>2 DEF Step, Goto, TypeOK, Labels
  <2> QED
    BY <1>2, <2>1 DEF TypeOK, Labels
<1>3. ASSUME NEW t \in Threads, NEW label \in Labels, NEW rest \in SUBSET Files,
             NEW r \in Entries, ReadStep(t, label, rest, r),
             cache' \in Entries \cup {None}, owned' \in [Threads -> SUBSET Configs]
      PROVE  TypeOK'
  <2>1. UNCHANGED <<system, backup, profile, config, sidecar, lock, op, new, floor,
                    writers, saved, raced, crashes>>
    BY <1>3 DEF ReadStep, disk
  <2> QED
    BY <1>3, <2>1, ReadStepTypes DEF TypeOK, Labels
<1>4. ASSUME NEW t \in Threads, NEW o \in {"get", "list", "save"}, Ask(t, o)
      PROVE  TypeOK'
  <2>1. /\ op' \in [Threads -> {"get", "list", "save", None}]
        /\ pc' \in [Threads -> Labels]
        /\ floor' \in [Threads -> Writers]
    <3>1. /\ (IF o = "save" THEN "wait" ELSE IF system THEN "parse" ELSE "look") \in Labels
          /\ (IF o = "get" THEN saved ELSE 0) \in Writers
      <4>1. {"wait", "parse", "look"} \subseteq Labels
        BY DEF Labels, Reading
      <4>2. 0 \in Writers
        BY DEF Writers
      <4>3. saved \in Writers
        BY DEF TypeOK
      <4> QED
        BY <4>1, <4>2, <4>3, Zenon
    <3>2. /\ op' = [op EXCEPT ![t] = o]
          /\ floor' = [floor EXCEPT ![t] = IF o = "get" THEN saved ELSE 0]
          /\ pc' = [pc EXCEPT ![t] = IF o = "save" THEN "wait" ELSE IF system THEN "parse" ELSE "look"]
      BY <1>4 DEF Ask, Goto
    <3> QED
      BY <3>1, <3>2 DEF TypeOK, Labels
  <2>2. UNCHANGED <<system, backup, profile, config, sidecar, lock, cache, new, owned, todo, read,
                    writers, saved, raced, crashes>>
    BY <1>4 DEF Ask, disk
  <2> QED
    BY <2>1, <2>2 DEF TypeOK, Labels
<1>5. ASSUME NEW t \in Threads, BeginSave(t) \/ Parse(t)
      PROVE  TypeOK'
  <2>1. PICK d \in SUBSET Configs : Compose(t, d)
    BY <1>5 DEF BeginSave, Parse
  <2>2. writers + 1 \in Writers
    BY <2>1 DEF Compose, TypeOK, Writers
  <2>3. /\ writers' \in Writers
        /\ new' \in [Threads -> Documents]
        /\ pc' \in [Threads -> Labels]
    BY <2>1, <2>2 DEF Compose, Goto, TypeOK, Documents, Labels, Writing
  <2>4. UNCHANGED <<system, backup, profile, config, sidecar, cache, op, owned, todo, read, floor,
                    saved, crashes>>
    BY <2>1 DEF Compose, disk
  <2>5. lock' \in Threads \cup {None}
    BY <1>5 DEF BeginSave, Parse, TypeOK
  <2>6. raced' \in BOOLEAN
    <3>1. CASE Parse(t)
      BY <3>1 DEF Parse, TypeOK
    <3>2. CASE BeginSave(t)
      BY <3>2, Zenon DEF BeginSave, TypeOK
    <3> QED
      BY <1>5, <3>1, <3>2
  <2> QED
    BY <2>3, <2>4, <2>5, <2>6 DEF TypeOK, Labels
<1>6. ASSUME NEW t \in Threads, OpenBackup(t) \/ WriteBackup(t) \/ RetireSystem(t)
      PROVE  TypeOK'
  <2>1. {"copy", "retire", "look"} \subseteq Labels
    BY DEF Labels, Retiring, Reading
  <2>2. PICK label \in Labels : Step(t, label, {})
    BY <1>6, <2>1 DEF OpenBackup, WriteBackup, RetireSystem
  <2>3. UNCHANGED <<profile, config, sidecar, cache>>
    BY <1>6 DEF OpenBackup, WriteBackup, RetireSystem
  <2>4. backup' \in {"none", "partial", "whole"}
    BY <1>6 DEF OpenBackup, WriteBackup, RetireSystem, TypeOK
  <2>5. system' \in BOOLEAN
    BY <1>6, Zenon DEF OpenBackup, WriteBackup, RetireSystem, TypeOK
  <2> QED
    BY <1>2, <2>2, <2>3, <2>4, <2>5 DEF TypeOK
<1>7. ASSUME NEW t \in Threads, ReadOwned(t)
      PROVE  TypeOK'
  <2>1. /\ owned' \in [Threads -> SUBSET Configs]
        /\ todo' \in [Threads -> SUBSET Files]
        /\ pc' \in [Threads -> Labels]
    BY <1>7 DEF ReadOwned, Goto, TypeOK, Documents, Files, Labels, Writing
  <2>2. UNCHANGED <<system, backup, profile, config, sidecar, lock, cache, op, new, read, floor,
                    writers, saved, raced, crashes>>
    BY <1>7 DEF ReadOwned, disk
  <2> QED
    BY <2>1, <2>2 DEF TypeOK, Labels
<1>8. ASSUME NEW t \in Threads, NEW c \in Configs, WriteConfig(t, c) \/ Retire(t, c)
      PROVE  TypeOK'
  <2>1. {"configs", "sidecar", "prune"} \subseteq Labels
    BY DEF Labels, Writing
  <2>2. PICK label \in Labels, rest \in SUBSET Files : Step(t, label, rest)
    BY <1>8, <2>1 DEF WriteConfig, Retire, TypeOK
  <2>3. UNCHANGED <<system, backup, profile, sidecar, cache>>
    BY <1>8 DEF WriteConfig, Retire
  <2>4. new[t].writer \in Writers /\ Absent \in Writers
    BY DEF TypeOK, Documents, Writers, Absent
  <2>5. config' \in [Configs -> Writers]
    BY <1>8, <2>4 DEF WriteConfig, Retire, TypeOK
  <2> QED
    BY <1>2, <2>2, <2>3, <2>5 DEF TypeOK
<1>9. ASSUME NEW t \in Threads, WriteProfile(t) \/ ListOrphans(t)
      PROVE  TypeOK'
  <2>1. {"list", "sidecar", "prune"} \subseteq Labels
    BY DEF Labels, Writing
  <2>2. (owned[t] \cup {c \in Configs : config[c] # Absent}) \ new[t].declares \in SUBSET Files
    BY DEF TypeOK, Files
  <2>3. PICK label \in Labels, rest \in SUBSET Files : Step(t, label, rest)
    BY <1>9, <2>1, <2>2 DEF WriteProfile, ListOrphans
  <2>4. UNCHANGED <<system, backup, config, sidecar, cache>>
    BY <1>9 DEF WriteProfile, ListOrphans, disk
  <2>5. profile' \in Documents
    BY <1>9 DEF WriteProfile, ListOrphans, disk, TypeOK
  <2> QED
    BY <1>2, <2>3, <2>4, <2>5 DEF TypeOK
<1>10. ASSUME NEW t \in Threads, WriteSidecar(t)
       PROVE  TypeOK'
  <2>1. new[t].writer \in Writers
    BY DEF TypeOK, Documents
  <2>2. sidecar' \in Writers /\ UNCHANGED <<system, backup, profile, config, cache>>
    BY <1>10, <2>1 DEF WriteSidecar
  <2>3. CASE op[t] = "save"
    <3>1. Answer(t) /\ saved' = new[t].writer /\ UNCHANGED <<writers, raced, crashes>>
      BY <1>10, <2>3 DEF WriteSidecar
    <3> QED
      BY <2>1, <2>2, <3>1, AnswerTypes DEF TypeOK, Labels
  <2>4. CASE op[t] # "save"
    <3>1. "backup" \in Labels /\ Step(t, "backup", {})
      BY <1>10, <2>4 DEF WriteSidecar, Labels, Retiring
    <3> QED
      BY <1>2, <2>2, <3>1 DEF TypeOK
  <2> QED
    BY <2>3, <2>4
<1>11. ASSUME NEW t \in Threads,
              RefuseSave(t) \/ ParseFails(t) \/ WriteFails(t) \/ Return(t) \/ ReadFails(t)
       PROVE  TypeOK'
  <2>1. Answer(t) /\ UNCHANGED <<disk, cache, writers, saved, raced, crashes>>
    BY <1>11 DEF RefuseSave, ParseFails, WriteFails, Return, ReadFails
  <2> QED
    BY <1>1, <2>1 DEF TypeOK
<1>12. ASSUME NEW t \in Threads, Afresh(t), UNCHANGED <<cache, owned>>
       PROVE  TypeOK'
  <2>1. "stat" \in Labels /\ {"profile", "sidecar"} \in SUBSET Files
    BY DEF Labels, Reading, Files
  <2> QED
    BY <1>3, <1>12, <2>1, BlankType DEF Afresh, TypeOK
<1>13. ASSUME NEW t \in Threads, Look(t)
       PROVE  TypeOK'
  <2>1. CASE Answer(t) /\ UNCHANGED <<disk, writers, saved, raced, crashes>>
    BY <1>1, <1>13, <2>1 DEF Look, TypeOK
  <2>2. CASE Afresh(t) /\ UNCHANGED owned
    BY <1>12, <1>13, <2>2 DEF Look
  <2>3. CASE /\ cache # None
             /\ ReadStep(t, "check", {"profile", "sidecar"} \cup cache.declares, cache)
             /\ UNCHANGED owned
    <3>1. cache \in Entries /\ "check" \in Labels
      BY <2>3 DEF TypeOK, Labels, Reading
    <3>2. {"profile", "sidecar"} \cup cache.declares \in SUBSET Files
      BY <3>1 DEF Entries, Files
    <3> QED
      BY <1>3, <1>13, <2>3, <3>1, <3>2 DEF Look, TypeOK
  <2> QED
    BY <1>13, <2>1, <2>2, <2>3 DEF Look
<1>14. ASSUME NEW t \in Threads, NEW f \in Files, Check(t, f) \/ Stat(t, f)
       PROVE  TypeOK'
  <2>1. {"return", "check", "profile", "stat"} \subseteq Labels
    BY DEF Labels, Reading
  <2>2. todo[t] \ {f} \in SUBSET Files /\ read[t] \in Entries
    BY DEF TypeOK
  <2>3. CASE Afresh(t)
    BY <1>12, <1>14, <2>3 DEF Check, Stat
  <2>4. CASE ReadStep(t, IF todo[t] = {f} THEN "return" ELSE "check", todo[t] \ {f}, read[t])
    BY <1>3, <1>14, <2>1, <2>2, <2>4 DEF Check, Stat, TypeOK
  <2>5. CASE ReadStep(t, IF todo[t] = {f} THEN "profile" ELSE "stat", todo[t] \ {f}, Stamp(t, f))
    BY <1>3, <1>14, <2>1, <2>2, <2>5, ReadTypes DEF Check, Stat, TypeOK
  <2> QED
    BY <1>14, <2>3, <2>4, <2>5 DEF Check, Stat
<1>15. ASSUME NEW t \in Threads, ReadProfile(t) \/ ReadSidecar(t) \/ StoreInCache(t)
       PROVE  TypeOK'
  <2>1. {"sidecar of it", "configs of it", "return"} \subseteq Labels
    BY DEF Labels, Reading
  <2>2. {"profile", "sidecar"} \subseteq Files /\ profile.declares \in SUBSET Files
    BY DEF TypeOK, Documents, Files
  <2>3. CASE ReadProfile(t)
    BY <1>3, <2>1, <2>2, <2>3, ReadTypes DEF ReadProfile, TypeOK
  <2>4. CASE ReadSidecar(t)
    BY <1>3, <2>1, <2>2, <2>4, ReadTypes DEF ReadSidecar, TypeOK
  <2>5. CASE StoreInCache(t)
    BY <1>3, <2>1, <2>5 DEF StoreInCache, TypeOK
  <2> QED
    BY <1>15, <2>3, <2>4, <2>5
<1>16. ASSUME NEW t \in Threads, NEW c \in Configs, StampConfig(t, c) \/ ReadConfig(t, c)
       PROVE  TypeOK'
  <2>1. {"config", "configs of it"} \subseteq Labels /\ c \in Files
    BY DEF Labels, Reading, Files
  <2>2. todo[t] \in SUBSET Files /\ todo[t] \ {c} \in SUBSET Files
    BY DEF TypeOK
  <2>3. owned' \in [Threads -> SUBSET Configs]
    <3>1. {c} \in SUBSET Configs /\ {} \in SUBSET Configs
      OBVIOUS
    <3> QED
      BY <1>16, <3>1 DEF StampConfig, ReadConfig, TypeOK
  <2>4. PICK rest \in SUBSET Files, label \in Labels, r \in Entries : ReadStep(t, label, rest, r)
    BY <1>16, <2>1, <2>2, ReadTypes DEF StampConfig, ReadConfig
  <2> QED
    BY <1>3, <1>16, <2>3, <2>4 DEF StampConfig, ReadConfig, TypeOK
<1>17. ASSUME Crash
       PROVE  TypeOK'
  <2>1. NoProfile \in Documents /\ 0 \in Writers
    BY DEF NoProfile, Documents, Writers, Absent
  <2>2. crashes' \in 0..MaxCrashes
    BY <1>17 DEF Crash, TypeOK
  <2>3. /\ lock' = None /\ cache' = None
        /\ pc' \in [Threads -> Labels]
        /\ op' \in [Threads -> {"get", "list", "save", None}]
        /\ new' \in [Threads -> Documents]
        /\ owned' \in [Threads -> SUBSET Configs]
        /\ todo' \in [Threads -> SUBSET Files]
        /\ read' \in [Threads -> Entries]
        /\ floor' \in [Threads -> Writers]
    BY <1>17, <2>1, BlankType DEF Crash, Labels
  <2>4. UNCHANGED <<system, backup, profile, config, sidecar, writers, saved, raced>>
    BY <1>17 DEF Crash, disk
  <2> QED
    BY <2>2, <2>3, <2>4 DEF TypeOK, Labels
<1>18. CASE UNCHANGED vars
  BY <1>18 DEF TypeOK, vars, disk, threads
<1> QED
  BY <1>4, <1>5, <1>6, <1>7, <1>8, <1>9, <1>10, <1>11, <1>13, <1>14, <1>15, <1>16, <1>17, <1>18
     DEF Next, Migrate, WriteProject, ReadProject

-----------------------------------------------------------------------------
(* Where the requests are.                                                 *)

\* A thread has one place.
LEMMA Places ==
    /\ Writing \cap (Reading \cup Retiring \cup {"idle", "wait", "parse"}) = {}
    /\ Retiring \cap (Reading \cup {"idle", "wait", "parse"}) = {}
    /\ Reading \cap {"idle", "wait", "parse"} = {}
BY DEF Writing, Retiring, Reading

\* A request that ends leaves the others where they are, and the lock to its holder.
LEMMA AnswerPlaces ==
    ASSUME TypeOK, PlaceInv, NEW t \in Threads, Answer(t)
    PROVE  PlaceInv'
<1>1. pc'[t] = "idle" /\ \A u \in Threads \ {t} : pc'[u] = pc[u] /\ op'[u] = op[u] /\ new'[u] = new[u]
  BY DEF Answer, Goto, TypeOK
<1>2. \A u \in Threads \ {t} : lock = u => lock' = u
  BY DEF Answer
<1> QED
  BY <1>1, <1>2 DEF PlaceInv, Saves, Writing, Retiring, Reading

\* A thread that moves from writing to writing or retiring, or from reading to
\* reading, with its document and the lock as they are.
LEMMA MovePlaces ==
    ASSUME TypeOK, PlaceInv, NEW t \in Threads, NEW label, Goto(t, label), UNCHANGED <<lock, op, new>>,
           \/ /\ pc[t] \in Writing /\ label \in Writing
              /\ op[t] # "save" => label # "prune"
           \/ op[t] # "save" /\ label \in Retiring \cup Reading
    PROVE  PlaceInv'
<1>1. pc'[t] = label /\ \A u \in Threads \ {t} : pc'[u] = pc[u]
  BY DEF Goto, TypeOK
<1> QED
  BY <1>1, Places DEF PlaceInv, Saves

\* Every step keeps requests in their places.
LEMMA PlaceStep == TypeOK /\ PlaceInv /\ [Next]_vars => PlaceInv'
<1> SUFFICES ASSUME TypeOK, PlaceInv, [Next]_vars PROVE PlaceInv'
    OBVIOUS
<1>1. ASSUME NEW t \in Threads, NEW o \in {"get", "list", "save"}, Ask(t, o)
      PROVE  PlaceInv'
  <2>1. /\ pc[t] = "idle" /\ op'[t] = o
        /\ pc'[t] \in {"wait", "parse", "look"} /\ (o = "save" <=> pc'[t] = "wait")
    BY <1>1 DEF Ask, Goto, TypeOK
  <2>2. /\ \A u \in Threads \ {t} : pc'[u] = pc[u] /\ op'[u] = op[u]
        /\ UNCHANGED <<lock, new>>
    BY <1>1 DEF Ask, Goto, TypeOK
  <2>3. pc'[t] \notin Writing \cup Retiring
    BY <2>1 DEF Writing, Retiring
  <2>4. pc'[t] \in {"parse"} \cup Reading => op'[t] # "save"
    BY <2>1 DEF Reading
  <2> QED
    BY <2>1, <2>2, <2>3, <2>4 DEF PlaceInv, Saves
<1>2. ASSUME NEW t \in Threads, NEW d \in SUBSET Configs, Compose(t, d),
             \/ op[t] # "save" /\ d = Configs /\ UNCHANGED lock
             \/ pc[t] = "wait" /\ lock = None /\ lock' = t
      PROVE  PlaceInv'
  <2>1. pc'[t] = "own" /\ new'[t].writer # Absent /\ new'[t].declares = d /\ UNCHANGED op
    BY <1>2 DEF Compose, Goto, TypeOK, Absent, Writers
  <2>2. \A u \in Threads \ {t} : pc'[u] = pc[u] /\ new'[u] = new[u]
    BY <1>2 DEF Compose, Goto, TypeOK
  <2>3. \A u \in Threads \ {t} : Saves(u) => lock' = u
    BY <1>2, FilesAssumption DEF PlaceInv, Saves
  <2> QED
    BY <1>2, <2>1, <2>2, <2>3, Places DEF PlaceInv, Saves, Writing
<1>3. ASSUME NEW t \in Threads, BeginSave(t) \/ Parse(t)
      PROVE  PlaceInv'
  <2>1. CASE BeginSave(t)
    BY <1>2, <2>1 DEF BeginSave
  <2>2. CASE Parse(t)
    BY <1>2, <2>2 DEF Parse, PlaceInv
  <2> QED
    BY <1>3, <2>1, <2>2
<1>4. ASSUME NEW t \in Threads, OpenBackup(t) \/ WriteBackup(t) \/ RetireSystem(t)
      PROVE  PlaceInv'
  <2>1. op[t] # "save"
    BY <1>4 DEF OpenBackup, WriteBackup, RetireSystem, PlaceInv, Retiring
  <2>2. PICK label \in Retiring \cup Reading : Step(t, label, {})
    BY <1>4 DEF OpenBackup, WriteBackup, RetireSystem, Retiring, Reading
  <2> QED
    BY <2>1, <2>2, MovePlaces DEF Step
<1>5. ASSUME NEW t \in Threads, ReadOwned(t)
      PROVE  PlaceInv'
  BY <1>5, MovePlaces DEF ReadOwned, Writing
<1>6. ASSUME NEW t \in Threads, NEW c \in Configs, WriteConfig(t, c) \/ Retire(t, c)
      PROVE  PlaceInv'
  <2>1. PICK label \in Writing :
            /\ Goto(t, label) /\ UNCHANGED <<lock, op, new>>
            /\ Retire(t, c) \/ label # "prune"
    BY <1>6 DEF WriteConfig, Retire, Step, Writing
  <2>2. Retire(t, c) => op[t] = "save"
    BY DEF Retire, PlaceInv, Writing
  <2> QED
    BY <1>6, <2>1, <2>2, MovePlaces DEF WriteConfig, Retire, Writing
<1>7. ASSUME NEW t \in Threads, WriteProfile(t)
      PROVE  PlaceInv'
  BY <1>7, MovePlaces DEF WriteProfile, Step, Writing
<1>8. ASSUME NEW t \in Threads, ListOrphans(t)
      PROVE  PlaceInv'
  <2>1. PICK label \in {"sidecar", "prune"} :
            /\ Goto(t, label) /\ UNCHANGED <<lock, op, new>>
            /\ op[t] # "save" => label = "sidecar"
    <3>1. DEFINE orphans == (owned[t] \cup {c \in Configs : config[c] # Absent}) \ new[t].declares
    <3>2. Step(t, IF orphans = {} THEN "sidecar" ELSE "prune", orphans)
      BY <1>8 DEF ListOrphans
    <3>3. op[t] # "save" => orphans = {}
      BY <1>8 DEF ListOrphans, PlaceInv, Writing, TypeOK
    <3> QED
      BY <3>2, <3>3 DEF Step
  <2> QED
    BY <1>8, <2>1, MovePlaces DEF ListOrphans, Writing
<1>9. ASSUME NEW t \in Threads, WriteSidecar(t)
      PROVE  PlaceInv'
  <2>1. CASE op[t] = "save"
    BY <1>9, <2>1, AnswerPlaces DEF WriteSidecar
  <2>2. CASE op[t] # "save"
    BY <1>9, <2>2, MovePlaces DEF WriteSidecar, Step, Retiring
  <2> QED
    BY <2>1, <2>2
<1>10. ASSUME NEW t \in Threads,
              RefuseSave(t) \/ ParseFails(t) \/ WriteFails(t) \/ Return(t) \/ ReadFails(t)
       PROVE  PlaceInv'
  BY <1>10, AnswerPlaces DEF RefuseSave, ParseFails, WriteFails, Return, ReadFails
<1>11. ASSUME NEW t \in Threads, pc[t] \in Reading,
              NEW label \in Reading, NEW rest, NEW r, ReadStep(t, label, rest, r)
       PROVE  PlaceInv'
  BY <1>11, MovePlaces DEF ReadStep, PlaceInv
<1>12. ASSUME NEW t \in Threads, Look(t)
       PROVE  PlaceInv'
  BY <1>11, <1>12, AnswerPlaces DEF Look, Afresh, Reading
<1>13. ASSUME NEW t \in Threads, NEW f, Check(t, f) \/ Stat(t, f)
       PROVE  PlaceInv'
  BY <1>11, <1>13 DEF Check, Stat, Afresh, Reading
<1>14. ASSUME NEW t \in Threads, ReadProfile(t) \/ ReadSidecar(t) \/ StoreInCache(t)
       PROVE  PlaceInv'
  BY <1>11, <1>14 DEF ReadProfile, ReadSidecar, StoreInCache, Reading
<1>15. ASSUME NEW t \in Threads, NEW c, StampConfig(t, c) \/ ReadConfig(t, c)
       PROVE  PlaceInv'
  BY <1>11, <1>15 DEF StampConfig, ReadConfig, Reading
<1>16. ASSUME Crash
       PROVE  PlaceInv'
  BY <1>16 DEF Crash, PlaceInv, Saves, Writing, Retiring, Reading
<1>17. CASE UNCHANGED vars
  BY <1>17 DEF PlaceInv, Saves, vars, disk, threads
<1> QED
  BY <1>1, <1>3, <1>4, <1>5, <1>6, <1>7, <1>8, <1>9, <1>10, <1>12, <1>13, <1>14, <1>15, <1>16, <1>17
     DEF Next, Migrate, WriteProject, ReadProject

-----------------------------------------------------------------------------
(* How far a migration has come.                                           *)

\* A step that leaves these files and every other thread alone, and that does not
\* take t past the profile.
LEMMA RetiredMove ==
    ASSUME TypeOK, RetiredInv, NEW t \in Threads, NEW label, Goto(t, label),
           UNCHANGED <<system, backup, profile, sidecar>>,
           \/ label \notin {"list", "prune", "sidecar"} \cup Retiring
           \/ label \in {"prune", "sidecar"} /\ pc[t] \in {"list", "prune"}
    PROVE  RetiredInv'
<1>1. pc'[t] = label /\ \A u \in Threads \ {t} : pc'[u] = pc[u]
  BY DEF Goto, TypeOK
<1> QED
  BY <1>1 DEF RetiredInv, LegacyUntilDone, Retiring

\* Every step keeps what the migrations have done and the sign that one is due.
LEMMA RetiredStep == TypeOK /\ PlaceInv /\ RetiredInv /\ [Next]_vars => RetiredInv'
<1> SUFFICES ASSUME TypeOK, PlaceInv, RetiredInv, [Next]_vars PROVE RetiredInv'
    OBVIOUS
<1>1. ASSUME NEW t \in Threads, Answer(t), UNCHANGED <<system, backup, profile, sidecar>>
      PROVE  RetiredInv'
  BY <1>1, RetiredMove DEF Answer, Retiring
<1>2. ASSUME NEW t \in Threads, NEW o \in {"get", "list", "save"}, Ask(t, o)
      PROVE  RetiredInv'
  <2>1. PICK label \in {"wait", "parse", "look"} : Goto(t, label)
    BY <1>2 DEF Ask
  <2> QED
    BY <1>2, <2>1, RetiredMove DEF Ask, disk, Retiring
<1>3. ASSUME NEW t \in Threads, BeginSave(t) \/ Parse(t) \/ ReadOwned(t)
      PROVE  RetiredInv'
  BY <1>3, RetiredMove DEF BeginSave, Parse, Compose, ReadOwned, disk, Retiring
<1>4. ASSUME NEW t \in Threads, OpenBackup(t)
      PROVE  RetiredInv'
  <2>1. /\ pc[t] \in Retiring /\ UNCHANGED <<system, profile, sidecar>>
        /\ backup' # "none" /\ (backup # "none" => UNCHANGED backup)
    BY <1>4 DEF OpenBackup, Retiring
  <2>2. PICK label \in Retiring : Goto(t, label)
    BY <1>4 DEF OpenBackup, Step, Retiring
  <2>3. pc'[t] \in Retiring /\ \A u \in Threads \ {t} : pc'[u] = pc[u]
    BY <2>2 DEF Goto, TypeOK
  <2> QED
    BY <2>1, <2>3 DEF RetiredInv, LegacyUntilDone
<1>5. ASSUME NEW t \in Threads, WriteBackup(t)
      PROVE  RetiredInv'
  <2>1. /\ pc[t] = "copy" /\ UNCHANGED <<system, profile, sidecar>> /\ backup' = "whole"
        /\ pc'[t] = "retire" /\ \A u \in Threads \ {t} : pc'[u] = pc[u]
    BY <1>5 DEF WriteBackup, Step, Goto, TypeOK
  <2> QED
    BY <2>1 DEF RetiredInv, LegacyUntilDone, Retiring
<1>6. ASSUME NEW t \in Threads, RetireSystem(t)
      PROVE  RetiredInv'
  <2>1. /\ pc[t] = "retire" /\ UNCHANGED <<backup, profile, sidecar>>
        /\ pc'[t] = "look" /\ \A u \in Threads \ {t} : pc'[u] = pc[u]
    BY <1>6 DEF RetireSystem, Step, Goto, TypeOK
  <2> QED
    BY <2>1 DEF RetiredInv, LegacyUntilDone, Retiring
<1>7. ASSUME NEW t \in Threads, NEW c \in Configs, WriteConfig(t, c) \/ Retire(t, c)
      PROVE  RetiredInv'
  <2>1. CASE WriteConfig(t, c)
    BY <2>1, RetiredMove DEF WriteConfig, Step, Retiring
  <2>2. CASE Retire(t, c)
    BY <2>2, RetiredMove DEF Retire, Step, Retiring
  <2> QED
    BY <1>7, <2>1, <2>2
<1>8. ASSUME NEW t \in Threads, WriteProfile(t)
      PROVE  RetiredInv'
  <2>1. new[t] # NoProfile
    BY <1>8 DEF WriteProfile, PlaceInv, Writing, NoProfile
  <2>2. /\ profile' # NoProfile /\ UNCHANGED <<system, backup, sidecar>>
        /\ pc'[t] = "list" /\ \A u \in Threads \ {t} : pc'[u] = pc[u]
    BY <1>8, <2>1 DEF WriteProfile, Step, Goto, TypeOK
  <2> QED
    BY <2>2 DEF RetiredInv, LegacyUntilDone, Retiring
<1>9. ASSUME NEW t \in Threads, ListOrphans(t)
      PROVE  RetiredInv'
  <2>1. PICK label \in {"sidecar", "prune"} : Goto(t, label)
    BY <1>9 DEF ListOrphans, Step
  <2> QED
    BY <1>9, <2>1, RetiredMove DEF ListOrphans, disk
<1>10. ASSUME NEW t \in Threads, WriteSidecar(t)
       PROVE  RetiredInv'
  <2>1. /\ pc[t] = "sidecar" /\ UNCHANGED <<system, backup, profile>>
        /\ pc'[t] \in {"idle", "backup"} /\ \A u \in Threads \ {t} : pc'[u] = pc[u]
    BY <1>10 DEF WriteSidecar, Answer, Step, Goto, TypeOK
  <2>2. sidecar' # Absent
    BY <1>10 DEF WriteSidecar, PlaceInv, Writing
  <2> QED
    BY <2>1, <2>2 DEF RetiredInv, LegacyUntilDone, Retiring
<1>11. ASSUME NEW t \in Threads,
              RefuseSave(t) \/ ParseFails(t) \/ WriteFails(t) \/ Return(t) \/ ReadFails(t)
       PROVE  RetiredInv'
  BY <1>1, <1>11 DEF RefuseSave, ParseFails, WriteFails, Return, ReadFails, disk
<1>12. ASSUME NEW t \in Threads, NEW label \in Reading, NEW rest, NEW r, ReadStep(t, label, rest, r)
       PROVE  RetiredInv'
  BY <1>12, RetiredMove, Places DEF ReadStep, disk, Writing
<1>13. ASSUME NEW t \in Threads, Look(t)
       PROVE  RetiredInv'
  BY <1>1, <1>12, <1>13 DEF Look, Afresh, Reading, disk
<1>14. ASSUME NEW t \in Threads, NEW f, Check(t, f) \/ Stat(t, f)
       PROVE  RetiredInv'
  BY <1>12, <1>14 DEF Check, Stat, Afresh, Reading
<1>15. ASSUME NEW t \in Threads, ReadProfile(t) \/ ReadSidecar(t) \/ StoreInCache(t)
       PROVE  RetiredInv'
  BY <1>12, <1>15 DEF ReadProfile, ReadSidecar, StoreInCache, Reading
<1>16. ASSUME NEW t \in Threads, NEW c, StampConfig(t, c) \/ ReadConfig(t, c)
       PROVE  RetiredInv'
  BY <1>12, <1>16 DEF StampConfig, ReadConfig, Reading
<1>17. ASSUME Crash
       PROVE  RetiredInv'
  BY <1>17 DEF Crash, RetiredInv, LegacyUntilDone, Retiring, disk
<1>18. CASE UNCHANGED vars
  BY <1>18 DEF RetiredInv, LegacyUntilDone, vars, disk, threads
<1> QED
  BY <1>2, <1>3, <1>4, <1>5, <1>6, <1>7, <1>8, <1>9, <1>10, <1>11, <1>13, <1>14, <1>15, <1>16, <1>17,
     <1>18 DEF Next, Migrate, WriteProject, ReadProject

-----------------------------------------------------------------------------
(* No migration beside a save.                                             *)

\* A step of t that begins neither a save nor, unless one is due, a migration.
LEMMA SoloMove ==
    ASSUME SoloInv, NEW t \in Threads,
           \A u \in Threads \ {t} : pc'[u] = pc[u] /\ op'[u] = op[u],
           UNCHANGED raced, system' => system,
           Saves(t)' => Saves(t), Migrates(t)' => Migrates(t) \/ system
    PROVE  SoloInv'
<1> SUFFICES ASSUME ~raced', NEW v \in Threads, Saves(v)'
             PROVE  ~system' /\ \A u \in Threads : ~Migrates(u)'
    BY DEF SoloInv
<1>1. Saves(v)
  BY DEF Saves
<1>2. ~system /\ \A u \in Threads : ~Migrates(u)
  BY <1>1 DEF SoloInv
<1>3. \A u \in Threads \ {t} : Migrates(u)' <=> Migrates(u)
  BY DEF Migrates
<1> QED
  BY <1>2, <1>3

\* Every step of the files and the requests keeps them apart, or has raced say so.
LEMMA SoloStep == TypeOK /\ PlaceInv /\ SoloInv /\ [Next]_vars => SoloInv'
<1> SUFFICES ASSUME TypeOK, PlaceInv, SoloInv, [Next]_vars PROVE SoloInv'
    OBVIOUS
<1>1. ASSUME NEW t \in Threads, Answer(t), UNCHANGED <<system, raced>>
      PROVE  SoloInv'
  <2>1. pc'[t] = "idle" /\ \A u \in Threads \ {t} : pc'[u] = pc[u] /\ op'[u] = op[u]
    BY <1>1 DEF Answer, Goto, TypeOK
  <2>2. ~Saves(t)' /\ ~Migrates(t)'
    BY <2>1 DEF Saves, Migrates, Writing, Retiring
  <2> QED
    BY <1>1, <2>1, <2>2, SoloMove
<1>2. ASSUME NEW t \in Threads, NEW label, Goto(t, label), UNCHANGED <<op, raced>>, system' => system,
             \/ label \notin {"parse"} \cup Writing \cup Retiring
             \/ pc[t] \in Writing \cup Retiring /\ op[t] # "save"
             \/ pc[t] \in Writing /\ label \in Writing
      PROVE  SoloInv'
  <2>1. pc'[t] = label /\ \A u \in Threads \ {t} : pc'[u] = pc[u] /\ op'[u] = op[u]
    BY <1>2 DEF Goto, TypeOK
  <2>2. Saves(t)' => Saves(t)
    BY <1>2, <2>1 DEF Saves
  <2>3. Migrates(t)' => Migrates(t)
    BY <1>2, <2>1 DEF Migrates
  <2> QED
    BY <1>2, <2>1, <2>2, <2>3, SoloMove
<1>3. ASSUME NEW t \in Threads, NEW o \in {"get", "list", "save"}, Ask(t, o)
      PROVE  SoloInv'
  <2>1. \A u \in Threads \ {t} : pc'[u] = pc[u] /\ op'[u] = op[u]
    BY <1>3 DEF Ask, Goto, TypeOK
  <2>2. UNCHANGED <<system, raced>>
    BY <1>3 DEF Ask, disk
  <2>3. pc'[t] \in {"wait", "parse", "look"} /\ (pc'[t] = "parse" => system)
    <3>1. pc'[t] = IF o = "save" THEN "wait" ELSE IF system THEN "parse" ELSE "look"
      BY <1>3 DEF Ask, Goto, TypeOK
    <3> QED
      BY <3>1
  <2>4. ~Saves(t)' /\ (Migrates(t)' => system)
    BY <2>3 DEF Saves, Migrates, Writing, Retiring
  <2> QED
    BY <2>1, <2>2, <2>4, SoloMove
<1>4. ASSUME NEW t \in Threads, BeginSave(t)
      PROVE  SoloInv'
  <2>1. PICK d \in SUBSET Configs : Compose(t, d)
    BY <1>4 DEF BeginSave
  <2>2. /\ pc'[t] = "own" /\ \A u \in Threads \ {t} : pc'[u] = pc[u]
        /\ op' = op /\ system' = system
    BY <2>1 DEF Compose, Goto, TypeOK, disk
  <2>3. op[t] = "save"
    BY <1>4 DEF BeginSave, PlaceInv
  <2>4. ~raced' => ~system /\ \A u \in Threads : ~Migrates(u)
    BY <1>4 DEF BeginSave
  <2>5. \A u \in Threads : Migrates(u)' => Migrates(u)
    BY <2>2, <2>3 DEF Migrates
  <2> QED
    BY <2>2, <2>4, <2>5 DEF SoloInv
<1>5. ASSUME NEW t \in Threads, Parse(t)
      PROVE  SoloInv'
  <2>1. op[t] # "save"
    BY <1>5 DEF Parse, PlaceInv
  <2>2. UNCHANGED <<op, raced, system>> /\ \A u \in Threads \ {t} : pc'[u] = pc[u]
    BY <1>5 DEF Parse, Compose, Goto, TypeOK, disk
  <2>3. ~Saves(t)' /\ Migrates(t)
    BY <1>5, <2>1, <2>2 DEF Parse, Saves, Migrates
  <2> QED
    BY <2>2, <2>3, SoloMove
<1>6. ASSUME NEW t \in Threads, OpenBackup(t) \/ WriteBackup(t) \/ RetireSystem(t)
      PROVE  SoloInv'
  <2>1. pc[t] \in Retiring /\ op[t] # "save"
    BY <1>6 DEF OpenBackup, WriteBackup, RetireSystem, Retiring, PlaceInv
  <2>2. PICK label : Goto(t, label)
    BY <1>6 DEF OpenBackup, WriteBackup, RetireSystem, Step
  <2>3. UNCHANGED <<op, raced>>
    BY <1>6 DEF OpenBackup, WriteBackup, RetireSystem, Step
  <2>4. system' => system
    BY <1>6 DEF OpenBackup, WriteBackup, RetireSystem
  <2> QED
    BY <1>2, <2>1, <2>2, <2>3, <2>4
<1>7. ASSUME NEW t \in Threads, ReadOwned(t) \/ WriteProfile(t) \/ ListOrphans(t)
      PROVE  SoloInv'
  <2>1. pc[t] \in Writing /\ UNCHANGED <<op, raced, system>>
    BY <1>7 DEF ReadOwned, WriteProfile, ListOrphans, Step, Writing, disk
  <2>2. PICK label \in Writing : Goto(t, label)
    BY <1>7 DEF ReadOwned, WriteProfile, ListOrphans, Step, Writing
  <2> QED
    BY <1>2, <2>1, <2>2
<1>8. ASSUME NEW t \in Threads, NEW c \in Configs, WriteConfig(t, c) \/ Retire(t, c)
      PROVE  SoloInv'
  <2>1. pc[t] \in Writing /\ UNCHANGED <<op, raced, system>>
    BY <1>8 DEF WriteConfig, Retire, Step, Writing
  <2>2. PICK label \in Writing : Goto(t, label)
    BY <1>8 DEF WriteConfig, Retire, Step, Writing
  <2> QED
    BY <1>2, <2>1, <2>2
<1>9. ASSUME NEW t \in Threads, WriteSidecar(t)
      PROVE  SoloInv'
  <2>1. CASE op[t] = "save"
    BY <1>1, <1>9, <2>1 DEF WriteSidecar
  <2>2. CASE op[t] # "save"
    <3>1. pc[t] \in Writing /\ UNCHANGED system
      BY <1>9 DEF WriteSidecar, Writing
    <3>2. Goto(t, "backup") /\ UNCHANGED <<op, raced>>
      BY <1>9, <2>2 DEF WriteSidecar, Step
    <3> QED
      BY <1>2, <2>2, <3>1, <3>2
  <2> QED
    BY <2>1, <2>2
<1>10. ASSUME NEW t \in Threads,
              RefuseSave(t) \/ ParseFails(t) \/ WriteFails(t) \/ Return(t) \/ ReadFails(t)
       PROVE  SoloInv'
  BY <1>1, <1>10 DEF RefuseSave, ParseFails, WriteFails, Return, ReadFails, disk
<1>11. ASSUME NEW t \in Threads, NEW label \in Reading, NEW rest, NEW r, ReadStep(t, label, rest, r)
       PROVE  SoloInv'
  <2>1. label \notin {"parse"} \cup Writing \cup Retiring
    BY Places
  <2> QED
    BY <1>2, <1>11, <2>1 DEF ReadStep, disk
<1>12. ASSUME NEW t \in Threads, Look(t)
       PROVE  SoloInv'
  BY <1>1, <1>11, <1>12 DEF Look, Afresh, Reading, disk
<1>13. ASSUME NEW t \in Threads, NEW f, Check(t, f) \/ Stat(t, f)
       PROVE  SoloInv'
  BY <1>11, <1>13 DEF Check, Stat, Afresh, Reading
<1>14. ASSUME NEW t \in Threads, ReadProfile(t) \/ ReadSidecar(t) \/ StoreInCache(t)
       PROVE  SoloInv'
  BY <1>11, <1>14 DEF ReadProfile, ReadSidecar, StoreInCache, Reading
<1>15. ASSUME NEW t \in Threads, NEW c, StampConfig(t, c) \/ ReadConfig(t, c)
       PROVE  SoloInv'
  BY <1>11, <1>15 DEF StampConfig, ReadConfig, Reading
<1>16. ASSUME Crash
       PROVE  SoloInv'
  BY <1>16 DEF Crash, SoloInv, Saves, Writing
<1>17. CASE UNCHANGED vars
  BY <1>17 DEF SoloInv, Saves, Migrates, vars, disk, threads
<1> QED
  BY <1>3, <1>4, <1>5, <1>6, <1>7, <1>8, <1>9, <1>10, <1>12, <1>13, <1>14, <1>15, <1>16, <1>17
     DEF Next, Migrate, WriteProject, ReadProject

-----------------------------------------------------------------------------
(* What is written is there.                                               *)

\* Until a save has met a migration: nothing else is written beside a save, and no
\* save beside a migration.
LEMMA Alone ==
    ASSUME PlaceInv, SoloInv, ~raced, NEW t \in Threads, NEW u \in Threads \ {t}, pc[t] \in Writing
    PROVE  /\ Saves(t) => pc[u] \notin Writing
           /\ ~Saves(u)
<1>1. CASE Saves(t)
  <2>1. ~Saves(u)
    BY <1>1 DEF PlaceInv
  <2>2. ~Migrates(u)
    BY <1>1 DEF SoloInv
  <2> QED
    BY <2>1, <2>2 DEF Saves, Migrates
<1>2. CASE ~Saves(t)
  <2>1. Migrates(t)
    BY <1>2 DEF Saves, Migrates
  <2> QED
    BY <1>2, <2>1 DEF SoloInv
<1> QED
  BY <1>1, <1>2

\* A step of t that leaves the profile and the configs alone.
LEMMA FilesMove ==
    ASSUME FilesInv, DeclaredExist, NEW t \in Threads, UNCHANGED <<profile, config>>, raced => raced',
           \A u \in Threads \ {t} : /\ pc'[u] = pc[u] /\ op'[u] = op[u]
                                    /\ new'[u] = new[u] /\ todo'[u] = todo[u],
           pc'[t] \in {"configs", "list", "prune", "sidecar"} /\ ~raced' => FilesOf(t)'
    PROVE  FilesInv' /\ DeclaredExist'
<1>1. DeclaredExist'
  BY DEF DeclaredExist
<1>2. ASSUME ~raced', NEW u \in Threads
      PROVE  FilesOf(u)'
  <2>1. CASE u = t
    <3>1. CASE pc'[t] \in {"configs", "list", "prune", "sidecar"}
      BY <1>2, <2>1, <3>1
    <3>2. CASE pc'[t] \notin {"configs", "list", "prune", "sidecar"}
      BY <2>1, <3>2 DEF FilesOf, Saves
    <3> QED
      BY <3>1, <3>2
  <2>2. CASE u # t
    <3>1. FilesOf(u)
      BY <1>2 DEF FilesInv
    <3> QED
      BY <2>2, <3>1 DEF FilesOf, Saves
  <2> QED
    BY <2>1, <2>2
<1> QED
  BY <1>1, <1>2 DEF FilesInv

\* Every step keeps what the writers have written, and what the profile declares.
LEMMA FilesStep ==
    TypeOK /\ PlaceInv /\ SoloInv /\ FilesInv /\ DeclaredExist /\ [Next]_vars
        => FilesInv' /\ DeclaredExist'
<1> SUFFICES ASSUME TypeOK, PlaceInv, SoloInv, FilesInv, DeclaredExist, [Next]_vars
             PROVE  FilesInv' /\ DeclaredExist'
    OBVIOUS
<1>1. ASSUME NEW t \in Threads, Answer(t), UNCHANGED <<profile, config, raced>>
      PROVE  FilesInv' /\ DeclaredExist'
  <2>1. /\ pc'[t] = "idle"
        /\ \A u \in Threads \ {t} : /\ pc'[u] = pc[u] /\ op'[u] = op[u]
                                    /\ new'[u] = new[u] /\ todo'[u] = todo[u]
    BY <1>1 DEF Answer, Goto, TypeOK
  <2> QED
    BY <1>1, <2>1, FilesMove
<1>2. ASSUME NEW t \in Threads, NEW label, NEW rest, Step(t, label, rest), UNCHANGED <<profile, config>>,
             label \notin {"configs", "list", "prune", "sidecar"}
      PROVE  FilesInv' /\ DeclaredExist'
  <2>1. /\ pc'[t] = label
        /\ \A u \in Threads \ {t} : /\ pc'[u] = pc[u] /\ op'[u] = op[u]
                                    /\ new'[u] = new[u] /\ todo'[u] = todo[u]
        /\ UNCHANGED raced
    BY <1>2 DEF Step, Goto, TypeOK
  <2> QED
    BY <1>2, <2>1, FilesMove
<1>3. ASSUME NEW t \in Threads, NEW o \in {"get", "list", "save"}, Ask(t, o)
      PROVE  FilesInv' /\ DeclaredExist'
  <2>1. /\ pc'[t] \in {"wait", "parse", "look"}
        /\ \A u \in Threads \ {t} : /\ pc'[u] = pc[u] /\ op'[u] = op[u]
                                    /\ new'[u] = new[u] /\ todo'[u] = todo[u]
        /\ UNCHANGED <<profile, config, raced>>
    BY <1>3 DEF Ask, Goto, TypeOK, disk
  <2> QED
    BY <2>1, FilesMove
<1>4. ASSUME NEW t \in Threads, BeginSave(t) \/ Parse(t)
      PROVE  FilesInv' /\ DeclaredExist'
  <2>1. PICK d \in SUBSET Configs : Compose(t, d)
    BY <1>4 DEF BeginSave, Parse
  <2>2. /\ pc'[t] = "own"
        /\ \A u \in Threads \ {t} : /\ pc'[u] = pc[u] /\ op'[u] = op[u]
                                    /\ new'[u] = new[u] /\ todo'[u] = todo[u]
        /\ UNCHANGED <<profile, config>>
    BY <2>1 DEF Compose, Goto, TypeOK, disk
  <2>3. raced => raced'
    BY <1>4 DEF BeginSave, Parse
  <2> QED
    BY <2>2, <2>3, FilesMove
<1>5. ASSUME NEW t \in Threads, OpenBackup(t) \/ WriteBackup(t) \/ RetireSystem(t)
      PROVE  FilesInv' /\ DeclaredExist'
  BY <1>2, <1>5 DEF OpenBackup, WriteBackup, RetireSystem
<1>6. ASSUME NEW t \in Threads, ReadOwned(t)
      PROVE  FilesInv' /\ DeclaredExist'
  <2>1. /\ pc'[t] = "configs" /\ todo'[t] = new[t].declares
        /\ \A u \in Threads \ {t} : /\ pc'[u] = pc[u] /\ op'[u] = op[u]
                                    /\ new'[u] = new[u] /\ todo'[u] = todo[u]
        /\ UNCHANGED <<profile, config, raced, new>>
    BY <1>6 DEF ReadOwned, Goto, TypeOK, disk
  <2>2. FilesOf(t)'
    BY <2>1 DEF FilesOf
  <2> QED
    BY <2>1, <2>2, FilesMove
<1>7. ASSUME NEW t \in Threads, NEW c \in Configs, WriteConfig(t, c)
      PROVE  FilesInv' /\ DeclaredExist'
  <2>1. /\ pc[t] = "configs" /\ pc'[t] = "configs" /\ todo'[t] = todo[t] \ {c}
        /\ \A u \in Threads \ {t} : pc'[u] = pc[u] /\ todo'[u] = todo[u]
        /\ UNCHANGED <<profile, op, new, raced>>
    BY <1>7 DEF WriteConfig, Step, Goto, TypeOK
  <2>2. config'[c] = new[t].writer /\ \A e \in Configs \ {c} : config'[e] = config[e]
    BY <1>7 DEF WriteConfig, TypeOK
  <2>3. new[t].writer # Absent
    BY <2>1 DEF PlaceInv, Writing
  <2>4. \A e \in Configs : config[e] # Absent => config'[e] # Absent
    BY <2>2, <2>3
  <2>5. profile.declares \in SUBSET Configs /\ \A u \in Threads : new[u].declares \in SUBSET Configs
    BY DEF TypeOK, Documents
  <2>6. DeclaredExist'
    BY <2>1, <2>4, <2>5 DEF DeclaredExist
  <2>7. ASSUME ~raced, NEW u \in Threads
        PROVE  FilesOf(u)'
    <3>1. FilesOf(u)
      BY <2>7 DEF FilesInv
    <3>2. CASE u = t
      BY <2>1, <2>2, <2>3, <2>5, <3>1, <3>2 DEF FilesOf, Saves
    <3>3. CASE u # t
      <4>1. pc[t] \in Writing
        BY <2>1 DEF Writing
      <4>2. ~Saves(u) /\ (Saves(t) => pc[u] \notin Writing)
        BY <2>7, <3>3, <4>1, Alone
      <4>3. pc[u] # "prune"
        BY <4>2 DEF PlaceInv, Saves, Writing
      <4> QED
        BY <2>1, <2>4, <2>5, <3>1, <3>3, <4>2, <4>3 DEF FilesOf, Saves
    <3> QED
      BY <3>2, <3>3
  <2> QED
    BY <2>1, <2>6, <2>7 DEF FilesInv
<1>8. ASSUME NEW t \in Threads, WriteProfile(t)
      PROVE  FilesInv' /\ DeclaredExist'
  <2>1. /\ pc[t] = "configs" /\ todo[t] = {} /\ pc'[t] = "list" /\ profile' = new[t]
        /\ \A u \in Threads \ {t} : pc'[u] = pc[u] /\ todo'[u] = todo[u]
        /\ UNCHANGED <<config, op, new, raced>>
    BY <1>8 DEF WriteProfile, Step, Goto, TypeOK
  <2>2. ~raced => \A c \in new[t].declares : config[c] # Absent
    BY <2>1 DEF FilesInv, FilesOf
  <2>3. DeclaredExist'
    BY <2>1, <2>2 DEF DeclaredExist
  <2>4. ASSUME ~raced, NEW u \in Threads
        PROVE  FilesOf(u)'
    <3>1. FilesOf(u)
      BY <2>4 DEF FilesInv
    <3>2. CASE u = t
      BY <2>1, <3>1, <3>2 DEF FilesOf, Saves, Writing
    <3>3. CASE u # t
      <4>1. pc[t] \in Writing
        BY <2>1 DEF Writing
      <4>2. ~Saves(u)
        BY <2>4, <3>3, <4>1, Alone
      <4> QED
        BY <2>1, <3>1, <3>3, <4>2 DEF FilesOf, Saves
    <3> QED
      BY <3>2, <3>3
  <2> QED
    BY <2>1, <2>3, <2>4 DEF FilesInv
<1>9. ASSUME NEW t \in Threads, ListOrphans(t)
      PROVE  FilesInv' /\ DeclaredExist'
  <2> DEFINE orphans == (owned[t] \cup {c \in Configs : config[c] # Absent}) \ new[t].declares
  <2>1. /\ pc[t] = "list" /\ todo'[t] = orphans
        /\ pc'[t] = IF orphans = {} THEN "sidecar" ELSE "prune"
        /\ \A u \in Threads \ {t} : pc'[u] = pc[u] /\ todo'[u] = todo[u]
        /\ UNCHANGED <<profile, config, op, new, raced>>
    BY <1>9 DEF ListOrphans, Step, Goto, TypeOK, disk
  <2>2. ASSUME ~raced
        PROVE  FilesOf(t)'
    <3>1. FilesOf(t)
      BY <2>2 DEF FilesInv
    <3>2. \A c \in Configs \ new[t].declares : config[c] # Absent => c \in orphans
      OBVIOUS
    <3>3. Saves(t)' => Saves(t)
      BY <2>1 DEF Saves, Writing
    <3> QED
      BY <2>1, <3>1, <3>2, <3>3 DEF FilesOf
  <2> QED
    BY <2>1, <2>2, FilesMove
<1>10. ASSUME NEW t \in Threads, NEW c \in Configs, Retire(t, c)
       PROVE  FilesInv' /\ DeclaredExist'
  <2>1. /\ pc[t] = "prune" /\ c \in todo[t] /\ todo'[t] = todo[t] \ {c}
        /\ pc'[t] = IF todo[t] = {c} THEN "sidecar" ELSE "prune"
        /\ \A u \in Threads \ {t} : pc'[u] = pc[u] /\ todo'[u] = todo[u]
        /\ UNCHANGED <<profile, op, new, raced>>
    BY <1>10 DEF Retire, Step, Goto, TypeOK
  <2>2. config'[c] = Absent /\ \A e \in Configs \ {c} : config'[e] = config[e]
    BY <1>10 DEF Retire, TypeOK
  <2>3. Saves(t)
    BY <2>1 DEF PlaceInv, Saves, Writing
  <2>4. profile.declares \in SUBSET Configs /\ \A u \in Threads : new[u].declares \in SUBSET Configs
    BY DEF TypeOK, Documents
  <2>5. ~raced => profile = new[t] /\ c \notin new[t].declares
    BY <2>1, <2>3 DEF FilesInv, FilesOf
  <2>6. DeclaredExist'
    BY <2>1, <2>2, <2>4, <2>5 DEF DeclaredExist
  <2>7. ASSUME ~raced, NEW u \in Threads
        PROVE  FilesOf(u)'
    <3>1. FilesOf(u)
      BY <2>7 DEF FilesInv
    <3>2. CASE u = t
      BY <2>1, <2>2, <2>3, <2>4, <2>5, <2>7, <3>1, <3>2 DEF FilesOf
    <3>3. CASE u # t
      <4>1. pc[t] \in Writing
        BY <2>1 DEF Writing
      <4>2. pc[u] \notin Writing
        BY <2>3, <2>7, <3>3, <4>1, Alone
      <4> QED
        BY <2>1, <3>3, <4>2 DEF FilesOf, Saves, Writing
    <3> QED
      BY <3>2, <3>3
  <2> QED
    BY <2>1, <2>6, <2>7 DEF FilesInv
<1>11. ASSUME NEW t \in Threads, WriteSidecar(t)
       PROVE  FilesInv' /\ DeclaredExist'
  BY <1>1, <1>2, <1>11 DEF WriteSidecar
<1>12. ASSUME NEW t \in Threads,
              RefuseSave(t) \/ ParseFails(t) \/ WriteFails(t) \/ Return(t) \/ ReadFails(t)
       PROVE  FilesInv' /\ DeclaredExist'
  BY <1>1, <1>12 DEF RefuseSave, ParseFails, WriteFails, Return, ReadFails, disk
<1>13. ASSUME NEW t \in Threads, NEW label \in Reading, NEW rest, NEW r, ReadStep(t, label, rest, r)
       PROVE  FilesInv' /\ DeclaredExist'
  <2>1. /\ pc'[t] = label
        /\ \A u \in Threads \ {t} : /\ pc'[u] = pc[u] /\ op'[u] = op[u]
                                    /\ new'[u] = new[u] /\ todo'[u] = todo[u]
        /\ UNCHANGED <<profile, config, raced>>
    BY <1>13 DEF ReadStep, Goto, TypeOK, disk
  <2> QED
    BY <2>1, FilesMove DEF Reading
<1>14. ASSUME NEW t \in Threads, Look(t)
       PROVE  FilesInv' /\ DeclaredExist'
  BY <1>1, <1>13, <1>14 DEF Look, Afresh, Reading, disk
<1>15. ASSUME NEW t \in Threads, NEW f, Check(t, f) \/ Stat(t, f)
       PROVE  FilesInv' /\ DeclaredExist'
  BY <1>13, <1>15 DEF Check, Stat, Afresh, Reading
<1>16. ASSUME NEW t \in Threads, ReadProfile(t) \/ ReadSidecar(t) \/ StoreInCache(t)
       PROVE  FilesInv' /\ DeclaredExist'
  BY <1>13, <1>16 DEF ReadProfile, ReadSidecar, StoreInCache, Reading
<1>17. ASSUME NEW t \in Threads, NEW c, StampConfig(t, c) \/ ReadConfig(t, c)
       PROVE  FilesInv' /\ DeclaredExist'
  BY <1>13, <1>17 DEF StampConfig, ReadConfig, Reading
<1>18. ASSUME Crash
       PROVE  FilesInv' /\ DeclaredExist'
  BY <1>18 DEF Crash, FilesInv, FilesOf, DeclaredExist, Saves, disk
<1>19. CASE UNCHANGED vars
  BY <1>19 DEF FilesInv, FilesOf, DeclaredExist, Saves, vars, disk, threads
<1> QED
  BY <1>3, <1>4, <1>5, <1>6, <1>7, <1>8, <1>9, <1>10, <1>11, <1>12, <1>14, <1>15, <1>16, <1>17, <1>18,
     <1>19 DEF Next, Migrate, WriteProject, ReadProject

-----------------------------------------------------------------------------
(* The theorems.                                                           *)

\* Every step keeps the invariant.
LEMMA InvStep == IInv /\ [Next]_vars => IInv'
BY TypeStep, PlaceStep, RetiredStep, SoloStep, FilesStep DEF IInv

\* The invariant holds in every reachable state, however saves, reads, migrations,
\* failed writes and crashes interleave.
THEOREM FilesInvariant == Spec => []IInv
<1>1. Init => IInv
  BY InvInit
<1>2. IInv /\ [Next]_vars => IInv'
  BY InvStep
<1> QED
  BY <1>1, <1>2, PTL DEF Spec

\* The files and requests keep their types, for any threads and configs.
THEOREM FilesTypeOK == Spec => []TypeOK
<1>1. IInv => TypeOK
  BY DEF IInv
<1> QED
  BY <1>1, FilesInvariant, PTL

\* The profile on disk names only configs that are there, whatever is interrupted
\* where, unless a save has met a migration (write_project writes configs first).
THEOREM FilesDeclaredExist == Spec => []DeclaredExist
<1>1. IInv => DeclaredExist
  BY DEF IInv
<1> QED
  BY <1>1, FilesInvariant, PTL

\* A save that is about to be answered with ok has left in config/ what it wrote and
\* nothing else, also after saves that were cut short (_prune_orphans).
THEOREM FilesSaveExact == Spec => []SaveExact
<1>1. IInv => SaveExact
  <2> SUFFICES ASSUME IInv, NEW t \in Threads, op[t] = "save", pc[t] = "sidecar", ~raced
               PROVE  /\ profile = new[t]
                      /\ \A c \in Configs :
                            config[c] = IF c \in new[t].declares THEN new[t].writer ELSE Absent
    BY DEF SaveExact
  <2>1. Saves(t) /\ FilesOf(t)
    BY DEF IInv, FilesInv, Saves, Writing
  <2> QED
    BY <2>1 DEF FilesOf
<1> QED
  BY <1>1, FilesInvariant, PTL

\* system.json stays until a profile, a sidecar and a backup are there, whatever
\* fails or dies on the way (migrate_project_dir retires it last).
THEOREM FilesLegacyUntilDone == Spec => []LegacyUntilDone
<1>1. IInv => LegacyUntilDone
  BY DEF IInv, RetiredInv
<1> QED
  BY <1>1, FilesInvariant, PTL

-----------------------------------------------------------------------------
(* What a read holds. Every writer writes a file at most once, so a stamp  *)
(* that a file no longer has never comes back; only that a config is not   *)
(* there can come back, and then another profile came first.               *)

\* t is yet to write f.
Pending(t, f) ==
    /\ pc[t] \in Writing
    /\ f = "profile" => pc[t] \in {"own", "configs"}
    /\ f \in Configs => pc[t] = "own" \/ (pc[t] = "configs" /\ f \in todo[t])

\* Writers are told apart, and none writes a file twice.
WriterInv ==
    /\ \A f \in Files : OnDisk(f) <= writers
    /\ saved <= writers
    /\ \A t \in Threads : pc[t] \in Writing =>
          /\ new[t].writer \in 1..writers
          /\ \A u \in Threads : pc[u] \in Writing /\ new[u].writer = new[t].writer => u = t
          /\ \A f \in Files : Pending(t, f) => OnDisk(f) # new[t].writer

\* f's stamp is not v, and never will be.
Over(f, v) ==
    /\ v <= writers /\ v # OnDisk(f)
    /\ f \in Configs => v # Absent
    /\ \A t \in Threads : Pending(t, f) => new[t].writer # v

\* The profile that e was read from has been replaced.
Stale(e) == Over("profile", e.stamp["profile"])

\* e was read from the profile on disk.
Same(e) ==
    /\ e.stamp["profile"] = profile.writer /\ e.content["profile"] = profile.writer
    /\ e.declares = profile.declares

Missed(e, f) == f \in Configs /\ e.stamp[f] = Absent

\* What e says of f was so, or e's stamp of f betrays it.
Stamped(e, f) == e.stamp[f] = OnDisk(f) \/ Over(f, e.stamp[f]) \/ Missed(e, f)
Loaded(e, f) == e.content[f] = e.stamp[f] \/ Over(f, e.stamp[f]) \/ Missed(e, f)

\* A declared config is missed only when a save replaces the profile meanwhile.
Excused(e, f) == Missed(e, f) => raced \/ Stale(e)

Consulted(e) == {"profile", "sidecar"} \cup e.declares

Complete(e) ==
    /\ Stale(e) \/ Same(e)
    /\ \A f \in Consulted(e) : Loaded(e, f) /\ Excused(e, f)

\* What a read has stamped and loaded by the time it is where it is.
ReadOf(t) ==
    /\ pc[t] = "stat" => \A f \in {"profile", "sidecar"} \ todo[t] : Stamped(read[t], f)
    /\ pc[t] = "profile" => Stamped(read[t], "profile")
    /\ pc[t] \in {"profile", "sidecar of it"} => Stamped(read[t], "sidecar")
    /\ pc[t] \in {"sidecar of it", "configs of it", "config"} =>
          Stale(read[t]) \/ Same(read[t])
    /\ pc[t] = "sidecar of it" => todo[t] = read[t].declares
    /\ pc[t] \in {"configs of it", "config"} =>
          /\ Loaded(read[t], "sidecar")
          /\ \A c \in read[t].declares \ todo[t] :
                /\ Excused(read[t], c)
                /\ IF pc[t] = "config" /\ owned[t] = {c} THEN Stamped(read[t], c)
                   ELSE Loaded(read[t], c)
          /\ todo[t] \subseteq read[t].declares
    /\ pc[t] = "config" => owned[t] \cap todo[t] = {} /\ \E c \in Configs : owned[t] = {c}
    /\ pc[t] \in {"check", "return"} => Complete(read[t])

ReadInv == (cache # None => Complete(cache)) /\ \A t \in Threads : ReadOf(t)

\* Until a save has met a migration: after a save only saves write, and each later one
\* after it, so nothing that is declared is older.
SavedInv ==
    ~raced /\ saved # 0 =>
        /\ ~system /\ \A t \in Threads : ~Migrates(t)
        /\ profile.writer >= saved /\ sidecar >= saved
        /\ \A c \in profile.declares : config[c] >= saved
        /\ \A t \in Threads : pc[t] \in Writing => new[t].writer > saved

\* v is not older than what t's client has seen saved, or is a file that went away.
Newer(t, f, v) == v >= floor[t] \/ (f \in Configs /\ v = Absent)

\* What a get has read, and what it is yet to read, is new enough.
FreshOf(t) ==
    /\ floor[t] <= saved
    /\ pc[t] \in {"sidecar of it", "configs of it", "config"} =>
          /\ read[t].content["profile"] >= floor[t]
          /\ \A c \in read[t].declares : Newer(t, c, config[c])
    /\ pc[t] \in {"configs of it", "config"} =>
          /\ read[t].content["sidecar"] >= floor[t]
          /\ \A c \in read[t].declares \ todo[t] :
                Newer(t, c, read[t].content[c]) \/ (pc[t] = "config" /\ owned[t] = {c})
    /\ pc[t] = "check" =>
          /\ "profile" \in todo[t] => Consulted(read[t]) \subseteq todo[t]
          /\ "profile" \notin todo[t] =>
                \A c \in read[t].declares : Newer(t, c, config[c]) /\ read[t].stamp[c] # Absent
    /\ pc[t] \in {"check", "return"} =>
          \A f \in Consulted(read[t]) \ (IF pc[t] = "check" THEN todo[t] ELSE {}) :
              Newer(t, f, read[t].content[f])

FreshInv == ~raced => \A t \in Threads : FreshOf(t)

\* A step of t leaves every other request alone.
Only(t) ==
    \A u \in Threads \ {t} :
        UNCHANGED <<pc[u], op[u], new[u], owned[u], todo[u], read[u], floor[u]>>

Act(t) ==
    \/ \E o \in {"get", "list", "save"} : Ask(t, o)
    \/ BeginSave(t) \/ RefuseSave(t) \/ Migrate(t) \/ WriteProject(t) \/ ReadProject(t)

\* Every action is its own request's.
LEMMA ActOnly == ASSUME TypeOK, NEW t \in Threads, Act(t) PROVE Only(t)
<1>1. Answer(t) => Only(t)
  BY DEF Answer, TypeOK, Only, Goto
<1>2. ASSUME NEW label, NEW rest, Step(t, label, rest) PROVE Only(t)
  BY <1>2 DEF Step, TypeOK, Only, Goto
<1>3. ASSUME NEW label, NEW rest, NEW r, ReadStep(t, label, rest, r),
             \A u \in Threads \ {t} : owned'[u] = owned[u]
      PROVE  Only(t)
  BY <1>3 DEF ReadStep, TypeOK, Only, Goto
<1>4. ASSUME NEW o, Ask(t, o) PROVE Only(t)
  BY <1>4 DEF Ask, TypeOK, Only, Goto
<1>5. BeginSave(t) \/ Parse(t) => Only(t)
  BY DEF BeginSave, Parse, Compose, TypeOK, Only, Goto
<1>6. RefuseSave(t) \/ ParseFails(t) \/ WriteFails(t) \/ Return(t) \/ ReadFails(t) => Only(t)
  BY <1>1 DEF RefuseSave, ParseFails, WriteFails, Return, ReadFails
<1>7. OpenBackup(t) \/ WriteBackup(t) \/ RetireSystem(t) \/ WriteProfile(t) \/ ListOrphans(t) => Only(t)
  BY <1>2 DEF OpenBackup, WriteBackup, RetireSystem, WriteProfile, ListOrphans
<1>8. WriteSidecar(t) \/ ReadOwned(t) => Only(t)
  <2>1. ReadOwned(t) => Only(t)
    BY DEF ReadOwned, TypeOK, Only, Goto
  <2> QED
    BY <1>1, <1>2, <2>1 DEF WriteSidecar
<1>9. ASSUME NEW c, WriteConfig(t, c) \/ Retire(t, c) PROVE Only(t)
  BY <1>2, <1>9 DEF WriteConfig, Retire
<1>10. Look(t) \/ ReadProfile(t) \/ ReadSidecar(t) \/ StoreInCache(t) => Only(t)
  BY <1>1, <1>3 DEF Look, Afresh, ReadProfile, ReadSidecar, StoreInCache
<1>11. ASSUME NEW f, Check(t, f) \/ Stat(t, f) \/ StampConfig(t, f) \/ ReadConfig(t, f) PROVE Only(t)
  <2>1. \A u \in Threads \ {t} : owned'[u] = owned[u]
    BY <1>11 DEF Check, Stat, StampConfig, ReadConfig, TypeOK
  <2> QED
    BY <1>3, <1>11, <2>1 DEF Check, Stat, Afresh, StampConfig, ReadConfig
<1> QED
  BY <1>4, <1>5, <1>6, <1>7, <1>8, <1>9, <1>10, <1>11 DEF Act, Migrate, WriteProject, ReadProject

\* Every step is one request's, a crash, or nothing.
LEMMA Steps ==
    ASSUME TypeOK, [Next]_vars
    PROVE  (\E t \in Threads : Act(t) /\ Only(t)) \/ Crash \/ UNCHANGED vars
BY ActOnly DEF Next, Act

\* What a step can do to the files: a writer that is yet to write one writes it, once,
\* or a config is retired. Who begins to write is a new writer.
DiskStep ==
    /\ writers <= writers' /\ (raced => raced')
    /\ \A t \in Threads : pc'[t] \in Writing =>
          \/ /\ pc[t] \in Writing /\ new'[t] = new[t]
             /\ \A f \in Files : Pending(t, f)' => Pending(t, f)
          \/ /\ pc[t] \notin Writing /\ new'[t].writer = writers + 1 /\ writers' = writers + 1
             /\ \A u \in Threads \ {t} : pc'[u] = pc[u] /\ new'[u] = new[u]
    /\ \A f \in Files :
          \/ OnDisk(f)' = OnDisk(f)
          \/ \E t \in Threads : Pending(t, f) /\ ~Pending(t, f)' /\ OnDisk(f)' = new[t].writer
          \/ f \in Configs /\ OnDisk(f)' = Absent
    /\ profile' = profile \/ \E t \in Threads : Pending(t, "profile") /\ profile' = new[t]
    /\ saved' = saved \/ \E t \in Threads : pc[t] \in Writing /\ saved' = new[t].writer

\* A step that writes no file that is read, and begins no writing.
LEMMA StillDisk ==
    ASSUME UNCHANGED <<profile, config, sidecar, writers, saved>>, raced => raced', writers \in Nat,
           \A t \in Threads : pc'[t] \in Writing =>
               pc[t] \in Writing /\ UNCHANGED <<pc[t], new[t], todo[t]>>
    PROVE  DiskStep
<1>1. \A f \in Files : OnDisk(f)' = OnDisk(f)
  BY DEF OnDisk
<1>2. \A t \in Threads, f \in Files : pc'[t] \in Writing => (Pending(t, f)' => Pending(t, f))
  BY DEF Pending
<1> QED
  BY <1>1, <1>2 DEF DiskStep

\* Every step is such a step.
LEMMA DiskSteps == TypeOK /\ [Next]_vars => DiskStep
<1> SUFFICES ASSUME TypeOK, [Next]_vars PROVE DiskStep
    OBVIOUS
<1>1. writers \in Nat
  BY DEF TypeOK, Writers
<1>2. ASSUME NEW t \in Threads, Only(t), pc'[t] \notin Writing, raced => raced',
             UNCHANGED <<profile, config, sidecar, writers, saved>>
      PROVE  DiskStep
  <2>1. \A u \in Threads : pc'[u] \in Writing => pc[u] \in Writing /\ UNCHANGED <<pc[u], new[u], todo[u]>>
    BY <1>2 DEF Only
  <2> QED
    BY <1>1, <1>2, <2>1, StillDisk
<1>3. ASSUME NEW t \in Threads, Only(t), NEW o \in {"get", "list", "save"}, Ask(t, o)
      PROVE  DiskStep
  BY <1>2, <1>3 DEF Ask, Goto, TypeOK, Writing, disk
<1>4. ASSUME NEW t \in Threads, Only(t), NEW d \in SUBSET Configs, Compose(t, d), raced => raced',
             pc[t] \notin Writing
      PROVE  DiskStep
  <2>1. /\ writers' = writers + 1 /\ new'[t].writer = writers + 1
        /\ UNCHANGED <<profile, config, sidecar, saved>>
    BY <1>4 DEF Compose, TypeOK, disk
  <2>2. \A f \in Files : OnDisk(f)' = OnDisk(f)
    BY <2>1 DEF OnDisk
  <2>3. \A u \in Threads \ {t} : pc'[u] = pc[u] /\ new'[u] = new[u] /\ todo'[u] = todo[u]
    BY <1>4 DEF Only
  <2>4. \A u \in Threads \ {t}, f \in Files : Pending(u, f)' => Pending(u, f)
    BY <2>3 DEF Pending
  <2> QED
    BY <1>1, <1>4, <2>1, <2>2, <2>3, <2>4 DEF DiskStep
<1>5. ASSUME NEW t \in Threads, Only(t), BeginSave(t) \/ Parse(t)
      PROVE  DiskStep
  <2>1. PICK d \in SUBSET Configs : Compose(t, d)
    BY <1>5 DEF BeginSave, Parse
  <2>2. pc[t] \notin Writing
    BY <1>5 DEF BeginSave, Parse, Writing
  <2>3. raced => raced'
    BY <1>5 DEF BeginSave, Parse
  <2> QED
    BY <1>4, <1>5, <2>1, <2>2, <2>3
<1>6. ASSUME NEW t \in Threads, Only(t), Answer(t),
             UNCHANGED <<profile, config, sidecar, writers, saved, raced>>
      PROVE  DiskStep
  BY <1>2, <1>6 DEF Answer, Goto, TypeOK, Writing
<1>7. ASSUME NEW t \in Threads, Only(t),
             RefuseSave(t) \/ ParseFails(t) \/ WriteFails(t) \/ Return(t) \/ ReadFails(t)
      PROVE  DiskStep
  BY <1>6, <1>7 DEF RefuseSave, ParseFails, WriteFails, Return, ReadFails, disk
<1>8. ASSUME NEW t \in Threads, Only(t), OpenBackup(t) \/ WriteBackup(t) \/ RetireSystem(t)
      PROVE  DiskStep
  BY <1>2, <1>8 DEF OpenBackup, WriteBackup, RetireSystem, Step, Goto, TypeOK, Writing
<1>9. ASSUME NEW t \in Threads, Only(t), pc[t] \in Writing, UNCHANGED <<new, writers, raced>>,
             \A f \in Files : Pending(t, f)' => Pending(t, f),
             \A f \in Files : \/ OnDisk(f)' = OnDisk(f)
                              \/ Pending(t, f) /\ ~Pending(t, f)' /\ OnDisk(f)' = new[t].writer
                              \/ f \in Configs /\ OnDisk(f)' = Absent,
             profile' = profile \/ (Pending(t, "profile") /\ profile' = new[t]),
             saved' = saved \/ saved' = new[t].writer
      PROVE  DiskStep
  <2>1. \A u \in Threads \ {t}, f \in Files : Pending(u, f)' => Pending(u, f)
    BY <1>9 DEF Only, Pending
  <2>2. \A u \in Threads \ {t} : pc'[u] \in Writing => pc[u] \in Writing
    BY <1>9 DEF Only
  <2> QED
    BY <1>1, <1>9, <2>1, <2>2 DEF DiskStep
<1>10. ASSUME NEW t \in Threads, Only(t), ReadOwned(t) \/ ListOrphans(t)
       PROVE  DiskStep
  <2>1. /\ pc[t] \in {"own", "list"} /\ (pc[t] = "own" => pc'[t] = "configs")
        /\ (pc[t] = "list" => pc'[t] \in {"prune", "sidecar"})
        /\ UNCHANGED <<new, writers, raced, saved, profile, config, sidecar>>
    BY <1>10 DEF ReadOwned, ListOrphans, Step, Goto, TypeOK, disk
  <2>2. \A f \in Files : OnDisk(f)' = OnDisk(f)
    BY <2>1 DEF OnDisk
  <2>3. \A f \in Files : Pending(t, f)' => Pending(t, f)
    BY <2>1, FilesAssumption DEF Pending, Writing
  <2> QED
    BY <1>9, <1>10, <2>1, <2>2, <2>3 DEF Writing
<1>11. ASSUME NEW t \in Threads, Only(t), NEW c \in Configs, WriteConfig(t, c)
       PROVE  DiskStep
  <2>1. /\ pc[t] = "configs" /\ pc'[t] = "configs" /\ c \in todo[t] /\ todo'[t] = todo[t] \ {c}
        /\ config' = [config EXCEPT ![c] = new[t].writer]
        /\ UNCHANGED <<new, writers, raced, saved, profile, sidecar>>
    BY <1>11 DEF WriteConfig, Step, Goto, TypeOK
  <2>2. c # "profile" /\ c # "sidecar"
    BY FilesAssumption
  <2>3. \A f \in Files : Pending(t, f)' => Pending(t, f)
    BY <2>1 DEF Pending, Writing
  <2>4. Pending(t, c) /\ ~Pending(t, c)'
    BY <2>1, <2>2 DEF Pending, Writing
  <2>5. OnDisk(c)' = new[t].writer /\ \A f \in Files \ {c} : OnDisk(f)' = OnDisk(f)
    BY <2>1, <2>2 DEF OnDisk, TypeOK, Files
  <2> QED
    BY <1>9, <1>11, <2>1, <2>3, <2>4, <2>5 DEF Writing
<1>12. ASSUME NEW t \in Threads, Only(t), NEW c \in Configs, Retire(t, c)
       PROVE  DiskStep
  <2>1. /\ pc[t] = "prune" /\ pc'[t] \in {"prune", "sidecar"}
        /\ config' = [config EXCEPT ![c] = Absent]
        /\ UNCHANGED <<new, writers, raced, saved, profile, sidecar>>
    BY <1>12 DEF Retire, Step, Goto, TypeOK
  <2>2. c # "profile" /\ c # "sidecar"
    BY FilesAssumption
  <2>3. \A f \in Files : Pending(t, f)' => Pending(t, f)
    BY <2>1 DEF Pending, Writing
  <2>4. OnDisk(c)' = Absent /\ \A f \in Files \ {c} : OnDisk(f)' = OnDisk(f)
    BY <2>1, <2>2 DEF OnDisk, TypeOK, Files
  <2> QED
    BY <1>9, <1>12, <2>1, <2>3, <2>4 DEF Writing
<1>13. ASSUME NEW t \in Threads, Only(t), WriteProfile(t)
       PROVE  DiskStep
  <2>1. /\ pc[t] = "configs" /\ pc'[t] = "list" /\ profile' = new[t]
        /\ UNCHANGED <<new, writers, raced, saved, config, sidecar>>
    BY <1>13 DEF WriteProfile, Step, Goto, TypeOK
  <2>2. \A f \in Files : Pending(t, f)' => Pending(t, f)
    BY <2>1 DEF Pending, Writing
  <2>3. Pending(t, "profile") /\ ~Pending(t, "profile")'
    BY <2>1, FilesAssumption DEF Pending, Writing
  <2>4. OnDisk("profile")' = new[t].writer /\ \A f \in Files \ {"profile"} : OnDisk(f)' = OnDisk(f)
    BY <2>1 DEF OnDisk
  <2> QED
    BY <1>9, <1>13, <2>1, <2>2, <2>3, <2>4 DEF Writing
<1>14. ASSUME NEW t \in Threads, Only(t), WriteSidecar(t)
       PROVE  DiskStep
  <2>1. /\ pc[t] = "sidecar" /\ pc'[t] \in {"idle", "backup"} /\ sidecar' = new[t].writer
        /\ saved' \in {saved, new[t].writer}
        /\ UNCHANGED <<writers, raced, profile, config>>
    BY <1>14 DEF WriteSidecar, Answer, Step, Goto, TypeOK
  <2>2. \A f \in Files : ~Pending(t, f)'
    BY <2>1 DEF Pending, Writing
  <2>3. Pending(t, "sidecar")
    BY <2>1, FilesAssumption DEF Pending, Writing
  <2>4. OnDisk("sidecar")' = new[t].writer /\ \A f \in Files \ {"sidecar"} : OnDisk(f)' = OnDisk(f)
    BY <2>1 DEF OnDisk
  <2>5. \A u \in Threads \ {t} : pc'[u] = pc[u] /\ new'[u] = new[u]
    BY <1>14 DEF Only
  <2>6. \A u \in Threads \ {t}, f \in Files : Pending(u, f)' => Pending(u, f)
    BY <1>14 DEF Only, Pending
  <2> QED
    BY <1>1, <2>1, <2>2, <2>3, <2>4, <2>5, <2>6 DEF DiskStep, Writing
<1>15. ASSUME NEW t \in Threads, Only(t), NEW label \in Reading, NEW rest, NEW r, ReadStep(t, label, rest, r)
       PROVE  DiskStep
  <2>1. pc'[t] = label /\ label \notin Writing
    BY <1>15 DEF ReadStep, Goto, TypeOK, Writing, Reading
  <2>2. UNCHANGED <<profile, config, sidecar, writers, saved, raced>>
    BY <1>15 DEF ReadStep, disk
  <2> QED
    BY <1>2, <1>15, <2>1, <2>2
<1>16. ASSUME NEW t \in Threads, Only(t), Look(t) \/ ReadProfile(t) \/ ReadSidecar(t) \/ StoreInCache(t)
       PROVE  DiskStep
  <2>1. Look(t) => DiskStep
    BY <1>6, <1>15, <1>16 DEF Look, Afresh, Reading, disk
  <2>2. ReadProfile(t) => DiskStep
    BY <1>15, <1>16 DEF ReadProfile, Reading
  <2>3. ReadSidecar(t) \/ StoreInCache(t) => DiskStep
    BY <1>15, <1>16 DEF ReadSidecar, StoreInCache, Reading
  <2> QED
    BY <1>16, <2>1, <2>2, <2>3
<1>17. ASSUME NEW t \in Threads, Only(t), NEW f, Check(t, f) \/ Stat(t, f) \/ StampConfig(t, f) \/ ReadConfig(t, f)
       PROVE  DiskStep
  BY <1>15, <1>17 DEF Check, Stat, Afresh, StampConfig, ReadConfig, Reading
<1>18. CASE Crash
  BY <1>1, <1>18, StillDisk DEF Crash, Writing, disk
<1>19. CASE UNCHANGED vars
  BY <1>1, <1>19, StillDisk DEF vars, disk, threads
<1> QED
  BY <1>3, <1>5, <1>7, <1>8, <1>10, <1>11, <1>12, <1>13, <1>14, <1>16, <1>17, <1>18, <1>19, Steps
     DEF Act, Migrate, WriteProject, ReadProject

\* No writer writes twice, because it is not yet to write what it has written.
LEMMA WriterStep == TypeOK /\ TypeOK' /\ WriterInv /\ DiskStep => WriterInv'
<1> SUFFICES ASSUME TypeOK, TypeOK', WriterInv, DiskStep PROVE WriterInv'
    OBVIOUS
<1>1. writers \in Nat /\ saved \in Nat /\ \A f \in Files : OnDisk(f) \in Nat
  BY OnDiskType DEF TypeOK, Writers
<1>2. writers' \in Nat /\ writers <= writers'
  BY DEF TypeOK, Writers, DiskStep
<1>3. \A t \in Threads, f \in Files : Pending(t, f) => pc[t] \in Writing
  BY DEF Pending
<1>4. \A f \in Files : OnDisk(f)' \in Nat /\ OnDisk(f)' <= writers
  <2> SUFFICES ASSUME NEW f \in Files PROVE OnDisk(f)' \in Nat /\ OnDisk(f)' <= writers
    OBVIOUS
  <2>1. CASE OnDisk(f)' = OnDisk(f)
    BY <1>1, <2>1 DEF WriterInv
  <2>2. ASSUME NEW t \in Threads, Pending(t, f), OnDisk(f)' = new[t].writer
        PROVE  OnDisk(f)' \in Nat /\ OnDisk(f)' <= writers
    BY <1>3, <1>1, <2>2 DEF WriterInv
  <2>3. CASE OnDisk(f)' = Absent
    BY <1>1, <2>3 DEF Absent
  <2> QED
    BY <2>1, <2>2, <2>3 DEF DiskStep
<1>5. saved' \in Nat /\ saved' <= writers
  BY <1>1 DEF DiskStep, WriterInv
<1>6. ASSUME NEW t \in Threads, pc'[t] \in Writing
      PROVE  /\ new'[t].writer \in 1..writers'
             /\ \A u \in Threads : pc'[u] \in Writing /\ new'[u].writer = new'[t].writer => u = t
             /\ \A f \in Files : Pending(t, f)' => OnDisk(f)' # new'[t].writer
  <2>1. CASE pc[t] \notin Writing
    <3>1. /\ new'[t].writer = writers + 1 /\ writers' = writers + 1
          /\ \A u \in Threads \ {t} : pc'[u] = pc[u] /\ new'[u] = new[u]
      BY <1>6, <2>1 DEF DiskStep
    <3>2. \A u \in Threads \ {t} : pc'[u] \in Writing => new'[u].writer # writers + 1
      BY <1>1, <3>1 DEF WriterInv
    <3>3. \A f \in Files : OnDisk(f)' # writers + 1
      BY <1>1, <1>4
    <3> QED
      BY <1>1, <3>1, <3>2, <3>3
  <2>2. CASE pc[t] \in Writing
    <3>1. new'[t] = new[t] /\ \A f \in Files : Pending(t, f)' => Pending(t, f)
      BY <1>6, <2>2 DEF DiskStep
    <3>2. new[t].writer \in 1..writers
      BY <2>2 DEF WriterInv
    <3>3. \A u \in Threads : pc'[u] \in Writing /\ new'[u].writer = new[t].writer => u = t
      BY <1>1, <2>2, <3>2 DEF DiskStep, WriterInv
    <3>4. ASSUME NEW f \in Files, Pending(t, f)' PROVE OnDisk(f)' # new[t].writer
      <4>1. Pending(t, f) /\ OnDisk(f) # new[t].writer
        BY <2>2, <3>1, <3>4 DEF WriterInv
      <4>2. ASSUME NEW u \in Threads, Pending(u, f), ~Pending(u, f)' PROVE new[u].writer # new[t].writer
        BY <1>3, <2>2, <3>4, <4>2 DEF WriterInv
      <4>3. Absent # new[t].writer
        BY <3>2 DEF Absent
      <4> QED
        BY <4>1, <4>2, <4>3 DEF DiskStep
    <3> QED
      BY <1>1, <1>2, <3>1, <3>2, <3>3, <3>4
  <2> QED
    BY <2>1, <2>2
<1> QED
  BY <1>1, <1>2, <1>4, <1>5, <1>6 DEF WriterInv

\* What is over stays over, and what is overwritten is over.
LEMMA OverKept ==
    ASSUME TypeOK, TypeOK', WriterInv, DiskStep, NEW f \in Files, NEW v \in Writers
    PROVE  /\ Over(f, v) => Over(f, v)'
           /\ v = OnDisk(f) /\ (f \in Configs => v # Absent) => v = OnDisk(f)' \/ Over(f, v)'
<1>1. /\ writers \in Nat /\ writers' \in Nat /\ writers <= writers' /\ v \in Nat
      /\ \A t \in Threads : Pending(t, f) => pc[t] \in Writing
      /\ \A t \in Threads : Pending(t, f)' => pc'[t] \in Writing
  BY DEF TypeOK, Writers, DiskStep, Pending
<1>2. ASSUME v <= writers, \A t \in Threads : Pending(t, f) => new[t].writer # v
      PROVE  v <= writers' /\ \A t \in Threads : Pending(t, f)' => new'[t].writer # v
  BY <1>1, <1>2 DEF DiskStep
<1>3. ASSUME Over(f, v) PROVE Over(f, v)'
  <2>1. /\ v <= writers /\ v # OnDisk(f) /\ (f \in Configs => v # Absent)
        /\ \A t \in Threads : Pending(t, f) => new[t].writer # v
    BY <1>3 DEF Over
  <2>2. v # OnDisk(f)'
    BY <2>1 DEF DiskStep
  <2> QED
    BY <1>2, <2>1, <2>2 DEF Over
<1>4. ASSUME v = OnDisk(f), f \in Configs => v # Absent, v # OnDisk(f)' PROVE Over(f, v)'
  <2>1. v <= writers /\ \A t \in Threads : Pending(t, f) => new[t].writer # v
    BY <1>1, <1>4 DEF WriterInv
  <2> QED
    BY <1>2, <1>4, <2>1 DEF Over
<1> QED
  BY <1>3, <1>4

\* A step keeps what is known of what was read, whoever holds it.
LEMMA EntryKept ==
    ASSUME TypeOK, TypeOK', WriterInv, DiskStep, NEW e \in Entries
    PROVE  /\ \A f \in Files : /\ Stamped(e, f) => Stamped(e, f)'
                               /\ Loaded(e, f) => Loaded(e, f)'
                               /\ Excused(e, f) => Excused(e, f)'
           /\ Stale(e) \/ Same(e) => Stale(e)' \/ Same(e)'
           /\ Complete(e) => Complete(e)'
<1>1. /\ e.stamp \in [Files -> Writers] /\ e.declares \in SUBSET Configs
      /\ Configs \subseteq Files /\ "profile" \in Files /\ "sidecar" \in Files
      /\ "profile" \notin Configs
  BY FilesAssumption DEF Entries, Files
<1>2. ASSUME NEW f \in Files PROVE Over(f, e.stamp[f]) => Over(f, e.stamp[f])'
  BY <1>1, <1>2, OverKept
<1>3. Stale(e) => Stale(e)'
  BY <1>1, <1>2 DEF Stale
<1>4. ASSUME NEW f \in Files
      PROVE  /\ Stamped(e, f) => Stamped(e, f)'
             /\ Loaded(e, f) => Loaded(e, f)'
             /\ Excused(e, f) => Excused(e, f)'
  <2>1. Stamped(e, f) => Stamped(e, f)'
    BY <1>1, <1>2, <1>4, OverKept DEF Stamped, Missed
  <2>2. Loaded(e, f) => Loaded(e, f)'
    BY <1>2, <1>4 DEF Loaded, Missed
  <2>3. raced => raced'
    BY DEF DiskStep
  <2>4. Excused(e, f) => Excused(e, f)'
    BY <1>3, <2>3 DEF Excused, Missed
  <2> QED
    BY <2>1, <2>2, <2>4
<1>5. Same(e) => Stale(e)' \/ Same(e)'
  <2>1. OnDisk("profile") = profile.writer /\ OnDisk("profile")' = profile'.writer
    BY DEF OnDisk
  <2>2. CASE profile' = profile
    BY <2>2 DEF Same
  <2>3. CASE profile' # profile
    <3>1. PICK t \in Threads : Pending(t, "profile") /\ profile' = new[t]
      BY <2>3 DEF DiskStep
    <3>2. profile'.writer # profile.writer
      BY <1>1, <2>1, <3>1 DEF WriterInv, Pending
    <3> QED
      BY <1>1, <2>1, <3>2, OverKept DEF Same, Stale
  <2> QED
    BY <2>2, <2>3
<1>6. Complete(e) => Complete(e)'
  <2>1. Consulted(e) \subseteq Files
    BY <1>1 DEF Consulted
  <2> QED
    BY <1>3, <1>4, <1>5, <2>1 DEF Complete, Consulted
<1> QED
  BY <1>3, <1>4, <1>5, <1>6

\* A step of another keeps what is known of t's read.
LEMMA ReadKept ==
    ASSUME TypeOK, TypeOK', WriterInv, DiskStep, NEW t \in Threads, ReadOf(t),
           UNCHANGED <<pc[t], owned[t], todo[t], read[t]>>
    PROVE  ReadOf(t)'
<1>1. read[t] \in Entries /\ read[t].declares \in SUBSET Configs
  BY DEF TypeOK, Entries
<1>2. /\ Configs \subseteq Files /\ "profile" \in Files /\ "sidecar" \in Files
  BY DEF Files
<1>3. /\ \A f \in Files : /\ Stamped(read[t], f) => Stamped(read[t], f)'
                          /\ Loaded(read[t], f) => Loaded(read[t], f)'
                          /\ Excused(read[t], f) => Excused(read[t], f)'
      /\ Stale(read[t]) \/ Same(read[t]) => Stale(read[t])' \/ Same(read[t])'
      /\ Complete(read[t]) => Complete(read[t])'
  BY <1>1, EntryKept
<1> QED
  BY <1>1, <1>2, <1>3 DEF ReadOf

\* A step of t keeps what is known of the others' reads, and of the cache unless t stores.
LEMMA ReadMoves ==
    ASSUME TypeOK, TypeOK', WriterInv, DiskStep, ReadInv, NEW t \in Threads, Only(t),
           cache' = cache \/ Complete(cache)', ReadOf(t)'
    PROVE  ReadInv'
<1>1. \A u \in Threads \ {t} : ReadOf(u)'
  BY ReadKept DEF Only, ReadInv
<1>2. cache' # None => Complete(cache)'
  BY EntryKept DEF ReadInv, TypeOK
<1> QED
  BY <1>1, <1>2 DEF ReadInv

Reads == {"stat", "profile", "sidecar of it", "configs of it", "config", "check", "return"}

\* What a step of a read changes.
LEMMA ReadStepFacts ==
    ASSUME TypeOK, NEW t \in Threads, NEW label, NEW rest, NEW r, ReadStep(t, label, rest, r)
    PROVE  /\ pc'[t] = label /\ todo'[t] = rest /\ read'[t] = r
           /\ floor' = floor /\ op' = op /\ raced' = raced /\ saved' = saved
           /\ profile' = profile /\ config' = config /\ sidecar' = sidecar
           /\ \A f \in Files : OnDisk(f)' = OnDisk(f)
BY DEF ReadStep, Goto, TypeOK, disk, OnDisk

\* What stamping and loading change.
LEMMA EntryFacts ==
    ASSUME TypeOK, NEW t \in Threads, NEW f \in Files
    PROVE  /\ Stamp(t, f).content = read[t].content /\ Stamp(t, f).declares = read[t].declares
           /\ Stamp(t, f).stamp[f] = OnDisk(f)
           /\ \A g \in Files \ {f} : Stamp(t, f).stamp[g] = read[t].stamp[g]
           /\ Load(t, f).stamp = read[t].stamp /\ Load(t, f).declares = read[t].declares
           /\ Load(t, f).content[f] = OnDisk(f)
           /\ \A g \in Files \ {f} : Load(t, f).content[g] = read[t].content[g]
<1>1. read[t] \in Entries
  BY DEF TypeOK
<1> QED
  BY <1>1 DEF Stamp, Load, Entries

\* What reading the profile changes.
LEMMA ProfileFacts ==
    ASSUME TypeOK, NEW t \in Threads, ReadProfile(t)
    PROVE  /\ read'[t].stamp = read[t].stamp /\ read'[t].declares = profile.declares
           /\ read'[t].content["profile"] = profile.writer
           /\ pc[t] = "profile" /\ pc'[t] = "sidecar of it" /\ todo'[t] = profile.declares
           /\ UNCHANGED <<profile, config, sidecar, raced, floor, saved, cache, op>>
           /\ \A f \in Files : OnDisk(f)' = OnDisk(f)
<1>1. PICK l : l = Load(t, "profile")
  OBVIOUS
<1>2. PICK r : r = [l EXCEPT !.declares = profile.declares]
  OBVIOUS
<1>3. ReadStep(t, "sidecar of it", profile.declares, r) /\ pc[t] = "profile" /\ cache' = cache
  BY <1>1, <1>2 DEF ReadProfile
<1>4. l \in Entries
  BY <1>1, ReadTypes DEF Files
<1>5. r.stamp = l.stamp /\ r.content = l.content /\ r.declares = profile.declares
  BY <1>2, <1>4 DEF Entries
<1>6. "profile" \in Files /\ OnDisk("profile") = profile.writer
  BY DEF Files, OnDisk
<1>7. l.stamp = read[t].stamp /\ l.content["profile"] = profile.writer
  BY <1>1, <1>6, EntryFacts
<1>8. /\ pc'[t] = "sidecar of it" /\ todo'[t] = profile.declares /\ read'[t] = r
      /\ UNCHANGED <<profile, config, sidecar, raced, floor, saved, op>>
      /\ \A f \in Files : OnDisk(f)' = OnDisk(f)
  BY <1>3, ReadStepFacts
<1> QED
  BY <1>3, <1>5, <1>7, <1>8

\* The steps that go on with a read.
LEMMA ReadGoesOn ==
    ASSUME TypeOK, TypeOK', WriterInv, DiskStep, DeclaredExist, ReadInv, NEW t \in Threads
    PROVE  /\ \A f \in Files : Stat(t, f) => ReadOf(t)'
           /\ ReadProfile(t) \/ ReadSidecar(t) => ReadOf(t)'
           /\ \A c \in Configs : StampConfig(t, c) \/ ReadConfig(t, c) => ReadOf(t)'
<1>0. ReadOf(t)
  BY DEF ReadInv
<1>1. PICK e \in Entries : e = read[t]
  BY DEF TypeOK
<1>2. PICK d \in Entries : d = read'[t]
  BY DEF TypeOK
<1>3. /\ \A f \in Files : Over(f, e.stamp[f]) => Over(f, e.stamp[f])'
      /\ raced => raced'
  BY <1>1, OverKept DEF Entries, DiskStep
<1>4. /\ Configs \subseteq Files /\ "profile" \in Files /\ "sidecar" \in Files
      /\ "profile" \notin Configs /\ "sidecar" \notin Configs
      /\ e.declares \subseteq Configs
  BY FilesAssumption DEF Files, Entries
<1>5. OnDisk("profile") = profile.writer /\ OnDisk("sidecar") = sidecar /\ \A c \in Configs : OnDisk(c) = config[c]
  BY <1>4 DEF OnDisk
<1>6. ASSUME NEW f \in Files, Stat(t, f) PROVE ReadOf(t)'
  <2>1. pc[t] = "stat" /\ d = Stamp(t, f) /\ todo'[t] = todo[t] \ {f} /\ f \in todo[t]
    BY <1>2, <1>6, ReadStepFacts DEF Stat, First
  <2>2. pc'[t] = IF todo[t] = {f} THEN "profile" ELSE "stat"
    BY <1>6, ReadStepFacts DEF Stat
  <2>3. \A g \in Files : OnDisk(g)' = OnDisk(g)
    BY <1>6, ReadStepFacts DEF Stat
  <2>4. d.stamp[f] = OnDisk(f) /\ \A g \in Files \ {f} : d.stamp[g] = e.stamp[g]
    BY <1>1, <2>1, EntryFacts
  <2>5. \A g \in {"profile", "sidecar"} \ todo'[t] : Stamped(d, g)'
    <3> SUFFICES ASSUME NEW g \in {"profile", "sidecar"} \ todo'[t] PROVE Stamped(d, g)'
      OBVIOUS
    <3>1. CASE g = f
      BY <1>4, <2>3, <2>4, <3>1 DEF Stamped
    <3>2. CASE g # f
      <4>1. Stamped(e, g)
        BY <1>0, <1>1, <2>1, <3>2 DEF ReadOf
      <4> QED
        BY <1>3, <1>4, <2>3, <2>4, <3>2, <4>1 DEF Stamped, Missed
    <3> QED
      BY <3>1, <3>2
  <2> QED
    BY <1>2, <2>1, <2>2, <2>5 DEF ReadOf
<1>7. ASSUME ReadProfile(t) PROVE ReadOf(t)'
  <2>1. pc[t] = "profile" /\ pc'[t] = "sidecar of it" /\ todo'[t] = profile.declares
    BY <1>7, ProfileFacts
  <2>2. profile' = profile /\ \A g \in Files : OnDisk(g)' = OnDisk(g)
    BY <1>7, ProfileFacts
  <2>3. d.stamp = e.stamp /\ d.content["profile"] = profile.writer /\ d.declares = profile.declares
    BY <1>1, <1>2, <1>7, ProfileFacts
  <2>4. Stamped(e, "profile") /\ Stamped(e, "sidecar")
    BY <1>0, <1>1, <2>1 DEF ReadOf
  <2>5. Stamped(d, "sidecar")'
    BY <1>3, <1>4, <2>2, <2>3, <2>4 DEF Stamped, Missed
  <2>6. Stale(d)' \/ Same(d)'
    BY <1>3, <1>4, <1>5, <2>2, <2>3, <2>4 DEF Stamped, Missed, Stale, Same
  <2> QED
    BY <1>2, <2>1, <2>3, <2>5, <2>6 DEF ReadOf
<1>8. ASSUME ReadSidecar(t) PROVE ReadOf(t)'
  <2>1. /\ pc[t] = "sidecar of it" /\ pc'[t] = "configs of it" /\ todo'[t] = todo[t]
        /\ d = Load(t, "sidecar")
    BY <1>2, <1>8, ReadStepFacts DEF ReadSidecar
  <2>2. profile' = profile
    BY <1>8, ReadStepFacts DEF ReadSidecar
  <2>3. /\ d.stamp = e.stamp /\ d.content["sidecar"] = OnDisk("sidecar")
        /\ d.content["profile"] = e.content["profile"] /\ d.declares = e.declares
    <3>1. d.content["profile"] = e.content["profile"]
      BY <1>1, <1>4, <2>1, EntryFacts
    <3>2. d.stamp = e.stamp /\ d.content["sidecar"] = OnDisk("sidecar") /\ d.declares = e.declares
      BY <1>1, <1>4, <2>1, EntryFacts
    <3> QED
      BY <3>1, <3>2
  <2>4. Stamped(e, "sidecar") /\ (Stale(e) \/ Same(e)) /\ todo[t] = e.declares
    BY <1>0, <1>1, <2>1 DEF ReadOf
  <2>5. Loaded(d, "sidecar")'
    BY <1>3, <1>4, <2>3, <2>4 DEF Stamped, Loaded, Missed
  <2>6. Stale(d)' \/ Same(d)'
    BY <1>3, <1>4, <2>2, <2>3, <2>4 DEF Stale, Same
  <2> QED
    BY <1>2, <2>1, <2>3, <2>4, <2>5, <2>6 DEF ReadOf
<1>9. ASSUME NEW c \in Configs, StampConfig(t, c) PROVE ReadOf(t)'
  <2>1. /\ pc[t] = "configs of it" /\ pc'[t] = "config" /\ todo'[t] = todo[t] \ {c}
        /\ c \in todo[t] /\ d = Stamp(t, c)
    BY <1>2, <1>9, ReadStepFacts DEF StampConfig
  <2>2. /\ profile' = profile /\ raced' = raced /\ owned'[t] = {c}
        /\ \A g \in Files : OnDisk(g)' = OnDisk(g)
    BY <1>9, ReadStepFacts DEF StampConfig, TypeOK
  <2>3. /\ d.content = e.content /\ d.declares = e.declares /\ d.stamp[c] = OnDisk(c)
        /\ \A g \in Files \ {c} : d.stamp[g] = e.stamp[g]
    BY <1>1, <1>4, <2>1, EntryFacts
  <2>4. /\ Stale(e) \/ Same(e)
        /\ Loaded(e, "sidecar") /\ todo[t] \subseteq e.declares
        /\ \A g \in e.declares \ todo[t] : Excused(e, g) /\ Loaded(e, g)
    BY <1>0, <1>1, <2>1 DEF ReadOf
  <2>5. Stale(d)' \/ Same(d)'
    BY <1>3, <1>4, <2>2, <2>3, <2>4 DEF Stale, Same
  <2>6. Loaded(d, "sidecar")'
    BY <1>3, <1>4, <2>3, <2>4 DEF Loaded, Missed
  <2>7. Stamped(d, c)'
    BY <1>4, <2>2, <2>3 DEF Stamped
  <2>8. Excused(d, c)'
    <3>1. CASE Stale(e)
      BY <1>3, <1>4, <2>3, <3>1 DEF Excused, Stale
    <3>2. CASE Same(e)
      <4>1. raced \/ config[c] # Absent
        BY <2>1, <2>4, <3>2 DEF DeclaredExist, Same
      <4> QED
        BY <1>4, <1>5, <2>2, <2>3, <4>1 DEF Excused, Missed
    <3> QED
      BY <2>4, <3>1, <3>2
  <2>9. \A g \in d.declares \ (todo'[t] \cup {c}) : Excused(d, g)' /\ Loaded(d, g)'
    <3> SUFFICES ASSUME NEW g \in d.declares \ (todo'[t] \cup {c}) PROVE Excused(d, g)' /\ Loaded(d, g)'
      OBVIOUS
    <3>1. Excused(e, g) /\ Loaded(e, g) /\ g \in Files \ {c}
      BY <1>4, <2>1, <2>3, <2>4
    <3>2. Excused(d, g)'
      BY <1>3, <1>4, <2>2, <2>3, <3>1 DEF Excused, Missed, Stale
    <3>3. Loaded(d, g)'
      BY <1>3, <2>3, <3>1 DEF Loaded, Missed
    <3> QED
      BY <3>2, <3>3
  <2>10. \A g \in d.declares \ todo'[t] :
            Excused(d, g)' /\ IF {c} = {g} THEN Stamped(d, g)' ELSE Loaded(d, g)'
    BY <2>7, <2>8, <2>9
  <2> QED
    BY <1>2, <2>1, <2>2, <2>3, <2>4, <2>5, <2>6, <2>10 DEF ReadOf
<1>10. ASSUME NEW c \in Configs, ReadConfig(t, c) PROVE ReadOf(t)'
  <2>1. /\ pc[t] = "config" /\ pc'[t] = "configs of it" /\ todo'[t] = todo[t]
        /\ c \in owned[t] /\ d = Load(t, c)
    BY <1>2, <1>10, ReadStepFacts DEF ReadConfig
  <2>2. profile' = profile /\ raced' = raced
    BY <1>10, ReadStepFacts DEF ReadConfig
  <2>3. /\ d.stamp = e.stamp /\ d.declares = e.declares /\ d.content[c] = OnDisk(c)
        /\ \A g \in Files \ {c} : d.content[g] = e.content[g]
    BY <1>1, <1>4, <2>1, EntryFacts
  <2>4. /\ Stale(e) \/ Same(e)
        /\ Loaded(e, "sidecar") /\ todo[t] \subseteq e.declares
        /\ \A g \in e.declares \ todo[t] :
              Excused(e, g) /\ IF owned[t] = {g} THEN Stamped(e, g) ELSE Loaded(e, g)
    BY <1>0, <1>1, <2>1 DEF ReadOf
  <2>5. owned[t] = {c}
    BY <1>0, <2>1 DEF ReadOf
  <2>6. Stale(d)' \/ Same(d)'
    BY <1>3, <1>4, <2>2, <2>3, <2>4 DEF Stale, Same
  <2>7. Loaded(d, "sidecar")'
    BY <1>3, <1>4, <2>3, <2>4 DEF Loaded, Missed
  <2>8. \A g \in d.declares \ todo'[t] : Excused(d, g)' /\ Loaded(d, g)'
    <3> SUFFICES ASSUME NEW g \in d.declares \ todo'[t] PROVE Excused(d, g)' /\ Loaded(d, g)'
      OBVIOUS
    <3>1. Excused(e, g) /\ g \in Files
      BY <1>4, <2>1, <2>3, <2>4
    <3>2. Excused(d, g)'
      BY <1>3, <1>4, <2>2, <2>3, <3>1 DEF Excused, Missed, Stale
    <3>3. CASE g = c
      <4>1. owned[t] = {g} /\ g \in e.declares \ todo[t]
        BY <2>1, <2>3, <2>5, <3>3
      <4>2. Stamped(e, g)
        BY <2>4, <4>1
      <4> QED
        BY <1>3, <2>3, <3>1, <3>2, <3>3, <4>2 DEF Stamped, Loaded, Missed
    <3>4. CASE g # c
      <4>1. owned[t] # {g} /\ g \in e.declares \ todo[t]
        BY <2>1, <2>3, <2>5, <3>4
      <4>2. Loaded(e, g)
        BY <2>4, <4>1
      <4> QED
        BY <1>3, <2>3, <3>1, <3>2, <3>4, <4>2 DEF Loaded, Missed
    <3> QED
      BY <3>2, <3>3, <3>4
  <2> QED
    BY <1>2, <2>1, <2>3, <2>4, <2>6, <2>7, <2>8 DEF ReadOf
<1> QED
  BY <1>6, <1>7, <1>8, <1>9, <1>10

\* Every step keeps what is known of each read and of the cache.
LEMMA ReadInvStep ==
    TypeOK /\ TypeOK' /\ DeclaredExist /\ WriterInv /\ ReadInv /\ DiskStep /\ [Next]_vars => ReadInv'
<1> SUFFICES ASSUME TypeOK, TypeOK', DeclaredExist, WriterInv, ReadInv, DiskStep, [Next]_vars
             PROVE  ReadInv'
    OBVIOUS
<1>1. ASSUME NEW t \in Threads, Only(t), cache' = cache, pc'[t] \notin Reads PROVE ReadInv'
  BY <1>1, ReadMoves DEF ReadOf, Reads
<1>2. ASSUME NEW t \in Threads, Only(t), cache' = cache, Answer(t) PROVE ReadInv'
  BY <1>1, <1>2 DEF Answer, Goto, TypeOK, Reads
<1>3. ASSUME NEW t \in Threads, Only(t), NEW label, NEW rest, Step(t, label, rest), cache' = cache,
             label \notin Reads
      PROVE  ReadInv'
  BY <1>1, <1>3 DEF Step, Goto, TypeOK
<1>4. ASSUME NEW t \in Threads, Only(t), NEW o \in {"get", "list", "save"}, Ask(t, o) PROVE ReadInv'
  BY <1>1, <1>4 DEF Ask, Goto, TypeOK, Reads
<1>5. ASSUME NEW t \in Threads, Only(t), BeginSave(t) \/ Parse(t) PROVE ReadInv'
  <2>1. PICK d \in SUBSET Configs : Compose(t, d)
    BY <1>5 DEF BeginSave, Parse
  <2> QED
    BY <1>1, <1>5, <2>1 DEF Compose, Goto, TypeOK, Reads
<1>6. ASSUME NEW t \in Threads, Only(t),
             RefuseSave(t) \/ ParseFails(t) \/ WriteFails(t) \/ Return(t) \/ ReadFails(t)
      PROVE  ReadInv'
  BY <1>2, <1>6 DEF RefuseSave, ParseFails, WriteFails, Return, ReadFails
<1>7. ASSUME NEW t \in Threads, Only(t), OpenBackup(t) \/ WriteBackup(t) \/ RetireSystem(t)
      PROVE  ReadInv'
  BY <1>3, <1>7 DEF OpenBackup, WriteBackup, RetireSystem, Reads
<1>8. ASSUME NEW t \in Threads, Only(t), ReadOwned(t) \/ WriteProfile(t) \/ ListOrphans(t) \/ WriteSidecar(t)
      PROVE  ReadInv'
  <2>1. ReadOwned(t) => ReadInv'
    BY <1>1, <1>8 DEF ReadOwned, Goto, TypeOK, Reads
  <2>2. WriteProfile(t) => ReadInv'
    BY <1>3, <1>8 DEF WriteProfile, Reads
  <2>3. ListOrphans(t) => ReadInv'
    <3> SUFFICES ASSUME ListOrphans(t) PROVE ReadInv'
      OBVIOUS
    <3>1. pc'[t] \in {"sidecar", "prune"} /\ cache' = cache
      BY DEF ListOrphans, Step, Goto, TypeOK
    <3> QED
      BY <1>1, <1>8, <3>1 DEF Reads
  <2>4. WriteSidecar(t) => ReadInv'
    BY <1>2, <1>3, <1>8 DEF WriteSidecar, Reads
  <2> QED
    BY <1>8, <2>1, <2>2, <2>3, <2>4
<1>9. ASSUME NEW t \in Threads, Only(t), NEW c \in Configs, WriteConfig(t, c) \/ Retire(t, c)
      PROVE  ReadInv'
  BY <1>3, <1>9 DEF WriteConfig, Retire, Reads
<1>10. ASSUME NEW t \in Threads, Only(t), cache' = cache, Afresh(t) PROVE ReadInv'
  <2>1. pc'[t] = "stat" /\ todo'[t] = {"profile", "sidecar"}
    BY <1>10, ReadStepFacts DEF Afresh
  <2>2. ReadOf(t)'
    BY <2>1 DEF ReadOf
  <2> QED
    BY <1>10, <2>2, ReadMoves
<1>11. ASSUME NEW t \in Threads, Only(t), Look(t) PROVE ReadInv'
  <2>1. CASE op[t] = "get" /\ cache # None
             /\ ReadStep(t, "check", {"profile", "sidecar"} \cup cache.declares, cache)
    <3>1. pc'[t] = "check" /\ read'[t] = cache /\ cache' = cache
      BY <1>11, <2>1, ReadStepFacts DEF Look
    <3>2. Complete(cache)'
      BY <2>1, EntryKept, <3>1 DEF ReadInv, TypeOK
    <3>3. ReadOf(t)'
      BY <3>1, <3>2 DEF ReadOf
    <3> QED
      BY <1>11, <3>1, <3>3, ReadMoves
  <2>2. cache' = cache
    BY <1>11 DEF Look
  <2> QED
    BY <1>2, <1>10, <1>11, <2>1, <2>2 DEF Look
<1>12. ASSUME NEW t \in Threads, Only(t), NEW f \in Files, Check(t, f) PROVE ReadInv'
  <2>1. CASE ReadStep(t, IF todo[t] = {f} THEN "return" ELSE "check", todo[t] \ {f}, read[t])
    <3>1. pc'[t] \in {"return", "check"} /\ read'[t] = read[t] /\ cache' = cache /\ pc[t] = "check"
      BY <1>12, <2>1, ReadStepFacts DEF Check
    <3>2. Complete(read[t])
      BY <3>1 DEF ReadInv, ReadOf
    <3>3. Complete(read[t])'
      BY <3>1, <3>2, EntryKept DEF TypeOK
    <3>4. ReadOf(t)'
      BY <3>1, <3>3 DEF ReadOf
    <3> QED
      BY <1>12, <3>1, <3>4, ReadMoves
  <2> QED
    BY <1>10, <1>12, <2>1 DEF Check
<1>13. ASSUME NEW t \in Threads, Only(t), NEW f \in Files, Stat(t, f) PROVE ReadInv'
  <2>1. cache' = cache
    BY <1>13 DEF Stat
  <2> QED
    BY <1>13, <2>1, ReadGoesOn, ReadMoves
<1>14. ASSUME NEW t \in Threads, Only(t), ReadProfile(t) \/ ReadSidecar(t) PROVE ReadInv'
  <2>1. cache' = cache
    BY <1>14 DEF ReadProfile, ReadSidecar
  <2> QED
    BY <1>14, <2>1, ReadGoesOn, ReadMoves
<1>15. ASSUME NEW t \in Threads, Only(t), NEW c \in Configs, StampConfig(t, c) \/ ReadConfig(t, c)
       PROVE  ReadInv'
  <2>1. cache' = cache
    BY <1>15 DEF StampConfig, ReadConfig
  <2> QED
    BY <1>15, <2>1, ReadGoesOn, ReadMoves
<1>16. ASSUME NEW t \in Threads, Only(t), StoreInCache(t) PROVE ReadInv'
  <2>1. /\ pc[t] = "configs of it" /\ todo[t] = {} /\ cache' = read[t]
        /\ pc'[t] = "return" /\ read'[t] = read[t]
    <3>1. ReadStep(t, "return", {}, read[t]) /\ pc[t] = "configs of it" /\ todo[t] = {} /\ cache' = read[t]
      BY <1>16 DEF StoreInCache
    <3>2. pc'[t] = "return" /\ read'[t] = read[t]
      BY <1>16, <3>1 DEF ReadStep, Goto, TypeOK
    <3> QED
      BY <3>1, <3>2
  <2>2. /\ Stale(read[t]) \/ Same(read[t])
        /\ Loaded(read[t], "sidecar")
        /\ \A c \in read[t].declares : Excused(read[t], c) /\ Loaded(read[t], c)
    BY <2>1 DEF ReadInv, ReadOf
  <2>3. Loaded(read[t], "profile") /\ Excused(read[t], "profile") /\ Excused(read[t], "sidecar")
    BY <2>2, FilesAssumption DEF Loaded, Stale, Same, Excused, Missed
  <2>4. Complete(read[t])
    BY <2>2, <2>3 DEF Complete, Consulted
  <2>5. Complete(read[t])'
    BY <2>1, <2>4, EntryKept DEF TypeOK
  <2>6. ReadOf(t)' /\ Complete(cache)'
    BY <2>1, <2>4, <2>5, EntryKept DEF ReadOf, TypeOK
  <2> QED
    BY <1>16, <2>6, ReadMoves
<1>17. CASE Crash
  BY <1>17 DEF Crash, ReadInv, ReadOf, Reads
<1>18. CASE UNCHANGED vars
  <2>1. UNCHANGED <<cache, pc, owned, todo, read>>
    BY <1>18 DEF vars, threads
  <2>2. \A t \in Threads : ReadOf(t)'
    BY <2>1, ReadKept DEF ReadInv
  <2>3. cache' # None => Complete(cache)'
    BY <2>1, EntryKept DEF ReadInv, TypeOK
  <2> QED
    BY <2>2, <2>3 DEF ReadInv
<1> QED
  BY <1>4, <1>5, <1>6, <1>7, <1>8, <1>9, <1>11, <1>12, <1>13, <1>14, <1>15, <1>16, <1>17, <1>18, Steps
     DEF Act, Migrate, WriteProject, ReadProject

\* A migration begins only while system.json is there, which never comes back.
LEMMA MigrateStep ==
    ASSUME TypeOK, PlaceInv, [Next]_vars
    PROVE  (system' => system) /\ \A t \in Threads : Migrates(t)' => Migrates(t) \/ system
<1> DEFINE Goal == (system' => system) /\ \A t \in Threads : Migrates(t)' => Migrates(t) \/ system
<1>1. ASSUME NEW t \in Threads, Only(t), system' => system, Migrates(t)' => Migrates(t) \/ system
      PROVE  Goal
  <2>1. \A u \in Threads \ {t} : Migrates(u)' => Migrates(u)
    BY <1>1 DEF Only, Migrates
  <2> QED
    BY <1>1, <2>1
<1>2. ASSUME NEW t \in Threads, Only(t), Answer(t), system' = system PROVE Goal
  <2>1. ~Migrates(t)'
    BY <1>2 DEF Answer, Goto, TypeOK, Migrates, Writing, Retiring
  <2> QED
    BY <1>1, <1>2, <2>1
<1>3. ASSUME NEW t \in Threads, Only(t), op' = op, pc[t] \in Writing \cup Retiring, system' => system
      PROVE  Goal
  <2>1. Migrates(t)' => Migrates(t)
    BY <1>3 DEF Migrates
  <2> QED
    BY <1>1, <1>3, <2>1
<1>4. ASSUME NEW t \in Threads, Only(t), NEW o \in {"get", "list", "save"}, Ask(t, o) PROVE Goal
  <2>1. system' = system
    BY <1>4 DEF Ask, disk
  <2>2. Migrates(t)' => system
    BY <1>4 DEF Ask, Goto, TypeOK, Migrates, Writing, Retiring
  <2> QED
    BY <1>1, <1>4, <2>1, <2>2
<1>5. ASSUME NEW t \in Threads, Only(t), BeginSave(t) \/ Parse(t) PROVE Goal
  <2>1. PICK d \in SUBSET Configs : Compose(t, d)
    BY <1>5 DEF BeginSave, Parse
  <2>2. system' = system /\ op' = op
    BY <2>1 DEF Compose, disk
  <2>3. Migrates(t)' => Migrates(t)
    BY <1>5, <2>2 DEF BeginSave, Parse, Migrates, PlaceInv
  <2> QED
    BY <1>1, <1>5, <2>2, <2>3
<1>6. ASSUME NEW t \in Threads, Only(t),
             RefuseSave(t) \/ ParseFails(t) \/ WriteFails(t) \/ Return(t) \/ ReadFails(t)
      PROVE  Goal
  BY <1>2, <1>6 DEF RefuseSave, ParseFails, WriteFails, Return, ReadFails, disk
<1>7. ASSUME NEW t \in Threads, Only(t), OpenBackup(t) \/ WriteBackup(t) \/ RetireSystem(t) PROVE Goal
  <2>1. pc[t] \in Retiring /\ op' = op
    BY <1>7 DEF OpenBackup, WriteBackup, RetireSystem, Step, Retiring
  <2>2. system' => system
    BY <1>7 DEF OpenBackup, WriteBackup, RetireSystem
  <2> QED
    BY <1>3, <1>7, <2>1, <2>2
<1>8. ASSUME NEW t \in Threads, Only(t), ReadOwned(t) \/ WriteProfile(t) \/ ListOrphans(t) PROVE Goal
  <2>1. pc[t] \in Writing /\ op' = op
    BY <1>8 DEF ReadOwned, WriteProfile, ListOrphans, Step, Writing
  <2>2. system' => system
    BY <1>8 DEF ReadOwned, WriteProfile, ListOrphans, disk
  <2> QED
    BY <1>3, <1>8, <2>1, <2>2
<1>9. ASSUME NEW t \in Threads, Only(t), NEW c \in Configs, WriteConfig(t, c) \/ Retire(t, c) PROVE Goal
  <2>1. pc[t] \in Writing /\ op' = op
    BY <1>9 DEF WriteConfig, Retire, Step, Writing
  <2>2. system' => system
    BY <1>9 DEF WriteConfig, Retire
  <2> QED
    BY <1>3, <1>9, <2>1, <2>2
<1>10. ASSUME NEW t \in Threads, Only(t), WriteSidecar(t) PROVE Goal
  <2>1. system' = system /\ pc[t] \in Writing
    BY <1>10 DEF WriteSidecar, Writing
  <2>2. Answer(t) \/ op' = op
    BY <1>10 DEF WriteSidecar, Step
  <2> QED
    BY <1>2, <1>3, <1>10, <2>1, <2>2
<1>11. ASSUME NEW t \in Threads, Only(t), NEW label \in Reading, NEW rest, NEW r, ReadStep(t, label, rest, r)
       PROVE  Goal
  <2>1. system' = system
    BY <1>11 DEF ReadStep, disk
  <2>2. ~Migrates(t)'
    BY <1>11, ReadStepFacts DEF Migrates, Writing, Retiring, Reading
  <2> QED
    BY <1>1, <1>11, <2>1, <2>2
<1>12. ASSUME NEW t \in Threads, Only(t), Look(t) PROVE Goal
  BY <1>2, <1>11, <1>12 DEF Look, Afresh, Reading, disk
<1>13. ASSUME NEW t \in Threads, Only(t), ReadProfile(t) \/ ReadSidecar(t) \/ StoreInCache(t) PROVE Goal
  <2>1. ReadProfile(t) => Goal
    BY <1>11, <1>13 DEF ReadProfile, Reading
  <2>2. ReadSidecar(t) \/ StoreInCache(t) => Goal
    BY <1>11, <1>13 DEF ReadSidecar, StoreInCache, Reading
  <2> QED
    BY <1>13, <2>1, <2>2
<1>14. ASSUME NEW t \in Threads, Only(t), NEW f, Check(t, f) \/ Stat(t, f) \/ StampConfig(t, f) \/ ReadConfig(t, f)
       PROVE  Goal
  BY <1>11, <1>14 DEF Check, Stat, Afresh, StampConfig, ReadConfig, Reading
<1>15. ASSUME Crash PROVE Goal
  BY <1>15 DEF Crash, disk, Migrates, Writing, Retiring
<1>16. ASSUME UNCHANGED vars PROVE Goal
  BY <1>16 DEF vars, disk, threads, Migrates
<1> HIDE DEF Goal
<1>17. Goal
  BY <1>4, <1>5, <1>6, <1>7, <1>8, <1>9, <1>10, <1>12, <1>13, <1>14, <1>15, <1>16, Steps
     DEF Act, Migrate, WriteProject, ReadProject
<1> QED
  BY <1>17 DEF Goal

\* What is read has its types.
LEMMA NumberTypes ==
    ASSUME TypeOK
    PROVE  /\ writers \in Nat /\ saved \in Nat /\ sidecar \in Nat /\ profile.writer \in Nat
           /\ profile.declares \in SUBSET Configs
           /\ \A c \in Configs : config[c] \in Nat
           /\ \A t \in Threads : /\ floor[t] \in Nat /\ new[t].writer \in Nat
                                 /\ new[t].declares \in SUBSET Configs
                                 /\ read[t].declares \in SUBSET Configs
                                 /\ \A f \in Files : read[t].stamp[f] \in Nat /\ read[t].content[f] \in Nat
BY DEF TypeOK, Documents, Writers, Entries

\* A file's content is what its variable says.
LEMMA OnDiskFacts ==
    /\ OnDisk("profile") = profile.writer /\ OnDisk("sidecar") = sidecar
    /\ \A c \in Configs : OnDisk(c) = config[c]
    /\ Configs \subseteq Files /\ "profile" \in Files /\ "sidecar" \in Files
    /\ "profile" \notin Configs /\ "sidecar" \notin Configs
BY FilesAssumption DEF OnDisk, Files

\* The same, one state later.
LEMMA OnDiskNext ==
    /\ OnDisk("profile")' = profile'.writer /\ OnDisk("sidecar")' = sidecar'
    /\ \A c \in Configs : OnDisk(c)' = config'[c]
BY FilesAssumption DEF OnDisk

\* A step that neither replaces the profile nor answers a save.
LEMMA SavedMove ==
    ASSUME IInv, IInv', WriterInv, SavedInv, DiskStep, [Next]_vars, profile' = profile, saved' = saved
    PROVE  SavedInv'
<1> SUFFICES ASSUME ~raced', saved # 0
             PROVE  /\ ~system' /\ \A t \in Threads : ~Migrates(t)'
                    /\ profile.writer >= saved /\ sidecar' >= saved
                    /\ \A c \in profile.declares : config'[c] >= saved
                    /\ \A t \in Threads : pc'[t] \in Writing => new'[t].writer > saved
    BY DEF SavedInv
<1>1. /\ ~raced /\ ~system /\ \A t \in Threads : ~Migrates(t)
      /\ profile.writer >= saved /\ sidecar >= saved
      /\ \A c \in profile.declares : config[c] >= saved
      /\ \A t \in Threads : pc[t] \in Writing => new[t].writer > saved
  BY DEF SavedInv, DiskStep
<1>2. ~system' /\ \A t \in Threads : ~Migrates(t)'
  BY <1>1, MigrateStep DEF IInv
<1>3. /\ writers \in Nat /\ saved \in Nat /\ saved <= writers /\ profile.declares \in SUBSET Configs
      /\ \A t \in Threads : new[t].writer \in Nat
  BY NumberTypes DEF IInv, WriterInv
<1>4. \A t \in Threads, f \in Files : Pending(t, f) => new[t].writer > saved
  BY <1>1 DEF Pending
<1>5. sidecar' >= saved
  BY <1>1, <1>3, <1>4, OnDiskFacts, OnDiskNext DEF DiskStep
<1>6. ASSUME NEW c \in profile.declares PROVE config'[c] >= saved
  <2>1. config'[c] # Absent
    BY <1>6 DEF IInv, DeclaredExist
  <2>2. \/ config'[c] = config[c]
        \/ \E t \in Threads : Pending(t, c) /\ config'[c] = new[t].writer
    BY <1>3, <1>6, <2>1, OnDiskFacts, OnDiskNext DEF DiskStep
  <2> QED
    BY <1>1, <1>3, <1>4, <1>6, <2>2, OnDiskFacts
<1>7. ASSUME NEW t \in Threads, pc'[t] \in Writing PROVE new'[t].writer > saved
  BY <1>1, <1>3, <1>7 DEF DiskStep
<1> QED
  BY <1>1, <1>2, <1>5, <1>6, <1>7

\* A save that is answered has just written all that its profile declares.
LEMMA SavedStep ==
    ASSUME IInv, IInv', WriterInv, SavedInv, DiskStep, [Next]_vars
    PROVE  SavedInv'
<1>1. CASE profile' = profile /\ saved' = saved
  BY <1>1, SavedMove
<1>2. ASSUME NEW t \in Threads, Only(t), WriteProfile(t) PROVE SavedInv'
  <2>1. /\ pc[t] = "configs" /\ pc'[t] = "list" /\ todo[t] = {} /\ profile' = new[t]
        /\ UNCHANGED <<config, sidecar, saved, new, raced>>
    BY <1>2 DEF WriteProfile, Step, Goto, IInv, TypeOK
  <2> SUFFICES ASSUME ~raced, saved # 0
               PROVE  /\ ~system' /\ \A u \in Threads : ~Migrates(u)'
                      /\ new[t].writer >= saved /\ sidecar >= saved
                      /\ \A c \in new[t].declares : config[c] >= saved
                      /\ \A u \in Threads : pc'[u] \in Writing => new[u].writer > saved
    BY <2>1 DEF SavedInv
  <2>2. /\ ~system /\ \A u \in Threads : ~Migrates(u)
        /\ sidecar >= saved
        /\ \A u \in Threads : pc[u] \in Writing => new[u].writer > saved
    BY DEF SavedInv
  <2>3. ~system' /\ \A u \in Threads : ~Migrates(u)'
    BY <2>2, MigrateStep DEF IInv
  <2>4. Saves(t) /\ pc[t] \in Writing
    BY <2>1, <2>2 DEF Saves, Migrates, Writing
  <2>5. new[t].writer \in Nat /\ saved \in Nat /\ new[t].writer > saved
    BY <2>2, <2>4, NumberTypes DEF IInv
  <2>6. \A c \in new[t].declares : config[c] = new[t].writer
    BY <2>1, <2>4 DEF IInv, FilesInv, FilesOf
  <2>7. \A u \in Threads : pc'[u] \in Writing => pc[u] \in Writing
    BY <1>2, <2>4 DEF Only
  <2> QED
    BY <2>2, <2>3, <2>5, <2>6, <2>7
<1>3. ASSUME NEW t \in Threads, Only(t), WriteSidecar(t) PROVE SavedInv'
  <2>1. pc[t] = "sidecar" /\ sidecar' = new[t].writer /\ UNCHANGED <<profile, config, raced>>
    BY <1>3 DEF WriteSidecar, Step
  <2>2. CASE op[t] = "save"
    <3>1. pc'[t] = "idle" /\ saved' = new[t].writer
      BY <1>3, <2>2 DEF WriteSidecar, Answer, Goto, IInv, TypeOK
    <3> SUFFICES ASSUME ~raced
                 PROVE  /\ ~system' /\ \A u \in Threads : ~Migrates(u)'
                        /\ profile.writer >= new[t].writer
                        /\ \A c \in profile.declares : config[c] >= new[t].writer
                        /\ new[t].writer >= new[t].writer
                        /\ \A u \in Threads : pc'[u] \notin Writing
      BY <2>1, <3>1 DEF SavedInv
    <3>2. Saves(t) /\ pc[t] \in Writing
      BY <2>1, <2>2 DEF Saves, Writing
    <3>3. ~system' /\ \A u \in Threads : ~Migrates(u)'
      BY <3>2, MigrateStep DEF IInv, SoloInv
    <3>4. profile = new[t] /\ \A c \in new[t].declares : config[c] = new[t].writer
      BY <2>1, <3>2 DEF IInv, FilesInv, FilesOf
    <3>5. \A u \in Threads \ {t} : pc[u] \notin Writing
      BY <3>2, Alone DEF IInv
    <3>6. \A u \in Threads : pc'[u] \notin Writing
      BY <1>3, <3>1, <3>5 DEF Only, Writing
    <3>7. new[t].writer \in Nat
      BY NumberTypes DEF IInv
    <3> QED
      BY <3>3, <3>4, <3>6, <3>7
  <2>3. CASE op[t] # "save"
    <3>1. saved' = saved
      BY <1>3, <2>3 DEF WriteSidecar, Step
    <3> QED
      BY <2>1, <3>1, <1>1
  <2> QED
    BY <2>2, <2>3
<1>4. ASSUME NEW t \in Threads, Act(t), ~WriteProfile(t), ~WriteSidecar(t)
      PROVE  profile' = profile /\ saved' = saved
  <2>1. ASSUME NEW label, NEW rest, NEW r, ReadStep(t, label, rest, r)
        PROVE  profile' = profile /\ saved' = saved
    BY <2>1 DEF ReadStep, disk
  <2>2. ReadProject(t) => profile' = profile /\ saved' = saved
    <3>1. Look(t) \/ ReadSidecar(t) \/ StoreInCache(t) => profile' = profile /\ saved' = saved
      BY <2>1 DEF Look, Afresh, ReadSidecar, StoreInCache, disk
    <3>2. ReadProfile(t) => profile' = profile /\ saved' = saved
      BY ProfileFacts DEF IInv
    <3>3. Return(t) \/ ReadFails(t) => profile' = profile /\ saved' = saved
      BY DEF Return, ReadFails, disk
    <3>4. ASSUME NEW f, Check(t, f) \/ Stat(t, f) \/ StampConfig(t, f) \/ ReadConfig(t, f)
          PROVE  profile' = profile /\ saved' = saved
      BY <2>1, <3>4 DEF Check, Stat, Afresh, StampConfig, ReadConfig
    <3> QED
      BY <3>1, <3>2, <3>3, <3>4 DEF ReadProject
  <2>3. Migrate(t) => profile' = profile /\ saved' = saved
    BY DEF Migrate, Parse, ParseFails, OpenBackup, WriteBackup, RetireSystem, Compose, Step, disk
  <2>4. WriteProject(t) => profile' = profile /\ saved' = saved
    BY <1>4 DEF WriteProject, ReadOwned, ListOrphans, WriteConfig, Retire, WriteFails, Step, disk
  <2>5. BeginSave(t) \/ RefuseSave(t) => profile' = profile /\ saved' = saved
    BY DEF BeginSave, RefuseSave, Compose, disk
  <2>6. ASSUME NEW o, Ask(t, o) PROVE profile' = profile /\ saved' = saved
    BY <2>6 DEF Ask, disk
  <2> QED
    BY <1>4, <2>2, <2>3, <2>4, <2>5, <2>6 DEF Act
<1>5. CASE Crash
  BY <1>1, <1>5 DEF Crash, disk
<1>6. CASE UNCHANGED vars
  BY <1>1, <1>6 DEF vars, disk
<1> QED
  BY <1>1, <1>2, <1>3, <1>4, <1>5, <1>6, Steps DEF IInv

\* No save is answered before an earlier one.
LEMMA SavedGrows ==
    ASSUME TypeOK, SavedInv, DiskStep, ~raced'
    PROVE  ~raced /\ saved <= saved'
<1>1. ~raced
  BY DEF DiskStep
<1>2. saved \in Nat /\ \A t \in Threads : new[t].writer \in Nat
  BY NumberTypes
<1>3. CASE saved' = saved
  BY <1>1, <1>2, <1>3
<1>4. ASSUME NEW t \in Threads, pc[t] \in Writing, saved' = new[t].writer PROVE saved <= saved'
  <2>1. saved # 0 => new[t].writer > saved
    BY <1>1, <1>4 DEF SavedInv
  <2> QED
    BY <1>2, <1>4, <2>1
<1> QED
  BY <1>1, <1>3, <1>4 DEF DiskStep

\* What is on disk is not older than what was saved.
LEMMA SavedFloor ==
    ASSUME TypeOK, SavedInv, ~raced, NEW t \in Threads, floor[t] <= saved
    PROVE  /\ profile.writer >= floor[t] /\ sidecar >= floor[t]
           /\ \A c \in profile.declares : Newer(t, c, config[c])
<1>1. /\ floor[t] \in Nat /\ saved \in Nat /\ sidecar \in Nat /\ profile.writer \in Nat
      /\ profile.declares \subseteq Configs /\ \A c \in Configs : config[c] \in Nat
  BY NumberTypes
<1>2. CASE saved = 0
  BY <1>1, <1>2 DEF Newer
<1>3. CASE saved # 0
  <2>1. /\ profile.writer >= saved /\ sidecar >= saved
        /\ \A c \in profile.declares : config[c] >= saved
    BY <1>3 DEF SavedInv
  <2> QED
    BY <1>1, <2>1 DEF Newer
<1> QED
  BY <1>2, <1>3

\* A config that is new enough stays so, until it goes away.
LEMMA NewerKept ==
    ASSUME TypeOK, SavedInv, DiskStep, ~raced, NEW t \in Threads, floor[t] <= saved, floor'[t] = floor[t],
           NEW c \in Configs, Newer(t, c, config[c])
    PROVE  Newer(t, c, config[c])'
<1>1. floor[t] \in Nat /\ saved \in Nat /\ \A u \in Threads : new[u].writer \in Nat
  BY NumberTypes
<1>2. CASE config'[c] = config[c]
  BY <1>2 DEF Newer
<1>3. CASE config'[c] = Absent
  BY <1>3 DEF Newer
<1>4. ASSUME NEW u \in Threads, Pending(u, c), config'[c] = new[u].writer PROVE Newer(t, c, config[c])'
  <2>1. saved # 0 => new[u].writer > saved
    BY <1>4 DEF SavedInv, Pending
  <2> QED
    BY <1>1, <1>4, <2>1 DEF Newer
<1> QED
  BY <1>2, <1>3, <1>4, OnDiskFacts, OnDiskNext DEF DiskStep

\* A step of another keeps what is known of t's get.
LEMMA FreshKept ==
    ASSUME TypeOK, TypeOK', SavedInv, DiskStep, ~raced', NEW t \in Threads, FreshOf(t),
           UNCHANGED <<pc[t], owned[t], todo[t], read[t], floor[t]>>
    PROVE  FreshOf(t)'
<1>1. ~raced /\ saved <= saved'
  BY SavedGrows
<1>2. floor'[t] <= saved'
  <2>1. floor[t] <= saved
    BY DEF FreshOf
  <2>2. saved' \in Nat /\ saved \in Nat /\ floor[t] \in Nat
    BY NumberTypes DEF TypeOK, Writers
  <2> QED
    BY <1>1, <2>1, <2>2
<1>3. \A c \in read[t].declares : c \in Configs
  BY NumberTypes
<1>4. \A c \in read[t].declares : Newer(t, c, config[c]) => Newer(t, c, config[c])'
  BY <1>1, <1>3, NewerKept DEF FreshOf
<1>5. \A f \in Files, v \in Nat : Newer(t, f, v) => Newer(t, f, v)'
  BY DEF Newer
<1>6. Consulted(read[t]) \subseteq Files /\ \A f \in Files : read[t].content[f] \in Nat
  BY <1>3, NumberTypes, OnDiskFacts DEF Consulted
<1>7. \A f \in Consulted(read[t]) : Newer(t, f, read[t].content[f]) => Newer(t, f, read[t].content[f])'
  BY <1>5, <1>6 DEF Newer
<1>8. \A c \in read[t].declares : Newer(t, c, read[t].content[c]) => Newer(t, c, read[t].content[c])'
  BY <1>7 DEF Consulted
<1>9. Consulted(read[t])' = Consulted(read[t])
  BY DEF Consulted
<1> QED
  BY <1>2, <1>4, <1>7, <1>8, <1>9 DEF FreshOf

\* A step of t keeps what is known of the other gets.
LEMMA FreshMoves ==
    ASSUME TypeOK, TypeOK', SavedInv, DiskStep, FreshInv, NEW t \in Threads, Only(t),
           ~raced' => FreshOf(t)'
    PROVE  FreshInv'
<1> SUFFICES ASSUME ~raced', NEW u \in Threads PROVE FreshOf(u)'
  BY DEF FreshInv
<1>1. CASE u = t
  BY <1>1
<1>2. CASE u # t
  <2>1. FreshOf(u)
    BY DEF FreshInv, DiskStep
  <2>2. UNCHANGED <<pc[u], owned[u], todo[u], read[u], floor[u]>>
    BY <1>2 DEF Only
  <2> QED
    BY <2>1, <2>2, FreshKept
<1> QED
  BY <1>1, <1>2

Shown == {"sidecar of it", "configs of it", "config", "check", "return"}

\* A cached document whose profile is still the one on disk has all it declares.
LEMMA CheckedProfile ==
    ASSUME TypeOK, ~raced, NEW e \in Entries, Complete(e), e.stamp["profile"] = OnDisk("profile")
    PROVE  Same(e) /\ \A c \in e.declares : e.stamp[c] # Absent
<1>1. ~Stale(e)
  BY DEF Stale, Over
<1>2. e.declares \subseteq Configs
  BY DEF Entries
<1> QED
  BY <1>1, <1>2 DEF Complete, Consulted, Excused, Missed

\* A file whose stamp is still right was read as it is.
LEMMA CheckedFile ==
    ASSUME NEW e, NEW f, Complete(e), f \in Consulted(e), e.stamp[f] = OnDisk(f), ~Missed(e, f)
    PROVE  e.content[f] = OnDisk(f)
BY DEF Complete, Loaded, Over

\* Every step keeps what a get has read, and what it will read, new enough.
LEMMA FreshStep ==
    ASSUME TypeOK, TypeOK', ReadInv, SavedInv, FreshInv, DiskStep, [Next]_vars
    PROVE  FreshInv'
<1>1. ASSUME NEW t \in Threads, Only(t), pc'[t] \notin Shown, floor'[t] \in {floor[t], 0, saved}
      PROVE  FreshInv'
  <2>1. ASSUME ~raced' PROVE FreshOf(t)'
    <3>1. ~raced /\ saved <= saved'
      BY <2>1, SavedGrows
    <3>2. floor[t] <= saved
      BY <1>1, <3>1 DEF FreshInv, FreshOf
    <3>3. floor[t] \in Nat /\ saved \in Nat /\ saved' \in Nat
      BY <1>1, NumberTypes DEF TypeOK, Writers
    <3>4. floor'[t] <= saved'
      BY <1>1, <3>1, <3>2, <3>3
    <3> QED
      BY <1>1, <3>4 DEF FreshOf, Shown
  <2> QED
    BY <1>1, <2>1, FreshMoves
<1>2. ASSUME NEW t \in Threads, Only(t), Answer(t) PROVE FreshInv'
  <2>1. pc'[t] = "idle" /\ floor'[t] = 0
    BY <1>2 DEF Answer, Goto, TypeOK
  <2> QED
    BY <1>1, <1>2, <2>1 DEF Shown
<1>3. ASSUME NEW t \in Threads, Only(t), NEW label, NEW rest, Step(t, label, rest), label \notin Shown
      PROVE  FreshInv'
  BY <1>1, <1>3 DEF Step, Goto, TypeOK
<1>4. ASSUME NEW t \in Threads, Only(t), NEW o \in {"get", "list", "save"}, Ask(t, o) PROVE FreshInv'
  BY <1>1, <1>4 DEF Ask, Goto, TypeOK, Shown
<1>5. ASSUME NEW t \in Threads, Only(t), BeginSave(t) \/ Parse(t) PROVE FreshInv'
  <2>1. PICK d \in SUBSET Configs : Compose(t, d)
    BY <1>5 DEF BeginSave, Parse
  <2> QED
    BY <1>1, <1>5, <2>1 DEF Compose, Goto, TypeOK, Shown
<1>6. ASSUME NEW t \in Threads, Only(t),
             RefuseSave(t) \/ ParseFails(t) \/ WriteFails(t) \/ Return(t) \/ ReadFails(t)
      PROVE  FreshInv'
  BY <1>2, <1>6 DEF RefuseSave, ParseFails, WriteFails, Return, ReadFails
<1>7. ASSUME NEW t \in Threads, Only(t), OpenBackup(t) \/ WriteBackup(t) \/ RetireSystem(t)
      PROVE  FreshInv'
  BY <1>3, <1>7 DEF OpenBackup, WriteBackup, RetireSystem, Shown
<1>8. ASSUME NEW t \in Threads, Only(t), ReadOwned(t) \/ WriteProfile(t) \/ ListOrphans(t) \/ WriteSidecar(t)
      PROVE  FreshInv'
  <2>1. ReadOwned(t) => FreshInv'
    BY <1>1, <1>8 DEF ReadOwned, Goto, TypeOK, Shown
  <2>2. WriteProfile(t) => FreshInv'
    BY <1>3, <1>8 DEF WriteProfile, Shown
  <2>3. ListOrphans(t) => FreshInv'
    <3> SUFFICES ASSUME ListOrphans(t) PROVE FreshInv'
      OBVIOUS
    <3>1. pc'[t] \in {"sidecar", "prune"} /\ floor' = floor
      BY DEF ListOrphans, Step, Goto, TypeOK
    <3> QED
      BY <1>1, <1>8, <3>1 DEF Shown
  <2>4. WriteSidecar(t) => FreshInv'
    BY <1>2, <1>3, <1>8 DEF WriteSidecar, Shown
  <2> QED
    BY <1>8, <2>1, <2>2, <2>3, <2>4
<1>9. ASSUME NEW t \in Threads, Only(t), NEW c \in Configs, WriteConfig(t, c) \/ Retire(t, c)
      PROVE  FreshInv'
  <2>1. WriteConfig(t, c) => FreshInv'
    BY <1>3, <1>9 DEF WriteConfig, Shown
  <2>2. Retire(t, c) => FreshInv'
    BY <1>3, <1>9 DEF Retire, Shown
  <2> QED
    BY <1>9, <2>1, <2>2
<1>10. ASSUME NEW t \in Threads, Only(t), NEW label, NEW rest, NEW r, ReadStep(t, label, rest, r), label \notin Shown
       PROVE  FreshInv'
  BY <1>1, <1>10, ReadStepFacts
<1>11. ASSUME NEW t \in Threads, Only(t), Look(t) PROVE FreshInv'
  <2>1. CASE op[t] = "get" /\ cache # None
             /\ ReadStep(t, "check", {"profile", "sidecar"} \cup cache.declares, cache)
    <3>1. /\ pc'[t] = "check" /\ read'[t] = cache /\ todo'[t] = Consulted(cache)
          /\ floor' = floor /\ saved' = saved
      BY <2>1, ReadStepFacts DEF Consulted
    <3>2. Consulted(read[t])' = Consulted(cache) /\ "profile" \in Consulted(cache)
      BY <3>1 DEF Consulted
    <3>3. ASSUME ~raced' PROVE FreshOf(t)'
      <4>1. floor[t] <= saved
        BY <3>3, SavedGrows DEF FreshInv, FreshOf
      <4> QED
        BY <3>1, <3>2, <4>1 DEF FreshOf
    <3> QED
      BY <1>11, <3>3, FreshMoves
  <2> QED
    BY <1>2, <1>10, <1>11, <2>1 DEF Look, Afresh, Shown
<1>12. ASSUME NEW t \in Threads, Only(t), NEW f \in Files, Check(t, f) PROVE FreshInv'
  <2>1. CASE OnDisk(f) = read[t].stamp[f]
    <3>1. /\ pc[t] = "check" /\ First(t, f)
          /\ ReadStep(t, IF todo[t] = {f} THEN "return" ELSE "check", todo[t] \ {f}, read[t])
      BY <1>12, <2>1 DEF Check
    <3>2. /\ pc'[t] = IF todo[t] = {f} THEN "return" ELSE "check"
          /\ todo'[t] = todo[t] \ {f} /\ read'[t] = read[t]
          /\ UNCHANGED <<floor, saved, config, raced>>
      BY <3>1, ReadStepFacts
    <3>3. PICK e \in Entries : e = read[t]
      BY DEF TypeOK
    <3>4. Complete(e)
      BY <3>1, <3>3 DEF ReadInv, ReadOf
    <3>5. ASSUME ~raced' PROVE FreshOf(t)'
      <4>1. ~raced /\ FreshOf(t) /\ floor[t] <= saved
        BY <3>5, SavedGrows DEF FreshInv, FreshOf
      <4>2. /\ profile.writer >= floor[t] /\ sidecar >= floor[t]
            /\ \A c \in profile.declares : Newer(t, c, config[c])
        BY <4>1, SavedFloor
      <4>3. "profile" \notin todo[t] \ {f}
        BY <3>1 DEF First
      <4>4. \A c \in e.declares : Newer(t, c, config[c]) /\ e.stamp[c] # Absent
        <5>1. CASE f = "profile"
          BY <2>1, <3>3, <3>4, <4>1, <4>2, <5>1, CheckedProfile DEF Same
        <5>2. CASE f # "profile"
          BY <3>1, <3>3, <4>1, <4>3, <5>2 DEF FreshOf
        <5> QED
          BY <5>1, <5>2
      <4>5. f \in Consulted(e) => Newer(t, f, e.content[f])
        <5> SUFFICES ASSUME f \in Consulted(e) PROVE Newer(t, f, e.content[f])
          OBVIOUS
        <5>1. ~Missed(e, f)
          BY <4>4, OnDiskFacts DEF Missed, Consulted
        <5>2. e.content[f] = OnDisk(f)
          BY <2>1, <3>3, <3>4, <5>1, CheckedFile
        <5>3. CASE f \in e.declares
          BY <3>3, <4>4, <5>2, <5>3, NumberTypes, OnDiskFacts
        <5>4. CASE f \in {"profile", "sidecar"}
          BY <4>2, <5>2, <5>4, OnDiskFacts DEF Newer
        <5> QED
          BY <5>3, <5>4 DEF Consulted
      <4>6. \A g \in Consulted(e) \ (todo[t] \ {f}) : Newer(t, g, e.content[g])
        <5>1. \A g \in Consulted(e) \ todo[t] : Newer(t, g, e.content[g])
          BY <3>1, <3>3, <4>1 DEF FreshOf
        <5> QED
          BY <4>5, <5>1
      <4>7. pc'[t] = "return" => todo[t] \ {f} = {}
        BY <3>2
      <4> QED
        BY <3>2, <3>3, <4>1, <4>3, <4>4, <4>6, <4>7 DEF FreshOf, Newer, Consulted
    <3> QED
      BY <1>12, <3>5, FreshMoves
  <2>2. CASE OnDisk(f) # read[t].stamp[f]
    BY <1>10, <1>12, <2>2 DEF Check, Afresh, Shown
  <2> QED
    BY <2>1, <2>2
<1>13. ASSUME NEW t \in Threads, Only(t), NEW f \in Files, Stat(t, f) PROVE FreshInv'
  BY <1>10, <1>13 DEF Stat, Shown
<1>14. ASSUME NEW t \in Threads, Only(t), ReadProfile(t) PROVE FreshInv'
  <2>1. /\ pc'[t] = "sidecar of it" /\ read'[t].declares = profile.declares
        /\ read'[t].content["profile"] = profile.writer
        /\ UNCHANGED <<config, floor, saved, raced>>
    BY <1>14, ProfileFacts
  <2>2. ASSUME ~raced' PROVE FreshOf(t)'
    <3>1. ~raced /\ floor[t] <= saved
      BY <2>2, SavedGrows DEF FreshInv, FreshOf
    <3>2. profile.writer >= floor[t] /\ \A c \in profile.declares : Newer(t, c, config[c])
      BY <3>1, SavedFloor
    <3> QED
      BY <2>1, <3>1, <3>2 DEF FreshOf, Newer
  <2> QED
    BY <1>14, <2>2, FreshMoves
<1>15. ASSUME NEW t \in Threads, Only(t), ReadSidecar(t) PROVE FreshInv'
  <2>1. /\ pc[t] = "sidecar of it" /\ pc'[t] = "configs of it" /\ todo'[t] = todo[t]
        /\ read'[t] = Load(t, "sidecar") /\ UNCHANGED <<config, floor, saved, raced>>
    BY <1>15, ReadStepFacts DEF ReadSidecar
  <2>2. /\ read'[t].declares = read[t].declares /\ read'[t].content["sidecar"] = sidecar
        /\ read'[t].content["profile"] = read[t].content["profile"]
    <3>1. read'[t].content["profile"] = read[t].content["profile"]
      <4>1. PICK l : l = Load(t, "sidecar")
        OBVIOUS
      <4>2. l.content["profile"] = read[t].content["profile"]
        BY <1>15, <4>1, EntryFacts, OnDiskFacts
      <4> QED
        BY <2>1, <4>1, <4>2
    <3>2. read'[t].declares = read[t].declares /\ read'[t].content["sidecar"] = sidecar
      BY <1>15, <2>1, EntryFacts, OnDiskFacts
    <3> QED
      BY <3>1, <3>2
  <2>3. todo[t] = read[t].declares
    BY <2>1 DEF ReadInv, ReadOf
  <2>4. ASSUME ~raced' PROVE FreshOf(t)'
    <3>1. ~raced /\ FreshOf(t) /\ floor[t] <= saved
      BY <2>4, SavedGrows DEF FreshInv, FreshOf
    <3>2. sidecar >= floor[t]
      BY <3>1, SavedFloor
    <3>3. /\ read[t].content["profile"] >= floor[t]
          /\ \A c \in read[t].declares : Newer(t, c, config[c])
      BY <2>1, <3>1 DEF FreshOf
    <3> QED
      BY <2>1, <2>2, <2>3, <3>1, <3>2, <3>3 DEF FreshOf, Newer
  <2> QED
    BY <1>15, <2>4, FreshMoves
<1>16. ASSUME NEW t \in Threads, Only(t), NEW c \in Configs, StampConfig(t, c) PROVE FreshInv'
  <2>1. /\ pc[t] = "configs of it" /\ pc'[t] = "config" /\ todo'[t] = todo[t] \ {c}
        /\ read'[t] = Stamp(t, c) /\ UNCHANGED <<config, floor, saved, raced>>
    BY <1>16, ReadStepFacts DEF StampConfig
  <2>2. read'[t].declares = read[t].declares /\ read'[t].content = read[t].content /\ owned'[t] = {c}
    <3>1. c \in Files
      BY <1>16, OnDiskFacts
    <3>2. read'[t].declares = read[t].declares /\ read'[t].content = read[t].content
      BY <1>16, <2>1, <3>1, EntryFacts
    <3> QED
      BY <1>16, <3>2 DEF StampConfig, TypeOK
  <2>3. ASSUME ~raced' PROVE FreshOf(t)'
    <3>1. ~raced /\ FreshOf(t) /\ floor[t] <= saved
      BY <2>3, SavedGrows DEF FreshInv, FreshOf
    <3>2. /\ read[t].content["profile"] >= floor[t] /\ read[t].content["sidecar"] >= floor[t]
          /\ \A g \in read[t].declares : Newer(t, g, config[g])
          /\ \A g \in read[t].declares \ todo[t] : Newer(t, g, read[t].content[g])
      BY <2>1, <3>1 DEF FreshOf
    <3> QED
      BY <2>1, <2>2, <3>1, <3>2 DEF FreshOf, Newer
  <2> QED
    BY <1>16, <2>3, FreshMoves
<1>17. ASSUME NEW t \in Threads, Only(t), NEW c \in Configs, ReadConfig(t, c) PROVE FreshInv'
  <2>1. /\ pc[t] = "config" /\ pc'[t] = "configs of it" /\ todo'[t] = todo[t] /\ c \in owned[t]
        /\ read'[t] = Load(t, c) /\ UNCHANGED <<config, floor, saved, raced>>
    BY <1>17, ReadStepFacts DEF ReadConfig
  <2>2. c \in Files /\ OnDisk(c) = config[c]
    BY <1>17, OnDiskFacts
  <2>3. read'[t].declares = read[t].declares /\ read'[t].content[c] = config[c]
    BY <1>17, <2>1, <2>2, EntryFacts
  <2>4. \A g \in Files \ {c} : read'[t].content[g] = read[t].content[g]
    <3>1. PICK l : l = Load(t, c)
      OBVIOUS
    <3>2. \A g \in Files \ {c} : l.content[g] = read[t].content[g]
      BY <1>17, <2>2, <3>1, EntryFacts
    <3> QED
      BY <2>1, <3>1, <3>2
  <2>5. owned[t] = {c} /\ read[t].declares \subseteq Configs
    BY <2>1, NumberTypes DEF ReadInv, ReadOf
  <2>6. ASSUME ~raced' PROVE FreshOf(t)'
    <3>1. ~raced /\ FreshOf(t) /\ floor[t] <= saved
      BY <2>6, SavedGrows DEF FreshInv, FreshOf
    <3>2. /\ read[t].content["profile"] >= floor[t] /\ read[t].content["sidecar"] >= floor[t]
          /\ \A g \in read[t].declares : Newer(t, g, config[g])
          /\ \A g \in read[t].declares \ todo[t] : g # c => Newer(t, g, read[t].content[g])
      BY <2>1, <2>5, <3>1 DEF FreshOf
    <3>3. \A g \in read[t].declares \ todo[t] : Newer(t, g, read'[t].content[g])
      BY <1>17, <2>3, <2>4, <2>5, <3>2, OnDiskFacts
    <3>4. read'[t].content["profile"] >= floor[t] /\ read'[t].content["sidecar"] >= floor[t]
      BY <1>17, <2>4, <3>2, OnDiskFacts
    <3> QED
      BY <2>1, <2>3, <3>1, <3>2, <3>3, <3>4 DEF FreshOf, Newer
  <2> QED
    BY <1>17, <2>6, FreshMoves
<1>18. ASSUME NEW t \in Threads, Only(t), StoreInCache(t) PROVE FreshInv'
  <2>1. /\ pc[t] = "configs of it" /\ pc'[t] = "return" /\ todo[t] = {}
        /\ read'[t] = read[t] /\ UNCHANGED <<floor, saved, raced>>
    <3>1. ReadStep(t, "return", {}, read[t]) /\ pc[t] = "configs of it" /\ todo[t] = {}
      BY <1>18 DEF StoreInCache
    <3> QED
      BY <1>18, <3>1 DEF ReadStep, Goto, TypeOK
  <2>2. ASSUME ~raced' PROVE FreshOf(t)'
    <3>1. ~raced /\ FreshOf(t) /\ floor[t] <= saved
      BY <2>2, SavedGrows DEF FreshInv, FreshOf
    <3>2. /\ read[t].content["profile"] >= floor[t] /\ read[t].content["sidecar"] >= floor[t]
          /\ \A g \in read[t].declares : Newer(t, g, read[t].content[g])
      BY <2>1, <3>1 DEF FreshOf
    <3>3. \A g \in Consulted(read[t]) : Newer(t, g, read[t].content[g])
      BY <3>2 DEF Consulted, Newer
    <3> QED
      BY <2>1, <3>1, <3>3 DEF FreshOf, Newer, Consulted
  <2> QED
    BY <1>18, <2>2, FreshMoves
<1>19. CASE Crash
  <2>1. \A t \in Threads : pc'[t] = "idle" /\ floor'[t] = 0
    BY <1>19 DEF Crash
  <2>2. saved' \in Nat
    BY DEF TypeOK, Writers
  <2>3. \A t \in Threads : floor'[t] <= saved'
    BY <2>1, <2>2
  <2>4. \A t \in Threads : FreshOf(t)'
    BY <2>1, <2>3 DEF FreshOf
  <2> QED
    BY <2>4 DEF FreshInv
<1>20. CASE UNCHANGED vars
  <2>1. UNCHANGED <<pc, owned, todo, read, floor, raced>>
    BY <1>20 DEF vars, threads
  <2> QED
    BY <2>1, FreshKept DEF FreshInv
<1> QED
  BY <1>4, <1>5, <1>6, <1>7, <1>8, <1>9, <1>11, <1>12, <1>13, <1>14, <1>15, <1>16, <1>17, <1>18, <1>19,
     <1>20, Steps DEF Act, Migrate, WriteProject, ReadProject

-----------------------------------------------------------------------------
(* The theorems about reads.                                               *)

ReadingInv == WriterInv /\ ReadInv /\ SavedInv /\ FreshInv

\* Nothing is read, cached or saved at first.
LEMMA ReadingInit == Init => ReadingInv
<1> SUFFICES ASSUME Init PROVE ReadingInv
  OBVIOUS
<1>1. /\ \A t \in Threads : pc[t] = "idle" /\ floor[t] = 0
      /\ cache = None /\ saved = 0 /\ writers = 1
  BY DEF Init
<1>2. profile.writer \in {0, 1} /\ sidecar \in {0, 1} /\ \A c \in Configs : config[c] \in {0, 1}
  BY DEF Init, LegacyProject, AuthoredProject, NoProfile, Absent
<1>3. \A f \in Files : OnDisk(f) \in {0, 1}
  BY <1>2 DEF OnDisk, Files
<1>4. WriterInv
  BY <1>1, <1>3 DEF WriterInv, Writing
<1>5. ReadInv
  BY <1>1 DEF ReadInv, ReadOf
<1>6. SavedInv
  BY <1>1 DEF SavedInv
<1>7. FreshInv
  <2>1. \A t \in Threads : floor[t] <= saved
    BY <1>1
  <2> QED
    BY <1>1, <2>1 DEF FreshInv, FreshOf
<1> QED
  BY <1>4, <1>5, <1>6, <1>7 DEF ReadingInv

\* What is known of the writers, the reads and the cache holds in every reachable state.
THEOREM FilesReading == Spec => []ReadingInv
<1>1. Init => ReadingInv
  BY ReadingInit
<1>2. ASSUME IInv, IInv', ReadingInv, [Next]_vars PROVE ReadingInv'
  <2>1. TypeOK /\ TypeOK' /\ DeclaredExist /\ DiskStep
    BY <1>2, DiskSteps DEF IInv
  <2>2. WriterInv /\ ReadInv /\ SavedInv /\ FreshInv
    BY <1>2 DEF ReadingInv
  <2>3. WriterInv'
    BY <2>1, <2>2, WriterStep
  <2>4. ReadInv'
    BY <1>2, <2>1, <2>2, ReadInvStep
  <2>5. SavedInv'
    BY <1>2, <2>1, <2>2, SavedStep
  <2>6. FreshInv'
    BY <1>2, <2>1, <2>2, FreshStep
  <2> QED
    BY <2>3, <2>4, <2>5, <2>6 DEF ReadingInv
<1> QED
  BY <1>1, <1>2, FilesInvariant, PTL DEF Spec

\* What the cache would answer with is what is on disk (read_project: a stamp is taken
\* before its file is read), until a save meets a migration.
THEOREM FilesCacheTrue == Spec => []CacheTrue
<1>1. IInv /\ ReadingInv => CacheTrue
  <2> SUFFICES ASSUME IInv, ReadingInv, cache # None, ~raced,
                      \A f \in Consulted(cache) : cache.stamp[f] = OnDisk(f),
                      NEW f \in Consulted(cache)
               PROVE  cache.content[f] = OnDisk(f)
    BY DEF CacheTrue, Consulted
  <2>1. PICK e \in Entries : e = cache
    BY DEF IInv, TypeOK
  <2>2. Complete(e)
    BY <2>1 DEF ReadingInv, ReadInv
  <2>3. "profile" \in Consulted(e)
    BY DEF Consulted
  <2>4. \A c \in e.declares : e.stamp[c] # Absent
    BY <2>1, <2>2, <2>3, CheckedProfile DEF IInv
  <2>5. ~Missed(e, f)
    BY <2>1, <2>4, OnDiskFacts DEF Missed, Consulted
  <2> QED
    BY <2>1, <2>2, <2>5, CheckedFile
<1> QED
  BY <1>1, FilesInvariant, FilesReading, PTL

\* A get that came after a save was answered shows nothing older, whether it comes
\* from the cache or from disk, and whoever writes while it reads.
THEOREM FilesReadFresh == Spec => []ReadFresh
<1>1. ReadingInv => ReadFresh
  <2> SUFFICES ASSUME ReadingInv, NEW t \in Threads, pc[t] = "return", ~raced,
                      NEW f \in Consulted(read[t])
               PROVE  read[t].content[f] >= floor[t] \/ (f \in Configs /\ read[t].content[f] = Absent)
    BY DEF ReadFresh, Consulted
  <2>1. FreshOf(t)
    BY DEF ReadingInv, FreshInv
  <2>2. Newer(t, f, read[t].content[f])
    BY <2>1 DEF FreshOf
  <2> QED
    BY <2>2 DEF Newer
<1> QED
  BY <1>1, FilesReading, PTL
=============================================================================
