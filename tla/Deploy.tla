-------------------------------- MODULE Deploy --------------------------------
(***************************************************************************)
(* Deploying one workspace project to machines: core/deploy.py, its        *)
(* executors (core/executor.py), the fleet registry (core/fleet.py) and    *)
(* the callers in server/routes/provision.py and cli/provision_cli.py.     *)
(* Any number of deploys, rollbacks, service commands and checks run at a  *)
(* time, each on a thread or in a process of its own, and nothing locks a  *)
(* target. A save of the project may run beside all of them. What          *)
(* install.sh does on the target is external.                              *)
(*                                                                         *)
(* One action is one file of the project copied, one command or transfer   *)
(* to the target, or one read or write of fleet.yaml.                      *)
(***************************************************************************)
EXTENDS Naturals

CONSTANTS
    Deploys,      \* the operations on targets: bounds those of a run
    Kinds,        \* what they may be; see AllKinds
    Targets,      \* the machines
    MaxVersion,   \* runtime versions are 1..MaxVersion; 0 is no runtime
    Guard,        \* DOWNGRADE_GUARD_VERSION: from here install.sh asks first
    MaxSaves,     \* bounds the saves of the project
    MaxCrashes,   \* bounds the deploys whose own process is killed
    None          \* Python's None

AllKinds == {"local", "remote", "cli", "rollback", "stop", "restart", "check"}

Saves == 0..MaxSaves
Profiles == [save : Saves, pin : 1..MaxVersion]

ASSUME DeployAssumption ==
    /\ Kinds \subseteq AllKinds
    /\ MaxVersion \in Nat \ {0} /\ Guard \in Nat
    /\ MaxSaves \in Nat /\ MaxCrashes \in Nat
    /\ None \notin Targets \cup AllKinds /\ None \notin Profiles

VARIABLES
    profile,    \* machine-profile.yaml: the save that wrote it and the runtime it pins
    config,     \* the save that wrote the config files
    saving,     \* the profile of a save that has written its configs, or None
    installed,  \* installed[t]: the runtime version installed on target t
    prev,       \* prev[t]: the version install.sh keeps in <prefix>/.prev
    service,    \* service[t]: what systemctl is-active says of anolis-runtime
    fleet,      \* fleet.yaml: the hosts it lists; cut short, it reads as listing none
    kind,       \* kind[d]: what operation d is, None before it is asked for
    target,     \* target[d]: the machine it is for
    pc,         \* pc[d]: where the workbench is with it
    pin,        \* pin[d]: the version whose install.sh it runs (runtime_version)
    seen,       \* seen[d]: the version the downgrade check found on the target
    copy,       \* copy[d]: what it copied of the project
    staging,    \* staging[d]: what its private directory on the target holds
    script,     \* script[d]: its install.sh on the target
    outcome,    \* outcome[d]: what it told its caller
    left,       \* left[d]: whether its directory is left, and whether it told that
    listed,     \* listed[d]: the hosts it read from fleet.yaml
    \* History:
    disturbed,  \* disturbed[d]: whether a save ran while it copied the project
    registered, \* the hosts whose registration has ended
    clashed,    \* whether two registrations overlapped, or one was cut short
    crashes     \* how many of the deploys were killed

project == <<profile, config, saving>>
machines == <<installed, prev, service>>
registry == <<fleet, listed, registered, clashed>>
work == <<kind, target, pin, seen, copy, outcome, left, disturbed>>
vars == <<project, machines, registry, work, pc, staging, script, crashes>>

Versions == 0..MaxVersion
Copies == [save : Saves, pin : Versions, config : Saves]
NoCopy == [save |-> 0, pin |-> 0, config |-> 0]

\* Those that install, those that work from a private directory on the target, and
\* the ones whose host is entered in the fleet registry: a remote job of the server.
Installs == {d \in Deploys : kind[d] \in {"local", "remote", "cli"}}
Staged == {d \in Deploys : kind[d] \in {"remote", "cli", "rollback"}}
Registers == {d \in Deploys : kind[d] = "remote"}

Copying == {"materialize", "copy profile", "copy config"}
Readying == {"downgrade", "fetch", "stage", "push", "script", "run"}
Ending == {"cleanup", "register", "truncate", "write"}
Labels == {"idle", "await", "is-active", "measure", "ended"} \cup Copying \cup Readying \cup Ending

TypeOK ==
    /\ profile \in Profiles /\ config \in Saves /\ saving \in Profiles \cup {None}
    /\ installed \in [Targets -> Versions]
    /\ prev \in [Targets -> Versions]
    /\ service \in [Targets -> {"active", "inactive"}]
    /\ fleet \in SUBSET Targets
    /\ kind \in [Deploys -> Kinds \cup {None}]
    /\ target \in [Deploys -> Targets \cup {None}]
    /\ pc \in [Deploys -> Labels]
    /\ pin \in [Deploys -> Versions]
    /\ seen \in [Deploys -> Versions]
    /\ copy \in [Deploys -> Copies]
    /\ staging \in [Deploys -> {"none", "empty", "project", "whole"}]
    /\ script \in [Deploys -> {"none", "running", "installed", "done", "failed"}]
    /\ outcome \in [Deploys -> {"none", "ok", "refused", "failed", "killed"}]
    /\ left \in [Deploys -> {"no", "told", "silent"}]
    /\ listed \in [Deploys -> SUBSET Targets]
    /\ disturbed \in [Deploys -> BOOLEAN]
    /\ registered \in SUBSET Targets
    /\ clashed \in BOOLEAN
    /\ crashes \in 0..MaxCrashes

Init ==
    /\ profile \in [save : {0}, pin : 1..MaxVersion] /\ config = 0 /\ saving = None
    /\ installed \in [Targets -> Versions]
    /\ prev = installed
    /\ service = [t \in Targets |-> IF installed[t] = 0 THEN "inactive" ELSE "active"]
    /\ fleet = {}
    /\ kind = [d \in Deploys |-> None]
    /\ target = [d \in Deploys |-> None]
    /\ pc = [d \in Deploys |-> "idle"]
    /\ pin = [d \in Deploys |-> 0]
    /\ seen = [d \in Deploys |-> 0]
    /\ copy = [d \in Deploys |-> NoCopy]
    /\ staging = [d \in Deploys |-> "none"]
    /\ script = [d \in Deploys |-> "none"]
    /\ outcome = [d \in Deploys |-> "none"]
    /\ left = [d \in Deploys |-> "no"]
    /\ listed = [d \in Deploys |-> {}]
    /\ disturbed = [d \in Deploys |-> FALSE]
    /\ registered = {}
    /\ clashed = FALSE
    /\ crashes = 0

Goto(d, label) == pc' = [pc EXCEPT ![d] = label]

\* Mutant: d stops and leaves the staging directory.
EndWithoutCleanup(d, r) ==
    /\ Goto(d, "ended")
    /\ outcome' = [outcome EXCEPT ![d] = r]

\* d stops here and tells r; an operation with a staging directory removes it first.
EndWith(d, r) ==
    /\ Goto(d, IF staging[d] # "none" THEN "cleanup" ELSE "ended")
    /\ outcome' = [outcome EXCEPT ![d] = r]

-----------------------------------------------------------------------------
(* The project: a save writes the configs first and the profile after them. *)

\* Every deploy that is copying meets the save.
Disturb == disturbed' = [d \in Deploys |-> disturbed[d] \/ pc[d] \in {"copy profile", "copy config"}]

SaveConfigs(v) ==
    /\ saving = None
    /\ config < MaxSaves
    /\ saving' = [save |-> config + 1, pin |-> v]
    /\ config' = config + 1
    /\ Disturb
    /\ UNCHANGED <<profile, machines, registry, pc, staging, script, crashes,
                   kind, target, pin, seen, copy, outcome, left>>

SaveProfile ==
    /\ saving # None
    /\ profile' = saving
    /\ saving' = None
    /\ Disturb
    /\ UNCHANGED <<config, machines, registry, pc, staging, script, crashes,
                   kind, target, pin, seen, copy, outcome, left>>

-----------------------------------------------------------------------------
(* From the request to the target.                                         *)

\* A request of the server or a command of the shell, which begins at label.
Ask(d, k, t, label) ==
    /\ pc[d] = "idle" /\ k \in Kinds
    /\ kind' = [kind EXCEPT ![d] = k]
    /\ target' = [target EXCEPT ![d] = t]
    /\ Goto(d, label)
    /\ UNCHANGED <<project, machines, registry, staging, script, crashes,
                   pin, seen, copy, outcome, left, disturbed>>

AskLocal(d, t) == Ask(d, "local", t, "materialize")
AskRemote(d, t) == \E k \in {"remote", "cli"} : Ask(d, k, t, "materialize")
AskRollback(d, t) == Ask(d, "rollback", t, "fetch")
AskService(d, t) == \E k \in {"stop", "restart"} : Ask(d, k, t, "run")
AskCheck(d, t) == Ask(d, "check", t, "measure")

\* The profile is read and passes the checks; it says which install.sh to run.
Materialize(d) ==
    /\ pc[d] = "materialize"
    /\ pin' = [pin EXCEPT ![d] = profile.pin]
    /\ disturbed' = [disturbed EXCEPT ![d] = saving # None]
    /\ Goto(d, "copy profile")
    /\ UNCHANGED <<project, machines, registry, staging, script, crashes,
                   kind, target, seen, copy, outcome, left>>

\* The files are copied as they now are, the profile first.
CopyFiles(d) ==
    /\ \/ /\ pc[d] = "copy profile"
          /\ copy' = [copy EXCEPT ![d].save = profile.save, ![d].pin = profile.pin]
          /\ Goto(d, "copy config")
       \/ /\ pc[d] = "copy config"
          /\ copy' = [copy EXCEPT ![d].config = config]
          /\ Goto(d, "downgrade")
    /\ UNCHANGED <<project, machines, registry, staging, script, crashes,
                   kind, target, pin, seen, outcome, left, disturbed>>

\* Mutant: off by one, the last version that does not ask is let through.
RefusedButLast(v, i) == v < i /\ v < Guard - 1

\* What a deploy of version v does over version i: install.sh before Guard would
\* downgrade without asking.
Refused(v, i) == v < i /\ v < Guard

\* The installed runtime is asked for its version.
CheckDowngrade(d) ==
    /\ pc[d] = "downgrade"
    /\ seen' = [seen EXCEPT ![d] = installed[target[d]]]
    /\ IF Refused(pin[d], installed[target[d]])
       THEN EndWith(d, "refused")
       ELSE Goto(d, "fetch") /\ UNCHANGED outcome
    /\ UNCHANGED <<project, machines, registry, staging, script, crashes,
                   kind, target, pin, copy, left, disturbed>>

\* install.sh is downloaded and its checksum compared.
Fetch(d) ==
    /\ pc[d] = "fetch"
    /\ Goto(d, IF d \in Staged THEN "stage" ELSE "run")
    /\ UNCHANGED <<project, machines, registry, work, staging, script, crashes>>

MakeStaging(d) ==
    /\ pc[d] = "stage"
    /\ staging' = [staging EXCEPT ![d] = "empty"]
    /\ Goto(d, IF d \in Installs THEN "push" ELSE "script")
    /\ UNCHANGED <<project, machines, registry, work, script, crashes>>

\* A bad project, a target that cannot be asked, no download, no staging directory:
\* nothing was deployed. The directory may be there if only mktemp's answer was lost.
Refuse(d) ==
    /\ pc[d] \in {"materialize", "downgrade", "fetch", "stage", "measure"}
    /\ EndWith(d, "refused")
    /\ \/ UNCHANGED <<staging, left>>
       \/ /\ pc[d] = "stage"
          /\ staging' = [staging EXCEPT ![d] = "empty"]
          /\ left' = [left EXCEPT ![d] = "silent"]
    /\ UNCHANGED <<project, machines, registry, script, crashes,
                   kind, target, pin, seen, copy, disturbed>>

\* The project's files go into the staging directory, then install.sh.
Push(d) ==
    /\ \/ /\ pc[d] = "push"
          /\ staging' = [staging EXCEPT ![d] = "project"]
          /\ Goto(d, "script")
       \/ /\ pc[d] = "script"
          /\ staging' = [staging EXCEPT ![d] = "whole"]
          /\ Goto(d, "run")
    /\ UNCHANGED <<project, machines, registry, work, script, crashes>>

\* A transfer fails, or sudo refuses the command.
TargetFails(d) ==
    /\ pc[d] \in {"push", "script", "run", "is-active"}
    /\ EndWith(d, "failed")
    /\ UNCHANGED <<project, machines, registry, staging, script, crashes,
                   kind, target, pin, seen, copy, left, disturbed>>

RunScript(d) ==
    /\ pc[d] = "run" /\ d \in Installs \cup Staged
    /\ script' = [script EXCEPT ![d] = "running"]
    /\ Goto(d, "await")
    /\ UNCHANGED <<project, machines, registry, work, staging, crashes>>

-----------------------------------------------------------------------------
(* install.sh on the target (external). It reads the staged files until it  *)
(* ends, keeps the binaries it replaces, and restarts the service.          *)

Intact(d) == d \in Staged => staging[d] = "whole"

InstallSwaps(d) ==
    LET t == target[d]
        v == IF d \in Installs THEN copy[d].pin ELSE prev[t]
    IN  /\ script[d] = "running"
        /\ Intact(d)
        /\ d \in Installs => ~(pin[d] >= Guard /\ v < installed[t])
        /\ v # 0
        /\ installed' = [installed EXCEPT ![t] = v]
        /\ prev' = [prev EXCEPT ![t] = IF d \in Installs THEN installed[t] ELSE @]
        /\ service' = [service EXCEPT ![t] = "active"]
        /\ script' = [script EXCEPT ![d] = "installed"]
        /\ UNCHANGED <<project, registry, work, pc, staging, crashes>>

InstallEnds(d) ==
    /\ \/ script[d] = "installed" /\ script' = [script EXCEPT ![d] = "done"]
       \/ script[d] \in {"running", "installed"} /\ script' = [script EXCEPT ![d] = "failed"]
    /\ UNCHANGED <<project, machines, registry, work, pc, staging, crashes>>

-----------------------------------------------------------------------------
(* From the target back to the caller.                                     *)

\* Mutant: the exit status is not looked at.
CollectAnyhow(d) ==
    /\ pc[d] = "await"
    /\ script[d] \in {"done", "failed"}
    /\ EndWith(d, "ok")
    /\ UNCHANGED <<project, machines, registry, staging, script, crashes,
                   kind, target, pin, seen, copy, left, disturbed>>

\* The command's exit status is read.
Collect(d) ==
    /\ pc[d] = "await"
    /\ script[d] \in {"done", "failed"}
    /\ EndWith(d, IF script[d] = "done" THEN "ok" ELSE "failed")
    /\ UNCHANGED <<project, machines, registry, staging, script, crashes,
                   kind, target, pin, seen, copy, left, disturbed>>

\* The deadline passes or the connection breaks: the channel is closed, and
\* install.sh runs on. A local command is waited for even then.
TimeOut(d) ==
    /\ pc[d] = "await" /\ kind[d] # "local"
    /\ script[d] \in {"running", "installed"}
    /\ EndWith(d, "failed")
    /\ UNCHANGED <<project, machines, registry, staging, script, crashes,
                   kind, target, pin, seen, copy, left, disturbed>>

\* The staging directory is removed, or it is told that it could not be. The exit status
\* of rm is not looked at: over ssh it is all that a lost connection shows.
Cleanup(d) ==
    /\ pc[d] = "cleanup"
    /\ Goto(d, IF outcome[d] = "ok" /\ d \in Registers THEN "register" ELSE "ended")
    /\ \/ staging' = [staging EXCEPT ![d] = "none"] /\ UNCHANGED left
       \/ left' = [left EXCEPT ![d] = "told"] /\ UNCHANGED staging
       \/ left' = [left EXCEPT ![d] = "silent"] /\ UNCHANGED staging
    /\ UNCHANGED <<project, machines, registry, script, crashes,
                   kind, target, pin, seen, copy, outcome, disturbed>>

\* auto_register_host reads fleet.yaml.
RegisterRead(d) ==
    /\ pc[d] = "register"
    /\ listed' = [listed EXCEPT ![d] = fleet]
    /\ clashed' = (clashed \/ \E e \in Deploys : pc[e] \in {"truncate", "write"})
    /\ Goto(d, "truncate")
    /\ UNCHANGED <<project, machines, fleet, registered, work, staging, script, crashes>>

\* Mutant: the entry of a host that is listed is updated, and none is appended.
RegisterUpdate(d) ==
    /\ \/ /\ pc[d] = "truncate"
          /\ fleet' = {}
          /\ Goto(d, "write")
          /\ UNCHANGED <<listed, registered>>
       \/ /\ pc[d] = "write"
          /\ fleet' = listed[d]
          /\ listed' = [listed EXCEPT ![d] = {}]
          /\ registered' = registered \cup {target[d]}
          /\ Goto(d, "ended")
    /\ UNCHANGED <<project, machines, clashed, work, staging, script, crashes>>

\* It writes the file in place.
RegisterWrite(d) ==
    /\ \/ /\ pc[d] = "truncate"
          /\ fleet' = {}
          /\ Goto(d, "write")
          /\ UNCHANGED <<listed, registered>>
       \/ /\ pc[d] = "write"
          /\ fleet' = listed[d] \cup {target[d]}
          /\ listed' = [listed EXCEPT ![d] = {}]
          /\ registered' = registered \cup {target[d]}
          /\ Goto(d, "ended")
    /\ UNCHANGED <<project, machines, clashed, work, staging, script, crashes>>

\* fleet.yaml cannot be read or parsed: the job fails after it has installed.
RegisterFails(d) ==
    /\ pc[d] = "register"
    /\ Goto(d, "ended")
    /\ outcome' = [outcome EXCEPT ![d] = "failed"]
    /\ UNCHANGED <<project, machines, registry, staging, script, crashes,
                   kind, target, pin, seen, copy, left, disturbed>>

-----------------------------------------------------------------------------
(* The service command and the target check.                               *)

\* systemctl stop or restart, then is-active, each a command of its own.
Systemctl(d) ==
    /\ pc[d] = "run" /\ kind[d] \in {"stop", "restart"}
    /\ service' = [service EXCEPT ![target[d]] = IF kind[d] = "stop" THEN "inactive" ELSE "active"]
    /\ Goto(d, "is-active")
    /\ UNCHANGED <<project, installed, prev, registry, work, staging, script, crashes>>

IsActive(d) ==
    /\ pc[d] = "is-active"
    /\ EndWith(d, IF (kind[d] = "stop") = (service[target[d]] = "inactive") THEN "ok" ELSE "failed")
    /\ UNCHANGED <<project, machines, registry, staging, script, crashes,
                   kind, target, pin, seen, copy, left, disturbed>>

\* check_target: the project's pin beside the installed version; nothing changes.
Measure(d) ==
    /\ pc[d] = "measure"
    /\ pin' = [pin EXCEPT ![d] = profile.pin]
    /\ seen' = [seen EXCEPT ![d] = installed[target[d]]]
    /\ EndWith(d, IF Refused(profile.pin, installed[target[d]]) THEN "refused" ELSE "ok")
    /\ UNCHANGED <<project, machines, registry, staging, script, crashes,
                   kind, target, copy, left, disturbed>>

-----------------------------------------------------------------------------
\* The workbench, or the command, is killed.
Kill(d) ==
    /\ crashes < MaxCrashes
    /\ pc[d] \notin {"idle", "ended"}
    /\ crashes' = crashes + 1
    /\ Goto(d, "ended")
    /\ outcome' = [outcome EXCEPT ![d] = "killed"]
    /\ clashed' = (clashed \/ pc[d] = "write")
    /\ UNCHANGED <<project, machines, fleet, listed, registered, staging, script,
                   kind, target, pin, seen, copy, left, disturbed>>

\* What the thread or process of d does, by the function it is in.
Prepare(d) == Materialize(d) \/ CopyFiles(d) \/ CheckDowngrade(d) \/ Fetch(d) \/ Refuse(d)
Remote(d) == MakeStaging(d) \/ Push(d) \/ TargetFails(d) \/ Cleanup(d)
RunInstallSh(d) == RunScript(d) \/ Collect(d) \/ TimeOut(d)
AutoRegisterHost(d) == RegisterRead(d) \/ RegisterWrite(d) \/ RegisterFails(d)
ControlService(d) == Systemctl(d) \/ IsActive(d)
Step(d) ==
    \/ Prepare(d) \/ Remote(d) \/ RunInstallSh(d) \/ AutoRegisterHost(d)
    \/ ControlService(d) \/ Measure(d)

Script(d) == InstallSwaps(d) \/ InstallEnds(d)

Next ==
    \/ \E v \in 1..MaxVersion : SaveConfigs(v)
    \/ SaveProfile
    \/ \E d \in Deploys, t \in Targets :
          AskLocal(d, t) \/ AskRemote(d, t) \/ AskRollback(d, t) \/ AskService(d, t) \/ AskCheck(d, t)
    \/ \E d \in Deploys : Step(d) \/ Script(d) \/ Kill(d)

Spec == Init /\ [][Next]_vars

-----------------------------------------------------------------------------
(* Safety.                                                                 *)

\* While the workbench waits for install.sh, the directory it works from is whole,
\* whatever other deploys to the same machine do.
RunsWhole == \A d \in Deploys : pc[d] = "await" => Intact(d)

\* A staging directory is gone once the caller is answered, whatever failed before,
\* unless its removal failed or its name was never learned.
StagingRemoved ==
    \A d \in Deploys :
        pc[d] = "ended" /\ outcome[d] # "killed" /\ staging[d] # "none" => left[d] # "no"

StagingSafe == RunsWhole /\ StagingRemoved

\* "Nothing was deployed" means that no install.sh ran and no file was left on the
\* target; success means that the install.sh of this deploy ended well.
OutcomeTrue ==
    \A d \in Installs :
        /\ outcome[d] = "refused" => script[d] = "none" /\ staging[d] \in {"none", "empty"}
        /\ outcome[d] = "ok" => script[d] = "done"

\* A project that was not saved meanwhile is deployed as it was saved: profile and
\* configs of one save, and the install.sh of the version the profile pins.
CopyTrue ==
    \A d \in Installs :
        script[d] # "none" /\ ~disturbed[d] =>
            copy[d].save = copy[d].config /\ copy[d].pin = pin[d]

\* A staging directory that stays is told of, as _remove_staging says of itself.
LeftIsTold == \A d \in Deploys : left[d] # "silent"

\* What a deploy tells is true, and so is what it put on the target.
InstallTrue == OutcomeTrue /\ CopyTrue

\* Only a rollback lowers a target's runtime version, or a deploy whose check went
\* stale: another install changed the target, or a save the pin, after it.
NoSilentDowngrade ==
    [][\A t \in Targets : installed'[t] < installed[t] =>
          \E d \in Deploys :
              /\ target[d] = t /\ script[d] = "running"
              /\ kind[d] = "rollback" \/ seen[d] # installed[t] \/ copy[d].pin # pin[d]]_vars

\* A host whose registration has ended is in fleet.yaml, unless two registrations
\* overlapped or one was cut short; the file is rewritten in place.
RegisteredStays ==
    clashed \/ (\E d \in Deploys : pc[d] = "write") \/ registered \subseteq fleet
=============================================================================
