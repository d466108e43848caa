# Anolis Workbench in TLA+

This directory holds a formal model of Anolis Workbench: TLA+ modules translated
from the code under the repository's root, TLC configurations that check them on
small instances, and TLAPS proofs of theorems about them. Paths below are
relative to the repository's root.

Run TLC as `tlc -config <cfg> <module>` and the proofs as `tlapm <module>.tla`.
`PROJECT.json` lists the runs, the theorems, the hazards each property is aimed
at, a mutant of the code for every property, and, for every definition, the
source lines it stands for.

## 1. The system

Anolis Workbench is a local web application for composing, commissioning and
operating laboratory machines that run the *anolis-runtime*. One Python process
(`anolis_workbench/server/app.py`) serves a Svelte frontend and an HTTP API; each
request runs on a thread of its own (`ThreadingHTTPServer`). The same core is
used by a command line and wrapped by a Tauri desktop shell.

| Part | Code | State it keeps | Operations | Talks to |
| --- | --- | --- | --- | --- |
| Launcher | `core/launcher.py`, `server/routes/commission.py` | `_state` (tracked project and process), `_lifecycle_lock`, `running.json` per project, the runtime processes, a reader thread each | launch, stop, restart, status, exit cleanup, discovery of a detached or external runtime | project store, log stream, operate proxy |
| Log stream | `core/launcher.py` (`_read_logs`, `handle_log_stream`) | ring of 200 lines per project, set of subscriber queues of 500 | append a line, notify, replay, subscribe, keepalive, end | launcher's readers, browser |
| Provision jobs | `server/routes/provision.py` | `_jobs`: status, events, error, result; the sudo password | start install / remote / bundle, status stream, bundle download | deploy, fleet, pages |
| Onboarding and export pages | `frontend/src/routes/Onboarding.svelte`, `Commission.svelte` | view, the event source, the job key in `sessionStorage` | start, follow, lose, probe, back, reload | provision jobs |
| Project store | `core/projects.py`, `canonical.py`, `migrations.py` | project directories, `_WRITE_LOCK`, read cache | list, read (migrating), save, create, import, rename, duplicate, delete | launcher (`is_running`) |
| Installer | `core/installer.py`, `installed_project.py`, `cli/provision_cli.py`, `server/routes/onboarding.py` | the provisioned projects, `.provisioned.json`, the staging directory | provision, re-provision, import what is installed, first-run status | project store |
| Deploy | `core/deploy.py`, `executor.py`, `rollback.py`, `cli/provision_cli.py` | the copy of the project, the private directory and `install.sh` on the target, the output still to be read | install, roll back, start and stop the service, check a target | the target host |
| Updater | `core/updater.py`, `releases.py`, `release_verify.py` | none | download, query | GitHub |
| Fleet registry | `core/fleet.py` | `fleet.yaml` | list, probe, auto-register | deploy jobs |
| Operate proxy | `server/routes/operate.py`, `core/workbench_service.py` | `_candidates`, `_resolved`, `_last_target`, the token's copy | proxy, software stop | launcher, runtime |
| Operate event stream | `frontend/src/lib/operate-events.ts` | the event source and its timers | connect, reconnect, stop | operate proxy |
| Provider imports | `core/provider_import.py`, `provider_schemas.py` | envelopes and sidecars | import, replace, list, remove | project store |
| Desktop shell | `desktop/src-tauri/src/main.rs` | the sidecar process | start, wait for health, stop | the server |
| Validators, exporter, command line, server shell | `core/*_validator.py`, `exporter.py`, `cli/`, `server/app.py` | none that is shared | sequential | the above |

What is hard in it: request threads that overlap on the one runtime slot, with
files (`running.json`, the project directories) as the memory that survives a
crash; reader threads that outlive what they read; status polls and streams that
read without a lock what workers write; a browser that loses answers and streams
while the job runs on; migrations and saves of several files with no transaction;
commands of the shell, which are processes of their own and share the projects, the
imports and `fleet.yaml` with the server without any lock; an `install.sh` that runs
on after its caller gave up; caches kept under stamps of the files they were read
from.
`PROJECT.json` ("hazards") lists each one at its line.

What makes each part correct:

- *Launcher*: one runtime at a time, never one that the workbench started and no
  longer tracks; a stop ends its own project's runtime only; every request is
  answered; a project that runs is not deleted.
- *Log stream*: each client sees a runtime's lines in order and, from its
  subscription on, without a gap except by overflow; nothing stays subscribed.
- *Provision jobs*: every stream shows the same events from the first on and
  ends; a failure is explained; done means done; the password is zeroed.
- *Pages*: no outcome is shown that the job did not have; a job whose end was reported
  is not attached to again, by whatever reload or late answer (that one still running is
  found again is best effort: `sessionStorage` may refuse to remember it); neither page is
  busy for ever.
- *Project store*: what is on disk is a whole project after every crash; no save
  is lost; a retried migration loses nothing.
- *Installer and store, over all projects*: no project with an edit that the record
  of its provisioning covers disappears unasked; no two projects deploy into one directory; first run
  ends with the first project of the user's own, where onboarding looks.
- *Deploy*: `install.sh` runs from a whole directory, which does not stay; what is told
  is true; what arrives is one save of the project, with the `install.sh` of the version
  it pins; no version is lowered silently.
- *Executor*: a command's result holds all of its output, and no unread output stops it.
- *Fleet registry*: a host that was registered stays.
- *Operate proxy*: a request reaches the one runtime that runs, with its token, whatever
  was remembered, as long as that runtime listens where the files on disk say.
- *Provider imports*: nothing published is overwritten or removed unasked; no listing
  shows an origin that is another content's; what an import tells is so.

## 2. The modules

| Module | Models | Instances |
| --- | --- | --- |
| `RuntimeSlot` | the abstract promise of the launcher: one slot, which holds the process that runs and its project | refined by `Launcher` |
| `Launcher` | the launcher, its readers, the runtimes, crash and restart | `MCLauncher` |
| `LauncherProofs` | theorems about `Launcher` | |
| `LauncherProjects` | `Launcher` composed with the delete of a project | `MCLauncherProjects` |
| `LogStream` | the log ring, the queues and the stream handler | `MCLogStream` |
| `LogStreamProofs` | theorems about `LogStream` | |
| `ProvisionJobs` | provision jobs and their status streams | `MCProvisionJobs` |
| `ProvisionProofs` | theorems about `ProvisionJobs` and `ProvisionPages` | |
| `ProjectFiles` | one project's files: saves, migrations, reads and their cache | `MCProjectFiles` |
| `ProjectFilesProofs` | theorems about `ProjectFiles` | |
| `ProvisionPages` | `ProvisionJobs` composed with the onboarding page and the export | `MCProvisionPages` |
| `Workspace` | all project directories: what the server, its start, its jobs and the shell make, move and remove | `MCWorkspace` |
| `WorkspaceProofs` | theorems about `Workspace` | |
| `Deploy` | deploys, rollbacks, service commands and checks on several machines, with the fleet registry | `MCDeploy` |
| `DeployProofs` | theorems about `Deploy` and `RemoteCommand` | |
| `RemoteCommand` | one command over ssh: the collector of its output against the transport | `MCRemoteCommand` |
| `OperateProxy` | the proxied requests and what they remember, beside the runtimes | `MCOperateProxy` |
| `OperateProxyProofs` | theorems about `OperateProxy` | |
| `ProviderImports` | the import of one provider version: envelope, sidecar, pins | `MCProviderImports` |
| `ProviderImportsProofs` | theorems about `ProviderImports` | |

The composed modules (`LauncherProjects`, `ProvisionPages`) extend what they compose.
Elsewhere a module has of its neighbour what it needs and no more: `ProvisionJobs` sees a
deploy as a step that succeeds or fails, which `Deploy` spells out; `Deploy` sees a remote
command as answered, lost or timed out, which `RemoteCommand` spells out; `Workspace` sees
a save, a copy or a provisioning as one step, where `ProjectFiles` has the files;
`OperateProxy` takes from `Launcher` that one runtime runs at a time.

### Launcher

`state` is `_state` (project and process always set together, under
`_state_lock`), `record[p]` the content of p's `running.json` (a pid, absent, or
`Partial` while `write_text` has opened but not yet written it), `alive` the
processes the operating system runs, `reader[x]` the log reader thread of x, and
`pc`, `op`, `name`, `todo`, `cur`, `pid`, `kind` each request thread's place and
locals. What runs under `_state_lock` is one action and so is each access to a
`running.json`; everything in between can interleave, including a status poll,
which takes no lock and yet unlinks records it finds stale.

A launch is `Arrive`, `Acquire`, the snapshot (`ReadManaged`, `Scan` per
directory, `UnlinkStale`, `ScanEnds`, `Probe`), `DecideGo` or `DecideRefuse`,
`PrepareGo` or `PrepareRefuse`, then `_spawn` (`Popen` to `StartReader`, with
`SpawnFails`, `AbortClear`, `AbortKill`). A stop first takes a snapshot without
the lock (the route's check) and a second one with it. A restart is a stop and a
launch under one hold of the lock.

Abstractions: a directory listing visits the projects in any order; the probe of
an external runtime answers anything; a runtime's output closes when it exits; a
crash of the workbench and the next start's cleanup of `running.json` are one
step (the new server takes no request before the cleanup ran); a pid is not used
twice, so the confusion of a reused pid with a runtime is not modelled; psutil is
a declared dependency, so the branch for its absence is left out.

`owner`, `mine` and `crashes` are history: no guard reads them but to pick a
fresh pid and to bound the crashes.

`LauncherProjects` adds an editor's thread in the delete route (`RouteCheck`,
`TakeWriteLock`, `DeleteCheck`, `Rmtree`) and the launcher's steps that need the
directory to be there.

### LogStream

`ring`, `subs` and `queue` are `log_lines_by_project`, `_sse_subscribers` and the
queues of one project. Runtime 0 is one that an earlier workbench started, which
has no reader here; the others are spawned one after another, each with a reader
(`ReadLine`, `ReadEnd`, `ReadFails`) that appends to the ring, copies the
subscribers (`CopySubscribers`) and puts to one queue at a time (`Put`): an item
that does not fit is dropped, the sentinel `End` too. A stream is `Open` (the
replay), `Subscribe`, `Deliver`, `ClientLeft`, `Leave`. `Spawn` joins Popen with the
publication of the state that empties the ring. `during`, `live` and `full` are
history. A start that fails is the launcher's matter.

### ProvisionJobs and ProvisionPages

`status`, `events`, `error` and `secret` are the fields of a job (and its password
buffer), `artifact` is `_bundle_artifacts`, `worker[j]` the place of its thread: `Progress`, `WorkDone`, `Register` (remote:
the host enters the fleet) or `Store` (bundle), `ReportDone`, `SettleDone`, or
`Raises`, `KeepError`, `SettleFailed`, `ReportError`, and `Finally`, which zeroes
the password. A stream is `OpenStream`, `SendEvent` per event, `Drained`,
`CheckRunning` or `CheckSettled` with its closing frame, and `Drop` when its
client left. `wire[s]` keeps the frames in order, as one HTTP response does; in
`ProvisionJobs` nobody reads it, so it is all a client got, and in `ProvisionPages`
it is what the page has yet to handle. `deployed` is history.

The pages add each tab's `phase`, the job it follows, `sessionStorage`'s key and
the probe. `Post` starts the job; its answer can be lost (`PostFails`), the stream
can break at any moment (`StreamLost`), the probe's 404 comes late
(`ProbeAnswered`), the user goes back or reloads. Job identifiers are unique, as
`uuid4` makes them. The stream that the probe opens to learn whether the job is
known is not counted: it is closed as soon as its status line is read.

The browser may refuse to write `sessionStorage`; `rememberJob` then attaches to the job
all the same, and only the reload path is lost. So `Posted` may leave what was kept as it
was, and nothing is stated of a followed job being remembered. What is (`EndToldOnce`) is
the other direction: `reported[p]`, a history, holds the jobs whose end the tab was told,
and none of them is kept or followed again. The browser is taken to refuse a removal only
where it refuses the writes too, and so has kept nothing. What registering the host left
is not followed either: a remote job that deployed and could not register fails, and
nothing is stated of the machine it installed.

### ProjectFiles

`system`, `backup`, `profile`, `config[c]` and `sidecar` are the files of one
project: the legacy `system.json`, its backup, the machine profile with the configs
it declares, the config files and the workbench's sidecar. A file's content is the
number of the save or migration that wrote it, which is also its stamp: an atomic
replace gives the file another inode. So a file that is rewritten never has an
earlier stamp again, as `_file_stamp` intends; the model does not ask what happens
if inode, size and time all repeat. `lock` is `_WRITE_LOCK`, `cache` the entry of
`_READ_CACHE`, and `pc`, `op`, `new`, `owned`, `todo`, `read` a request's place and
locals.

A save is `Ask`, `BeginSave` (or `RefuseSave`), then `write_project`: `ReadOwned`,
`WriteConfig` for each config, `WriteProfile`, `ListOrphans`, `Retire` for each
orphan, and `WriteSidecar`. A list or get of a project with a `system.json` first
migrates it, without the lock: `Parse`, the same `write_project`, then `OpenBackup`,
`WriteBackup` (it is written in place, so a crash can leave it partial) and
`RetireSystem`. A get goes on with `read_project`: `Look` in the cache, `Check` of
each stamp, or `Stat`, `ReadProfile`, `ReadSidecar`, `StampConfig` and `ReadConfig`
for each config and `StoreInCache`. `WriteFails`, `ParseFails` and `ReadFails` stop a
request anywhere an exception can, `Crash` stops the workbench.

Initially the project is a legacy one or one that an earlier workbench wrote, which
may have left configs that are no longer declared. Other legacy files, which no
reader looks at after the migration, are left out, and so is the text of the
documents: a migration declares every config. `saved`, `floor`, `raced` and
`crashes` are history. `raced` says that a save began while the project was being
migrated or had yet to be; four of the properties do not hold then, and
`MCProjectSaved.cfg` shows one way it goes wrong.

### Workspace

`dir[n]` is the project in directory n: whether it is whole, the directory it deploys
into (`key`), whether its sidecar says it was authored here, seeded by onboarding or
synced from the installed profile, and two numbers, the save its content is of and the
content its `.provisioned.json` stands for. The first, `edit`, is of the files that the
record covers: `_fingerprints` leaves the sidecar's `meta` and `host_paths` out, so a save
that changed only these gives another document and the same `edit`. `lock` is `_WRITE_LOCK`, `tab` the document a
browser tab holds (and the `edit` it was read at), and `op`, `pc`, `made`, `saw` and `staged` an operation's request, place
and locals. `own`, `checked` and `exposed` are history: `exposed` says that the
project was made, renamed or saved while another operation was on its name, or that an
operation on it was killed.

A creation, import or duplicate is `Check` (the name and the deploy directory are free,
under the lock), `Claim` (mkdir) and `Fill`, or `FillFails`. A rename, a delete and a save
are one step under the lock. A job or a shell command is `Look`, `Wipe` if forced, the
same creation, `Record` and, for a job, `Stamp`, which marks the project as onboarding's.
Re-provisioning is `Compare`, `Stage`, `Remove` and `Move`. The start of the server is
`Choose` and `Resync`. A command of the shell skips the lock, as it is another process.
`Kill` ends a command, or the server with all it is doing.

Abstractions: the content of a project is the number of the save it is of; two
provisionings give the same content; the deploy directory of an imported project is any
(the document says it). The switch of the module-wide systems root inside
`provision_project` is left out: both roots are the same directory except in the staging
call of a shell command, a process that serves no requests. `onboarding.py` reads
`~/.anolis/systems`, and all else the systems root, which `ANOLIS_DATA_DIR` moves:
`Elsewhere` is `None` where the two are one directory, and otherwise whether there is a
project in the one that onboarding reads, which no operation here changes. What a failed copy of a
`--system` project or of a duplicate leaves is a directory that is not whole.

### Deploy

`profile` and `config` are the save that wrote the machine profile and the one that wrote
the configs, `saving` a save between the two. Per operation, `pc` is where the workbench is
with it, `pin` the version whose `install.sh` it runs, `seen` what the downgrade check
found, `copy` what was copied of the project, `staging` its private directory on the
target, `script` its `install.sh` there, `outcome` and `left` what the caller was told.
Per machine there are the `installed` version, the one kept in `.prev`, and the service.

A deploy is `Materialize` and `CopyFiles` (the copy beside which a save may run),
`CheckDowngrade`, `Fetch`, for a remote one `MakeStaging` and `Push`, then `RunScript` and
`Collect` or `TimeOut`, `Cleanup` and, for a remote job, `RegisterRead` and `RegisterWrite`
in two steps, because the file is opened for writing before it is written. `TargetFails`,
`Refuse`, `RegisterFails` and `Kill` end one at each of these places. `install.sh` is
external: `InstallSwaps` moves the installed version to `.prev` and puts its own, `InstallEnds`
ends it, with or without success, also after its caller has timed out or was killed.
A rollback, a service command and a target check are shorter sequences of the same steps.

Abstractions: what is parsed out of the script's output, dry runs, and the bundle, which
is a copy with no target, are left out. `disturbed`, `registered` and `clashed` are history.

### RemoteCommand

`output`, `sent` and `read` count what the command has yet to write, what the transport
filed and what `_collect` read, per stream; `eof`, `closed` and `status` are the channel's
flags. A round of `_collect` is `ReadFlag`, `Recv` until `Drained` for one stream and then
the other, `Test`, and at last `Return`; `RunTimesOut` ends it before it has an answer. The server's side is
external: `Data` within the window, `ExitStatus` at any time, `EndOfOutput` after all the
data, and `Close` when the connection is lost.

### OperateProxy

`candidates`, `resolved`, `watched` and `last` are the module globals of the two caches, each
with the key it is kept under; `launched`, `external`, `conf`, `files`, `secret` and `token` are
the world they were read from, as stamps where the code keeps stamps. `saved[j]` is the
`http.port` that the document of project j gives on disk, with `docs` the documents' stamp,
and `launched` the project and the port that its runtime was started with: `SaveDocument`
moves the one and not the other. A request is `Request`, `LookUp`, on a miss `ReadStatus`,
which finds the project that runs, and `ReadDocument`, which reads the port that is then
saved of it, or, for an external runtime, `FindPorts`, `KeepPorts`, `Probe` and `ReadConfig`;
then `ReadToken`, `Rekey`, `File`, and `Send`, which on a refused connection resolves once more.
A software stop goes to `last` at once if there is one. `steady[t]` says that one runtime,
with a fresh copy of its token, has run since the request came; `misfiled` that something
was filed under a key that was read after it and is newer. Left out: the projects' own ports
as candidates of an external runtime (`FindPorts` has that of `runtime.yaml`); a launched
installed project, whose target is `runtime.yaml`'s; a remote override, which skips all of
it; the relay of an event stream's chunks; the service's install and
uninstall, which keep nothing in the workbench.

### ProviderImports

`envelope` and `sidecar` are the two files of one kind and version; `pinned` says whether a
project pins it. An import is `ReadRecorded`, `CheckTarget`, `Publish` (a hard link, or
`Create` and `Write` where the file system has none) or `Replace`, and `WriteSidecar`; a
removal is `CheckPinning`, `Unlink` and `UnlinkSidecar`; a listing is `ReadListed` and `Show`.
Each can fail or be killed between any two. `late`, `alone`, `mixed` and `last` are history.

## 3. The runs

| Run | Checks | Bounds and why they are enough |
| --- | --- | --- |
| `launcher` | `TypeOK`, `NoUntracked`, `OneManaged`, `OneRecorded`, `StopsOnlyOwn`, refinement of `RuntimeSlot` | two threads (one in the lock, one beside it or waiting), two projects (own and another's), two pids (a runtime and its successor), one crash. Threads, projects and pids are interchangeable and no module orders them, so symmetry is sound |
| `launcher_live` | `RequestAnswered` | one project, one process that cannot be ended, one crash, two threads: enough for one to hold the lock while the other waits |
| `log_stream` | `TypeOK`, `InOrder`, `NoGap`, `ClosedUnsubscribed` | a detached runtime and two that follow it, three lines (`MaxTotal`) however these two share them, ring and queue of two, so that both overflow, also from a single runtime; one stream (streams share only the subscriber set). The constraint `FewLines` stops at `MaxTotal` lines; the theorems have no such bound |
| `provision_jobs` | `TypeOK`, `Replays`, `FailureExplained`, `SecretZeroed`, `DoneIsDone`, `StreamEnds` | one job of any kind (jobs share nothing but the table), two streams, two progress reports |
| `provision_pages` | `PagesTypeOK`, `ShownTruly`, `EndToldOnce` | two jobs, two streams, one page and one export; no progress report, which no outcome depends on |
| `provision_pages_live` | `PageSettles` | one job, two streams, both tabs, one progress report |
| `project_files` | `TypeOK`, `DeclaredExist`, `SaveExact`, `ReadFresh`, `CacheTrue`, `LegacyUntilDone` | two requests (one writes, one reads or migrates beside it), the manual variant's config and another one (one always declared, one that comes and goes), two saves or migrations after the one before this workbench, one get at a time (gets only share the cache, whose entry is replaced whole), one crash |
| `workspace` | `KeysDistinct`, `OnboardingTrue`, `UserWorkKept` | two projects and two deploy directories, three operations (a rename needs a project to move and another operation to take the name), one save, one kill, and onboarding's directory the one the projects are in (`Elsewhere = None`). Only the operations are permuted, and states that differ in what nothing reads any more (`View`: a killed operation's locals, the tab after the last save) are one |
| `deploy` | `StagingSafe`, `InstallTrue`, `RegisteredStays`, `NoSilentDowngrade` | two operations of five kinds on two machines, or on the same one, two versions with the guard at the second, one save of the project or one kill: the constraint `OneDisturbance` follows a behaviour that has both only one step into the second, and one with operations on two machines only one step into either (these share the registry and the project's files, which operations on one machine share too; the theorems have no such bound). A `cli` deploy is a `remote` one that does not register, a `restart` a `stop`; both are left out of this run |
| `remote_command` | `AllCollected`, `Returns` | up to three items on each of two streams and a window of two: more output than the window holds, on either or both |
| `operate_proxy` | `CacheTrue`, `SteadyServed` | two requests, one project, two ports, one launch, one save of its document, one rewrite of `runtime.yaml`, one new token; by the constraint `Unfiled` not both the save and the rewrite, and at most three of a launch, an exit, a save, a rewrite and a rotation. A save of a project beside another's runtime is left to the theorem. The constraint also stops where `misfiled` becomes true: it never becomes false again and both properties then hold trivially, so nothing is missed |
| `provider_imports` | `ToldTrue`, `ImportKept` | three operations (two that overlap and one that meets what they left), two contents, one given repo beside the default, one kill |

Deadlock is checked in the runs of the launcher, of the project's files and of the proxy.
The others may stop: a run's jobs, operations, lines or runtimes are bounded.

### What the code does not keep

Nine more configurations are not runs: each checks one statement of the repository's own
documents or comments that the code does not keep, and TLC prints a counterexample.
`PROJECT.json` ("findings") quotes each line.

| `tlc -config` | Statement, and how it fails |
| --- | --- |
| `MCLauncherProjects.cfg MCLauncherProjects` | *A delete is blocked while the project runs* (`DeleteBlocked`). `_spawn` writes `running.json` in place; a poll that reads it empty takes it for unparsable and unlinks it after the write, and the delete's check reads nothing else |
| `MCLogStreamExit.cfg MCLogStream` | *A log stream stays open until the runtime exits* (`ClosesAtExit`). It also stays open afterwards, when the runtime exits between the replay and the subscription |
| `MCProvisionClosing.cfg MCProvisionPages` | *The closing frame comes without done or error only if the job reported neither* (`ClosingOnlyIfSilent`). The worker sets its status before its last event, and the stream looks at them in the other order |
| `MCProvisionForgotten.cfg MCProvisionPages` | *Only a 404 forgets a job* (`ForgottenOnlyIfGone`). The 404 for an earlier job removes the later one's key |
| `MCProjectSaved.cfg MCProjectFiles` | *An interrupted migration simply retries; writes of a project do not interleave* (`SavedStays`). A migration runs in any read, outside the write lock. Between its sidecar and the removal of `system.json`, for good if it dies there, a save is accepted, and the next read migrates again over what was saved |
| `MCDeployLeft.cfg MCDeploy` | *A failure to remove the staging directory is reported* (`LeftIsTold`). `remove_private_dir` does not look at the exit status of its `rm -rf`, and a lost answer of `mktemp` leaves a directory nobody knows the name of |
| `MCOperateProxyKeys.cfg MCOperateProxy` | *A kept resolution holds until its key changes; the key is of what was read* (`AlwaysServed`). Both caches compute a key after they have read what it stands for, so a file replaced in between is filed as read. There is one such place for the ports (`KeepPorts`) and one for the target and token (`Rekey`); TLC prints the first it meets |
| `MCImportsAnswer.cfg MCProviderImports` | *Nothing reads an orphaned sidecar* (`AnswerAlwaysTrue`). After a `--replace` that was killed before its sidecar, an import of the new content takes the repo from the old content's sidecar and answers "unchanged" with it |
| `MCWorkspaceOnboarding.cfg MCWorkspace` | *The project onboarding's job seeds does not count* (`OnboardingAlwaysTrue`). It counts until it is marked, for good if the workbench is killed before that; a re-provision's staging directory counts while it is there |

`MCWorkspaceOnboarding.cfg` with `Elsewhere = FALSE` shows a fourth way for first run: with
`ANOLIS_DATA_DIR` set, `onboarding.py` reads a directory in which nothing is made, and no
project of the user's ends it.

Where a checked property holds but for such a case, the property names the case
(`misfiled`, `mixed`, `exposed`, `raced`, `left`, `Settled`, `Elsewhere`), so that it says
that nothing else goes wrong.

More observations, which no configuration states:

- A save of the running project's `http.port` or launch variant moves the proxy's target at
  once, and its runtime is not reached until it is launched again, although the comment at
  `server/routes/operate.py:122-125` has the proxy address the running project's port. In
  `SteadyServed` such a save ends `steady`.
- A save that changes only `host_paths` is no edit for `_reprovision`
  (`core/installer.py:32-33`), which replaces the project and loses it. `UserWorkKept` says
  so: it protects a project with `edit` other than 0.
- `duplicate_project` keeps `meta.installed_from` in the copy, so the next start may take a
  user's copy that has the installed project's name for its own earlier import and replace
  it, against *Never replaces a project that is not such a sync*
  (`core/projects.py:720-722`). `UserWorkKept` excepts what is marked as an import, which is
  never one that can be edited.
- `save_project` makes the project anew if another tab has deleted it.
- A migration that dies inside the write of its backup leaves a partial one that its retry
  keeps, before it unlinks the original.
- A `.reprovision-*` directory that a killed command leaves stays, and the first-run status
  counts it as a project.

Three failures are not modelled: a write of `fleet.yaml` that truncates it and then raises
(`core/fleet.py:287-290`; a kill there is), a `proc.wait()` after the kill that never returns
(`core/launcher.py:824`, which has no timeout), and the pass of a remote command's deadline
while its stream is stuck, on which `Returns` does not rest.

### Fairness

Liveness is checked under weak fairness of every thread that has a step to take:
a request thread, a reader, a worker, a stream, and the operating system
schedules each. Strong fairness is assumed of `Acquire` alone: a thread that waits
on a lock that is free again and again gets it at last. No request, exit of a
runtime, progress of a deploy beyond its bound, crash, lost answer or user's
action is assumed to happen. `launcher_live` holds although a process may refuse
to end, because `_stop_locked` waits with timeouts. In the pages an event that has
reached the browser is handled, and a stream whose server died is reported lost,
as the event source does. In `RemoteCommand` the collector keeps polling and the server
sends what it has to send, but neither the deadline nor the loss of the connection is
assumed to come, and a command that never ends would be one with endless output, which
the bound excludes: `Returns` says that the window cannot stop one that would end.

## 4. The proofs

Eight modules prove theorems, for any values of the constants:

| Module | Proves |
| --- | --- |
| `LauncherProofs` | `LauncherTypeOK`, `LauncherNoUntracked`, `LauncherOneManaged`, `LauncherOneRecorded`, `LauncherStopsOnlyOwn`, `LauncherSlot` (the refinement of `RuntimeSlot`): all safety that the run checks |
| `LogStreamProofs` | `LogTypeOK`, `LogInOrder`, `LogNoGap`, `LogClosedUnsubscribed`: all that the run checks |
| `ProvisionProofs` | of `ProvisionJobs`: `JobsTypeOK`, `JobsReplays`, `JobsFailureExplained`, `JobsSecretZeroed`, `JobsDoneIsDone`; of `ProvisionPages`: `PagesTypes`, `PagesShownTruly`, `PagesEndToldOnce`: all safety that their runs check |
| `ProjectFilesProofs` | `FilesTypeOK`, `FilesDeclaredExist`, `FilesSaveExact`, `FilesLegacyUntilDone`, `FilesCacheTrue`, `FilesReadFresh`: all that the passing run checks |
| `WorkspaceProofs` | `WorkspaceTypeOK`, `WorkspaceKeysDistinct`, `WorkspaceOnboardingTrue`, `WorkspaceUserWorkKept`: all that the run checks |
| `DeployProofs` | `DeployTypeOK`, `DeployStagingSafe`, `DeployInstallTrue`, `DeployRegisteredStays`, `DeployNoSilentDowngrade`: all that the run checks; of `RemoteCommand`: `RemoteTypeOK`, `RemoteAllCollected` |
| `OperateProxyProofs` | `ProxyTypeOK`, `ProxyCacheTrue`, `ProxySteadyServed`: all that the run checks |
| `ProviderImportsProofs` | `ImportsTypeOK`, `ImportsToldTrue`, `ImportsImportKept`: all that the run checks |

The only assumptions are the modules' own ASSUMEs on their constants, which TLC evaluates
in each run: `PagesAssumption`, that `None` is no result a page shows, and the like. Every
invariant and every action property that the passing runs check is a theorem. Every proof
has the same shape: `Init => Inv`, one lemma per action that it keeps `Inv`, and the theorems
from `[]Inv`; lemmas about what most actions have in common (an operation that goes on or
ends, a part of the state that is left alone) come first.

*The launcher's argument.* Neither safety property is inductive: that a second
Popen starts no second runtime depends on what the same thread saw many steps
earlier. The strengthening `IInv` adds four parts. `LockInv`: a thread past the
running check, and a launch or restart in its snapshot, holds the lock. `QuietInv`:
a holder that found nothing tracked knows that no runtime of this workbench runs,
until its own Popen; it holds because a runtime of this workbench that runs is
tracked or in a lock holder's hands (`NoUntracked`), and readers clear the state
only after their process has ended. `HeldInv`: from Popen until the request ends,
and while a stop ends the tracked runtime, the one that can run is the one the
request holds. `TrackInv`: by the time the reader is started the process is
published, or has ended. `OwnerInv` gives each process a project. Each action is
one step of the proof. The refinement follows from the same invariant: `Popen`
fills the slot, which `QuietInv` says is empty, and every other step empties it or
leaves it.

Whom a stop ends needs more: `AimedInv`, inductive on top of `IInv`. `AimInv` says what the
holder of the lock knows from its snapshot, step by step of the scan: which projects can
still have a live process in their running.json, and whose runtime `_state` tracks. It
stays so because only the holder starts one. `SameInv` says that beside a runtime of this
workbench none of another project is recorded (the scan found none before the launch), so
the record that a launch adds is the only one (`OneRecorded`), and what a stop finds in
its second discovery is its own project's (`NamedInv`, `StopsOnlyOwn`). No process needs
to end for this: it holds for any `Stubborn`.

*The jobs' argument.* What a stream tells depends on what the worker had done when
it told it, so `WorkInv` ties each field of a job to its worker's place: a worker
past its deployment has deployed, one that reports the end of a bundle has stored
it, and a status that is failed means the error was kept, because the worker keeps
it first. `StreamInv` says that a stream that serves has a job. With these the
checked properties are inductive together; `Replays` needs only `SentInv` besides: a stream
has sent no more events than there are, and until it ends its client has just those.

*The pages' argument.* What a tab shows was told to it over a stream, so `WireInv` says of
each frame under way what it tells of the job its stream is about: a frame for "done" that
the job was deployed, one for "error" that the error is kept, a closing frame that the one
or the other holds. `Follows(p)` says that the stream a tab reads is about the tab's own job,
by the tab's phase, and what its memory holds meanwhile. A frame may be read long after it
was sent; it is still true because what these say of a job is never taken back while it is
referred to (`Grows`). `PagesSpec` does not imply `Spec`: a browser that reads the wire is a
step the server's module does not have. So the lemmas about the jobs are proved for what the
server does (`ServerStep`), of which both next-state relations are made, and what a client
does (`ClientStep`) changes no job: it only takes frames off the wire and opens free streams.
`EndToldOnce` needs `Told(p)`: what was reported to a tab is none of what it keeps, follows
or is about to follow. A post makes a job that no tab was told of, and each step that reports
an end forgets what is kept, which is why a stale key cannot come back.

*The files' argument.* A profile may be written because every config it declares was
written before and is still there, so `FilesInv` follows each writer: which configs
it has put in place, and which it has yet to retire. That they stay is the hard
part: saves exclude each other because a save that writes holds the lock
(`PlaceInv`), and migrations, which hold nothing, only ever add configs, and are not
beside a save as long as `raced` is false (`SoloInv`). `LegacyUntilDone` needs none
of this; `RetiredInv` says how far each migration has come, for any number of them
at a time.

*The reads' argument.* A read holds no lock, so what it holds can be of several saves, and
the proof says what its stamps then mean. Every writer writes a file at most once
(`WriterInv`), so a stamp that a file no longer has never comes back: it is `Over`. Each file
of a read was therefore read as its stamp says, or its stamp is over and betrays it
(`Loaded`). The one stamp that can come back is that of a missing config; but a declared one
is missing only after its profile was replaced, whose stamp is over (`Excused`). These are
`ReadInv`, step by step of the read, and give `CacheTrue`. For `ReadFresh`, `SavedInv` says
that until a save meets a migration, after the first save only saves write, each later one
with a later number, so that nothing declared on disk is older than `saved`; `FreshInv`
follows a get from there, through the cache or the files.

*The log stream's argument.* What matters is not what a client was shown but what it is
bound to see: `Seen(s)`, the lines shown followed by the queue, or only the former once the
handler leaves. In it the lines are in order and, after the replay, without a gap. A reader
extends it a line at a time and may be between two subscribers, so `Due(s, r)` says whether
s is yet to be given the line that r has read last, `ReachOK` that s has seen no line
beyond that, and `LastOK` that it was given the one before, unless its queue was full. Two
readers are kept apart because lines of different runtimes are never compared.

*The workspace's argument.* `Sound` says that a project is one of the user's editing or a sync
of the installed profile, never both, so what a start replaces was never saved by a user.
`PlaceInv` says what kind of operation can be where and what it
then holds, `MadeInv` and `WorkInv` what it holds and what its directory is meanwhile, unless
another operation was on its name (`Undisturbed`), `DirInv` whose a project is that no job is
about to mark. Distinct keys are not inductive by themselves: an operation chooses a key and
makes its directory steps later, so `KeyInv` adds that what one holds in the meantime
(`Holding`) is nobody else's. That is why a project made beside another one, by a process the
lock does not hold back, is not `checked`.

*The deploys' argument.* Nothing relates two operations but the registry and the copied
project, so `LocalOK(d)` follows each by its place: what its staging directory and script may
be (`StagingOK`, `ScriptOK`), what it told (`ToldOK`), that its copy is of one save as long as
none ran beside it (`CopyOK`, with `SaveOK` for the project itself), and that it went past the
check only with a version that is not refused (`CheckOK`). A lowered version is then one
that changed after the check. `RegistryOK` says that registrations that do not overlap write
all there was.

*The command's argument.* What a drain leaves read is all there is once the flag was up when
the drain began, as nothing is filed after it (`DrainInv`): the reason the code reads the flag
first.

*The proxy's argument.* A request reads the world in up to six steps, and nothing holds the
world still. But every stamp that a key is made of only grows, so a key that is not current
never is again (`Past`): what a thread read after it took its key, and what was filed under
it, is right as long as that key is current, and says nothing otherwise (`Reading`,
`CacheInv`). A resolution that found a launched runtime reads its
project's document after it took the key that stamps the documents, so a save in between
makes the key a past one. The parity of running.json's stamp says whether a runtime was
launched (`WorldInv`), which is why a key that is still current also means that what was not found is
not there. The two places where the code takes a key or a stamp after it read are what
`misfiled` marks, and only what is filed there can be wrong. `SteadyServed` says what becomes
of a request while the world stays as it found it, so `Steady` follows it: at each step it
holds the runtime's address and token, or a remembered address that is about to be tried,
found silent, and never tried again.

*The imports' argument.* `Written` says that a sidecar's content is that of the import that
wrote it, wherever the sidecar was read (`OriginOK`, `SidecarOK`); `StageOK` that an import
nothing overlapped finds its earlier steps still done; `PinOK` what a removal saw.

Both inductive invariants of the pages and of the proxy were model-checked on the instances
of their runs before they were proved.

Only model-checked: liveness, as fairness and ENABLED are beyond the prover
(`RequestAnswered`, `StreamEnds`, `PageSettles`, `Returns`), and the counterexamples.

## 5. What is left

1. The event stream of the Operate page (`frontend/src/lib/operate-events.ts`): a source that
   fails while a reconnect is due, a stale timer that fires after a stop.
2. The desktop shell: the sidecar's start, health wait and stop, and the workbench that an
   earlier shell left on the port.
3. A rename of a project that meets its launch, in `LauncherProjects`.
4. The refinement of an abstract specification, as `RuntimeSlot` is of the launcher's, for the
   project files and for the jobs that the pages see.

Not to be modelled, and why: validators, schema handling and the exporter (pure,
sequential functions of documents); the updater (one download or query, nothing kept); the
server shell (stateless routing); packaging and validation commands (nothing shared); views
and forms of the frontend; the maintenance scripts. External, and modelled only as far as
the code uses it: what `install.sh`, systemd and the runtime do, paramiko's transport thread
and the ssh server, the operating system's processes and kills, the browser.
