---------------------------- MODULE ProvisionJobs ----------------------------
(***************************************************************************)
(* Provision jobs, server/routes/provision.py: each POST starts a worker   *)
(* thread that deploys and appends events to its ProvisionJob; each GET of *)
(* the status streams those events on a request thread of its own, which   *)
(* reads the job with no lock while the worker writes it. Jobs live in     *)
(* memory only. A job id is never given out twice.                         *)
(*                                                                         *)
(* One action is one write or read of the job that another thread can see. *)
(***************************************************************************)
EXTENDS Naturals, Sequences

CONSTANTS
    Jobs,          \* job ids
    Streams,       \* the status requests: bounds the connections of a run
    MaxProgress,   \* bounds the progress events of a job
    None           \* Python's None

ASSUME JobsAssumption ==
    /\ None \notin Jobs \cup Streams \cup {"install", "remote", "bundle"}
    /\ MaxProgress \in Nat

VARIABLES
    kind,      \* kind[j]: what job j does, None before it is created
    status,    \* status[j]: ProvisionJob.status, "unknown" while not in _jobs
    error,     \* error[j]: whether ProvisionJob.error is set
    events,    \* events[j]: the stages of ProvisionJob.events
    worker,    \* worker[j]: where the job's thread is
    secret,    \* secret[j]: the sudo password's buffer
    artifact,  \* the jobs in _bundle_artifacts
    deployed,  \* history: the jobs whose deployment or bundle was made
    spc,       \* spc[s]: where the thread that serves stream s is
    sjob,      \* sjob[s]: the job it streams
    sent,      \* sent[s]: how many events it has written
    wire,      \* wire[s]: the frames the client has yet to read
    gone       \* the streams whose client has gone away

jobVars    == <<kind, status, error, events, worker, secret, artifact, deployed>>
streamVars == <<spc, sjob, sent, wire, gone>>
vars == <<jobVars, streamVars>>

Kinds   == {"install", "remote", "bundle"}
Stages  == {"progress", "done", "error"}
Settled == {"done", "failed"}

\* A frame on the wire: an event, or the closing frame.
Event(stage) == [stage |-> stage, status |-> "running", error |-> FALSE]
Closing(j)   == [stage |-> "status", status |-> status[j], error |-> error[j]]
Frames == [stage : Stages \cup {"status"}, status : {"running"} \cup Settled, error : BOOLEAN]

TypeOK ==
    /\ kind \in [Jobs -> Kinds \cup {None}]
    /\ status \in [Jobs -> {"unknown", "running"} \cup Settled]
    /\ error \in [Jobs -> BOOLEAN]
    /\ events \in [Jobs -> Seq(Stages)]
    /\ worker \in [Jobs -> {"none", "work", "register", "store", "report", "settle",
                            "raise", "mark", "tell", "finally", "end"}]
    /\ secret \in [Jobs -> {"none", "held", "zeroed"}]
    /\ artifact \in SUBSET Jobs
    /\ deployed \in SUBSET Jobs
    /\ spc \in [Streams -> {"free", "drain", "check", "ended"}]
    /\ sjob \in [Streams -> Jobs \cup {None}]
    /\ sent \in [Streams -> Nat]
    /\ wire \in [Streams -> Seq(Frames)]
    /\ gone \in SUBSET Streams

Init ==
    /\ kind = [j \in Jobs |-> None]
    /\ status = [j \in Jobs |-> "unknown"]
    /\ error = [j \in Jobs |-> FALSE]
    /\ events = [j \in Jobs |-> <<>>]
    /\ worker = [j \in Jobs |-> "none"]
    /\ secret = [j \in Jobs |-> "none"]
    /\ artifact = {}
    /\ deployed = {}
    /\ spc = [s \in Streams |-> "free"]
    /\ sjob = [s \in Streams |-> None]
    /\ sent = [s \in Streams |-> 0]
    /\ wire = [s \in Streams |-> <<>>]
    /\ gone = {}

-----------------------------------------------------------------------------
(* Starting a job: start_install, start_remote, start_bundle.              *)

\* Only an install takes a password, and not every install has one.
CreateJob(j, k, held) ==
    /\ kind[j] = None
    /\ held => k = "install"
    /\ kind' = [kind EXCEPT ![j] = k]
    /\ status' = [status EXCEPT ![j] = "running"]
    /\ UNCHANGED <<error, events, artifact, deployed>>

StartJob(j, k, held) ==
    /\ CreateJob(j, k, held)
    /\ worker' = [worker EXCEPT ![j] = "work"]
    /\ secret' = [secret EXCEPT ![j] = IF held THEN "held" ELSE "none"]
    /\ UNCHANGED streamVars

\* Mutant: the worker's finally is trusted to zero the password.
StartFailsHeld(j, k, held) ==
    /\ CreateJob(j, k, held)
    /\ worker' = [worker EXCEPT ![j] = "end"]
    /\ secret' = [secret EXCEPT ![j] = IF held THEN "held" ELSE "none"]
    /\ UNCHANGED streamVars

\* The thread cannot be started: the job stays "running" for ever, and nobody
\* learns its id.
StartFails(j, k, held) ==
    /\ CreateJob(j, k, held)
    /\ worker' = [worker EXCEPT ![j] = "end"]
    /\ secret' = [secret EXCEPT ![j] = IF held THEN "zeroed" ELSE "none"]
    /\ UNCHANGED streamVars

-----------------------------------------------------------------------------
(* The worker: _run_install_job, _run_remote_job, _run_bundle_job.         *)

WorkerAt(j, from, to) ==
    /\ worker[j] = from
    /\ worker' = [worker EXCEPT ![j] = to]

Append1(j, stage) == events' = [events EXCEPT ![j] = Append(@, stage)]

Progress(j) ==
    /\ WorkerAt(j, "work", "work")
    /\ Len(events[j]) < MaxProgress
    /\ Append1(j, "progress")
    /\ UNCHANGED <<kind, status, error, secret, artifact, deployed, streamVars>>

\* The deployment, or the bundle, is made.
WorkDone(j) ==
    /\ WorkerAt(j, "work", CASE kind[j] = "remote" -> "register"
                             [] kind[j] = "bundle" -> "store"
                             [] OTHER -> "report")
    /\ deployed' = deployed \cup {j}
    /\ UNCHANGED <<kind, status, error, events, secret, artifact, streamVars>>

\* auto_register_host: the target joins the fleet.
Register(j) ==
    /\ WorkerAt(j, "register", "report")
    /\ UNCHANGED <<kind, status, error, events, secret, artifact, deployed, streamVars>>

\* Mutant: the artifact is not kept.
StoreNothing(j) ==
    /\ WorkerAt(j, "store", "report")
    /\ UNCHANGED <<kind, status, error, events, secret, artifact, deployed, streamVars>>

Store(j) ==
    /\ WorkerAt(j, "store", "report")
    /\ artifact' = artifact \cup {j}
    /\ UNCHANGED <<kind, status, error, events, secret, deployed, streamVars>>

ReportDone(j) ==
    /\ WorkerAt(j, "report", "settle")
    /\ Append1(j, "done")
    /\ UNCHANGED <<kind, status, error, secret, artifact, deployed, streamVars>>

\* Mutant: a status of another vocabulary.
SettleFinished(j) ==
    /\ WorkerAt(j, "settle", "finally")
    /\ status' = [status EXCEPT ![j] = "finished"]
    /\ UNCHANGED <<kind, error, events, secret, artifact, deployed, streamVars>>

SettleDone(j) ==
    /\ WorkerAt(j, "settle", "finally")
    /\ status' = [status EXCEPT ![j] = "done"]
    /\ UNCHANGED <<kind, error, events, secret, artifact, deployed, streamVars>>

\* Mutant: a failing deployment goes on as if it had been made.
RaisesIgnored(j) ==
    /\ worker[j] \in {"work", "register"}
    /\ worker' = [worker EXCEPT ![j] = "report"]
    /\ UNCHANGED <<kind, status, error, events, secret, artifact, deployed, streamVars>>

\* The deployment raises, or the fleet registry does after it.
Raises(j) ==
    /\ worker[j] \in {"work", "register"}
    /\ worker' = [worker EXCEPT ![j] = "raise"]
    /\ UNCHANGED <<kind, status, error, events, secret, artifact, deployed, streamVars>>

\* Mutant: the status is set in the place of the error.
KeepErrorLate(j) ==
    /\ WorkerAt(j, "raise", "mark")
    /\ status' = [status EXCEPT ![j] = "failed"]
    /\ UNCHANGED <<kind, error, events, secret, artifact, deployed, streamVars>>

KeepError(j) ==
    /\ WorkerAt(j, "raise", "mark")
    /\ error' = [error EXCEPT ![j] = TRUE]
    /\ UNCHANGED <<kind, status, events, secret, artifact, deployed, streamVars>>

SettleFailed(j) ==
    /\ WorkerAt(j, "mark", "tell")
    /\ status' = [status EXCEPT ![j] = "failed"]
    /\ UNCHANGED <<kind, error, events, secret, artifact, deployed, streamVars>>

ReportError(j) ==
    /\ WorkerAt(j, "tell", "finally")
    /\ Append1(j, "error")
    /\ UNCHANGED <<kind, status, error, secret, artifact, deployed, streamVars>>

\* zero_buffer, or the executor's close.
Finally(j) ==
    /\ WorkerAt(j, "finally", "end")
    /\ secret' = [secret EXCEPT ![j] = IF @ = "held" THEN "zeroed" ELSE @]
    /\ UNCHANGED <<kind, status, error, events, artifact, deployed, streamVars>>

-----------------------------------------------------------------------------
(* The status stream: get_status.                                          *)

StreamAt(s, from, to) ==
    /\ spc[s] = from
    /\ spc' = [spc EXCEPT ![s] = to]

\* A job that is not known is answered 404: the stream ends with no frame.
OpenStream(s, j) ==
    /\ StreamAt(s, "free", IF status[j] = "unknown" THEN "ended" ELSE "drain")
    /\ sjob' = [sjob EXCEPT ![s] = j]
    /\ UNCHANGED <<jobVars, sent, wire, gone>>

\* A frame reaches a client that is still there, or raises, or is lost in a
\* connection nobody reads.
Write(s, frame, to) ==
    \/ /\ spc' = [spc EXCEPT ![s] = to]
       /\ wire' = IF s \in gone THEN wire ELSE [wire EXCEPT ![s] = Append(@, frame)]
    \/ /\ s \in gone
       /\ spc' = [spc EXCEPT ![s] = "ended"]
       /\ UNCHANGED wire

\* Mutant: the events list is walked from its end.
SendEventLast(s) ==
    /\ spc[s] = "drain"
    /\ sent[s] < Len(events[sjob[s]])
    /\ Write(s, Event(events[sjob[s]][Len(events[sjob[s]])]), "drain")
    /\ sent' = [sent EXCEPT ![s] = @ + 1]
    /\ UNCHANGED <<jobVars, sjob, gone>>

SendEvent(s) ==
    /\ spc[s] = "drain"
    /\ sent[s] < Len(events[sjob[s]])
    /\ Write(s, Event(events[sjob[s]][sent[s] + 1]), "drain")
    /\ sent' = [sent EXCEPT ![s] = @ + 1]
    /\ UNCHANGED <<jobVars, sjob, gone>>

Drained(s) ==
    /\ StreamAt(s, "drain", "check")
    /\ sent[s] >= Len(events[sjob[s]])
    /\ UNCHANGED <<jobVars, sjob, sent, wire, gone>>

\* Not settled: sleep, and drain again.
CheckRunning(s) ==
    /\ StreamAt(s, "check", "drain")
    /\ status[sjob[s]] \notin Settled
    /\ UNCHANGED <<jobVars, sjob, sent, wire, gone>>

\* Mutant: the stream goes on after a job that failed.
CheckSettledDone(s) ==
    /\ spc[s] = "check"
    /\ status[sjob[s]] = "done"
    /\ Write(s, Closing(sjob[s]), "ended")
    /\ UNCHANGED <<jobVars, sjob, sent, gone>>

CheckSettled(s) ==
    /\ spc[s] = "check"
    /\ status[sjob[s]] \in Settled
    /\ Write(s, Closing(sjob[s]), "ended")
    /\ UNCHANGED <<jobVars, sjob, sent, gone>>

\* The connection breaks, with the frames in it.
Drop(s) ==
    /\ spc[s] # "free"
    /\ s \notin gone
    /\ gone' = gone \cup {s}
    /\ wire' = [wire EXCEPT ![s] = <<>>]
    /\ UNCHANGED <<jobVars, spc, sjob, sent>>

\* The workbench dies and is started again: no job and no stream is left.
Crash ==
    /\ status' = [j \in Jobs |-> "unknown"]
    /\ worker' = [j \in Jobs |-> IF kind[j] = None THEN "none" ELSE "end"]
    /\ secret' = [j \in Jobs |-> "none"]
    /\ artifact' = {}
    /\ spc' = [s \in Streams |-> IF spc[s] = "free" THEN "free" ELSE "ended"]
    /\ UNCHANGED <<kind, error, events, deployed, sjob, sent, wire, gone>>

-----------------------------------------------------------------------------

Work(j) ==
    \/ Progress(j) \/ WorkDone(j) \/ Register(j) \/ Store(j) \/ ReportDone(j) \/ SettleDone(j)
    \/ Raises(j) \/ KeepError(j) \/ SettleFailed(j) \/ ReportError(j) \/ Finally(j)

Serve(s) == SendEvent(s) \/ Drained(s) \/ CheckRunning(s) \/ CheckSettled(s)

\* A client learns a job's id from the answer to its POST, so never that of a
\* job whose thread did not start.
Answered(j) == kind[j] # None /\ ~(status[j] = "running" /\ worker[j] = "end")

Next ==
    \/ \E j \in Jobs, k \in Kinds, held \in BOOLEAN : StartJob(j, k, held) \/ StartFails(j, k, held)
    \/ \E j \in Jobs : Work(j)
    \/ \E s \in Streams : \/ Serve(s) \/ Drop(s)
                          \/ \E j \in Jobs : Answered(j) /\ OpenStream(s, j)
    \/ Crash

Spec == Init /\ [][Next]_vars

\* The threads of the jobs and of the streams are scheduled; a deployment ends,
\* since the executor runs each command under a deadline.
FairSpec ==
    /\ Spec
    /\ \A j \in Jobs : WF_vars(Work(j))
    /\ \A s \in Streams : WF_vars(Serve(s))

-----------------------------------------------------------------------------
(* Properties. In this module no client reads the wire, so it holds all that  *)
(* a client got.                                                              *)

\* A stream replays the job's events from the first, in order and none twice,
\* whenever it is opened (a reloaded page reattaches so, #348), and then at most
\* the closing frame.
Replays ==
    \A s \in Streams \ gone :
        /\ Len(wire[s]) \in {sent[s], sent[s] + 1}
        /\ \A i \in 1..sent[s] : wire[s][i] = Event(events[sjob[s]][i])
        /\ Len(wire[s]) > sent[s] => wire[s][sent[s] + 1].stage = "status"

\* Whoever reads that a job failed, reads why: the closing frame is put together
\* while the worker is still writing the job.
FailureExplained ==
    \A s \in Streams : \A i \in 1..Len(wire[s]) :
        wire[s][i].status = "failed" => wire[s][i].error

\* No password is left in memory once nobody works for its job any more, also
\* when the job never ran.
SecretZeroed == \A j \in Jobs : worker[j] = "end" => secret[j] # "held"

\* A job told as done has done its work, and its bundle can be downloaded: the
\* status is all that download_bundle goes by.
DoneIsDone ==
    \A j \in Jobs : status[j] = "done" =>
        j \in deployed /\ (kind[j] = "bundle" => j \in artifact)

\* Every stream ends, however the job does, and whether or not its client stays.
StreamEnds == \A s \in Streams : spc[s] # "free" ~> spc[s] = "ended"
=============================================================================
