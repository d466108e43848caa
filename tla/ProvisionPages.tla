---------------------------- MODULE ProvisionPages ----------------------------
(***************************************************************************)
(* Provision jobs as the pages see them. frontend/src/routes/Onboarding    *)
(* starts an install, follows its stream, keeps the job's id in            *)
(* sessionStorage, if that takes it, so that a reload reattaches to it,    *)
(* and forgets it when the job reported its end or the server no longer    *)
(* knows it.                                                               *)
(* Commission's Export Bundle follows a bundle job and downloads the file. *)
(*                                                                         *)
(* A page is one thread of JavaScript: one action is one callback, from an *)
(* event to the next await.                                                *)
(***************************************************************************)
EXTENDS ProvisionJobs

CONSTANTS
    Pages,        \* the tabs that show Onboarding
    Exporters     \* the tabs that export a bundle

\* What a page can show. "done" and "error" come from the job's own last event,
\* with the summary or the preflight it carries; "status done" and "status
\* failed" from the closing frame, which carries neither.
Results == {"done", "error", "status done", "status failed", "lost", "saved", "refused"}

ASSUME PagesAssumption == None \notin Results

VARIABLES
    phase,     \* phase[p]: choose, posting, running, result; downloading
    posted,    \* posted[p]: the job its POST started, while it waits for the answer
    result,    \* result[p]: what the page shows of the job's end
    job,       \* job[p]: the job the page follows or followed
    source,    \* source[p]: the stream of its EventSource, or None
    kept,      \* kept[p]: the job in sessionStorage, or None
    probes,    \* probes[p]: the jobs forgetIfGone is asking the server about
    \* History:
    reported   \* reported[p]: the jobs whose end was reported to tab p

pageVars == <<phase, posted, result, job, source, kept, probes, reported>>
allVars  == <<vars, pageVars>>

Tabs == Pages \cup Exporters

PagesTypeOK ==
    /\ TypeOK
    /\ phase \in [Tabs -> {"choose", "posting", "running", "result", "downloading"}]
    /\ posted \in [Tabs -> Jobs \cup {None}]
    /\ result \in [Tabs -> Results \cup {None}]
    /\ job \in [Tabs -> Jobs \cup {None}]
    /\ source \in [Tabs -> Streams \cup {None}]
    /\ kept \in [Tabs -> Jobs \cup {None}]
    /\ probes \in [Tabs -> SUBSET Jobs]
    /\ reported \in [Tabs -> SUBSET Jobs]

PagesInit ==
    /\ Init
    /\ phase = [p \in Tabs |-> "choose"]
    /\ posted = [p \in Tabs |-> None]
    /\ result = [p \in Tabs |-> None]
    /\ job = [p \in Tabs |-> None]
    /\ source = [p \in Tabs |-> None]
    /\ kept = [p \in Tabs |-> None]
    /\ probes = [p \in Tabs |-> {}]
    /\ reported = [p \in Tabs |-> {}]

-----------------------------------------------------------------------------
(* Starting and following a job: startJob, attach, doExportBundle.         *)

\* The POST: it starts the job on the server whether or not its answer is read.
\* "Install anyway" and another export start from the result of the last one.
Post(p, j) ==
    /\ phase[p] \in {"choose", "result"}
    /\ \E k \in (IF p \in Pages THEN {"install", "remote"} ELSE {"bundle"}) : StartJob(j, k, FALSE)
    /\ phase' = [phase EXCEPT ![p] = "posting"]
    /\ posted' = [posted EXCEPT ![p] = j]
    /\ UNCHANGED <<result, job, source, kept, probes, reported>>

\* The answer does not arrive: the page shows why, and the job runs on.
PostFails(p) ==
    /\ phase[p] = "posting"
    /\ phase' = [phase EXCEPT ![p] = IF result[p] = None THEN "choose" ELSE "result"]
    /\ posted' = [posted EXCEPT ![p] = None]
    /\ UNCHANGED <<vars, result, job, source, kept, probes, reported>>

\* attach: a new EventSource on the job's status.
Attach(p, s, j) ==
    /\ OpenStream(s, j)
    /\ phase' = [phase EXCEPT ![p] = "running"]
    /\ result' = [result EXCEPT ![p] = None]
    /\ source' = [source EXCEPT ![p] = s]
    /\ job' = [job EXCEPT ![p] = j]

\* The answer to the POST: rememberJob, attach. A page whose sessionStorage refuses
\* the write attaches all the same, and what was kept before stays.
Posted(p, s) ==
    /\ phase[p] = "posting"
    /\ Attach(p, s, posted[p])
    /\ posted' = [posted EXCEPT ![p] = None]
    /\ \/ p \in Pages /\ kept' = [kept EXCEPT ![p] = posted[p]]
       \/ UNCHANGED kept
    /\ UNCHANGED <<probes, reported>>

-----------------------------------------------------------------------------
(* The stream's events: onEvent, finish, forgetIfGone.                     *)

\* source.close(): the client is gone from its stream.
CloseSource(p) ==
    /\ gone' = gone \cup {source[p]}
    /\ wire' = [wire EXCEPT ![source[p]] = <<>>]
    /\ source' = [source EXCEPT ![p] = None]

Finish(p, how) ==
    /\ CloseSource(p)
    /\ phase' = [phase EXCEPT ![p] = "result"]
    /\ result' = [result EXCEPT ![p] = how]

Reads(p, stage) ==
    /\ source[p] # None
    /\ wire[source[p]] # <<>>
    /\ Head(wire[source[p]]).stage = stage

ReadProgress(p) ==
    /\ Reads(p, "progress")
    /\ wire' = [wire EXCEPT ![source[p]] = Tail(@)]
    /\ UNCHANGED <<jobVars, spc, sjob, sent, gone, pageVars>>

\* Mutant: the end of a job is finished as a lost stream is.
ReadEndUnforgotten(p, stage, how) ==
    /\ p \in Pages
    /\ Reads(p, stage)
    /\ Finish(p, how)
    /\ reported' = [reported EXCEPT ![p] = @ \cup {job[p]}]
    /\ UNCHANGED <<jobVars, spc, sjob, sent, posted, job, kept, probes>>

\* finishJob: a job that reported its end is not to be reattached to. removeItem fails
\* only where the page may not use its storage, and has kept nothing.
ReadEndAs(p, stage, how) ==
    /\ p \in Pages
    /\ Reads(p, stage)
    /\ Finish(p, how)
    /\ kept' = [kept EXCEPT ![p] = None]
    /\ reported' = [reported EXCEPT ![p] = @ \cup {job[p]}]
    /\ UNCHANGED <<jobVars, spc, sjob, sent, posted, job, probes>>

\* Mutant: the closing frame means that the install went well.
ReadEndAnyhow(p) ==
    \/ ReadEndAs(p, "done", "done")
    \/ ReadEndAs(p, "error", "error")
    \/ ReadEndAs(p, "status", "status done")

ReadEnd(p) ==
    \/ ReadEndAs(p, "done", "done")
    \/ ReadEndAs(p, "error", "error")
    \/ /\ Reads(p, "status")
       /\ ReadEndAs(p, "status", IF Head(wire[source[p]]).status = "done"
                                 THEN "status done" ELSE "status failed")

\* The export: done starts the download, a failure ends it, and the closing
\* frame of a job that is done is no event it knows.
ExportReads(p) ==
    /\ p \in Exporters
    /\ \/ /\ Reads(p, "done")
          /\ CloseSource(p)
          /\ phase' = [phase EXCEPT ![p] = "downloading"]
          /\ UNCHANGED result
       \/ Reads(p, "error") /\ Finish(p, "error")
       \/ /\ Reads(p, "status")
          /\ IF Head(wire[source[p]]).status = "failed"
             THEN Finish(p, "status failed")
             ELSE wire' = [wire EXCEPT ![source[p]] = <<>>] /\ UNCHANGED <<gone, source, phase, result>>
    /\ UNCHANGED <<jobVars, spc, sjob, sent, posted, job, kept, probes, reported>>

\* download_bundle: 404 for a job that is not known, 409 until its status is done.
Download(p) ==
    /\ phase[p] = "downloading"
    /\ phase' = [phase EXCEPT ![p] = "result"]
    /\ result' = [result EXCEPT ![p] =
                    IF status[job[p]] = "done" /\ job[p] \in artifact THEN "saved" ELSE "refused"]
    /\ UNCHANGED <<vars, posted, job, source, kept, probes, reported>>

\* Mutant: only the export listens for errors of its stream.
StreamLostInstall(p) ==
    /\ p \in Exporters
    /\ source[p] # None
    /\ source[p] \in gone \/ (spc[source[p]] = "ended" /\ wire[source[p]] = <<>>)
    /\ Finish(p, "lost")
    /\ probes' = IF p \in Pages THEN [probes EXCEPT ![p] = @ \cup {job[p]}] ELSE probes
    /\ UNCHANGED <<jobVars, spc, sjob, sent, posted, job, kept, reported>>

\* onerror: the stream was refused, ended, or broke, with no result read from it.
StreamLost(p) ==
    /\ source[p] # None
    /\ source[p] \in gone \/ (spc[source[p]] = "ended" /\ wire[source[p]] = <<>>)
    /\ Finish(p, "lost")
    /\ probes' = IF p \in Pages THEN [probes EXCEPT ![p] = @ \cup {job[p]}] ELSE probes
    /\ UNCHANGED <<jobVars, spc, sjob, sent, posted, job, kept, reported>>

\* The answer to a forgetIfGone: 404 forgets whatever job is kept.
ProbeAnswered(p, j) ==
    /\ j \in probes[p]
    /\ probes' = [probes EXCEPT ![p] = @ \ {j}]
    /\ \/ status[j] = "unknown" /\ kept' = [kept EXCEPT ![p] = None]
       \/ UNCHANGED kept
    /\ UNCHANGED <<vars, phase, posted, result, job, source, reported>>

-----------------------------------------------------------------------------
(* The user.                                                               *)

\* backToChoose
Back(p) ==
    /\ p \in Pages
    /\ phase[p] = "result"
    /\ phase' = [phase EXCEPT ![p] = "choose"]
    /\ result' = [result EXCEPT ![p] = None]
    /\ UNCHANGED <<vars, posted, job, source, kept, probes, reported>>

\* The page's EventSource and pending calls die with it; the new page attaches
\* to the job that is kept.
Reload(p) ==
    /\ p \in Pages
    /\ phase[p] # "choose" \/ kept[p] # None
    /\ probes' = [probes EXCEPT ![p] = {}]
    /\ IF kept[p] = None
       THEN /\ phase' = [phase EXCEPT ![p] = "choose"]
            /\ result' = [result EXCEPT ![p] = None]
            /\ job' = [job EXCEPT ![p] = None]
            /\ IF source[p] = None THEN UNCHANGED <<gone, wire, source>> ELSE CloseSource(p)
            /\ UNCHANGED <<jobVars, spc, sjob, sent>>
       ELSE \E s \in Streams :
            /\ spc[s] = "free"
            /\ spc' = [spc EXCEPT ![s] = IF status[kept[p]] = "unknown" THEN "ended" ELSE "drain"]
            /\ sjob' = [sjob EXCEPT ![s] = kept[p]]
            /\ gone' = gone \cup ({source[p]} \ {None})
            /\ wire' = [x \in Streams |-> IF x = source[p] THEN <<>> ELSE wire[x]]
            /\ phase' = [phase EXCEPT ![p] = "running"]
            /\ result' = [result EXCEPT ![p] = None]
            /\ job' = [job EXCEPT ![p] = kept[p]]
            /\ source' = [source EXCEPT ![p] = s]
            /\ UNCHANGED <<jobVars, sent>>
    /\ posted' = [posted EXCEPT ![p] = None]
    /\ UNCHANGED <<kept, reported>>

-----------------------------------------------------------------------------

Follow(p) ==
    \/ \E s \in Streams : Posted(p, s)
    \/ PostFails(p)
    \/ ReadProgress(p) \/ ReadEnd(p) \/ ExportReads(p) \/ Download(p) \/ StreamLost(p)

PagesNext ==
    \/ \E p \in Tabs : \/ \E j \in Jobs : Post(p, j)
                       \/ Follow(p)
                       \/ \E j \in Jobs : ProbeAnswered(p, j)
                       \/ Back(p) \/ Reload(p)
    \/ /\ \/ \E j \in Jobs : Work(j)
          \/ \E s \in Streams : Serve(s) \/ Drop(s)
          \/ Crash
       /\ UNCHANGED pageVars

PagesSpec == PagesInit /\ [][PagesNext]_allVars

\* A page handles the events of its stream, and the server's threads run. The
\* user, the network and the workbench's own death owe nothing.
PagesFairSpec ==
    /\ PagesSpec
    /\ \A p \in Tabs : WF_allVars(Follow(p))
    /\ \A j \in Jobs : WF_allVars(Work(j) /\ UNCHANGED pageVars)
    /\ \A s \in Streams : WF_allVars(Serve(s) /\ UNCHANGED pageVars)

-----------------------------------------------------------------------------
(* Properties.                                                             *)

\* A page never shows an end that is not the job's: an install shown as done was
\* deployed, one shown as failed kept its error, a bundle shown as saved is there.
ShownTruly ==
    \A p \in Tabs :
        /\ result[p] \in {"done", "status done", "saved"} => job[p] \in deployed
        /\ result[p] \in {"error", "status failed"} => error[job[p]]

\* A tab is told of a job's end once: what a reload would attach to, and what a page
\* follows, is never an install that has reported its end to this tab, although writes to
\* sessionStorage may be refused, and probes answered late or for another job.
EndToldOnce ==
    \A p \in Pages :
        /\ kept[p] # None => kept[p] \notin reported[p]
        /\ phase[p] = "running" => job[p] \notin reported[p]

\* A page does not stay on "Installing" or on "Building bundle" for ever, whatever
\* becomes of the job, the stream or the workbench.
PageSettles == \A p \in Tabs : phase[p] \in {"running", "downloading"} ~> phase[p] \in {"result", "choose"}

\* The closing frame is what a page ends on only if the job ended without reporting
\* either end (Onboarding.svelte's comment on it).
ClosingOnlyIfSilent ==
    \A p \in Pages : result[p] \in {"status done", "status failed"} =>
        \A i \in 1..Len(events[job[p]]) : events[job[p]][i] = "progress"

\* Only a server that no longer knows the job forgets it: the job that is kept is
\* forgotten at its own end or at its own 404 (Onboarding.svelte's comment).
ForgottenOnlyIfGone ==
    [][\A p \in Pages :
          kept[p] # None /\ kept'[p] = None
              => status[kept[p]] = "unknown" \/ (job[p] = kept[p] /\ phase'[p] = "result")]_allVars

=============================================================================
