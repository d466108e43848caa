---------------------------- MODULE ProvisionProofs ----------------------------
(***************************************************************************)
(* Proofs about ProvisionJobs for any number of jobs, streams and events,  *)
(* and about ProvisionPages for any number of tabs besides.                *)
(*                                                                         *)
(* The argument: a worker past its deployment has made what it will report *)
(* (WorkInv), a status that says failed was preceded by the error, and a   *)
(* stream that serves serves a job of its own (StreamInv), so that the     *)
(* closing frame, whenever it is put together, explains what it says.      *)
(*                                                                         *)
(* The pages add that every frame under way is true of the job its stream  *)
(* is about (WireInv), that a tab's stream is about the tab's job          *)
(* (Follows), and that what makes either true is never taken back          *)
(* (Grows). A step of PagesNext is one of the server or one of a client:   *)
(* each lemma about the server's part is proved of both kinds.             *)
(***************************************************************************)
EXTENDS ProvisionPages, SequenceTheorems, TLAPS

\* What the worker has done by the time it is where it is.
WorkInv ==
    \A j \in Jobs :
        /\ worker[j] = "register" => kind[j] = "remote"
        /\ worker[j] \in {"register", "store", "report", "settle"} => j \in deployed
        /\ worker[j] \in {"report", "settle"} /\ kind[j] = "bundle" => j \in artifact
        /\ worker[j] = "mark" => error[j]
        /\ status[j] = "failed" => error[j]
        /\ kind[j] = None => worker[j] = "none"

StreamInv == \A s \in Streams : spc[s] \in {"drain", "check"} => sjob[s] \in Jobs

\* A stream has sent no more than there is; until it ends, its client has just that.
SentInv ==
    \A s \in Streams :
        /\ spc[s] = "free" => sent[s] = 0
        /\ sent[s] > 0 => sjob[s] \in Jobs /\ sent[s] <= Len(events[sjob[s]])
        /\ s \notin gone /\ spc[s] # "ended" => Len(wire[s]) = sent[s]

IInv ==
    /\ TypeOK
    /\ StreamInv
    /\ SentInv
    /\ Replays
    /\ WorkInv
    /\ SecretZeroed
    /\ DoneIsDone
    /\ FailureExplained

\* What the server does, whoever asks it: Next, where only a client that was answered
\* opens a stream, and PagesNext are made of it.
ServerStep ==
    \/ \E j \in Jobs, k \in Kinds, held \in BOOLEAN : StartJob(j, k, held) \/ StartFails(j, k, held)
    \/ \E j \in Jobs : Work(j)
    \/ \E s \in Streams : Serve(s) \/ Drop(s) \/ \E j \in Jobs : OpenStream(s, j)
    \/ Crash
    \/ UNCHANGED vars
-----------------------------------------------------------------------------

\* Next is made of the server's steps.
LEMMA NextServes == [Next]_vars => ServerStep
BY DEF Next, ServerStep

\* The initial state satisfies every part of the invariant.
LEMMA InvInit == Init => IInv
<1> SUFFICES ASSUME Init PROVE IInv
    OBVIOUS
<1>1. TypeOK
  BY JobsAssumption, EmptySeq DEF Init, TypeOK, Kinds
<1>2. StreamInv /\ WorkInv /\ SecretZeroed /\ DoneIsDone
  BY DEF Init, StreamInv, WorkInv, SecretZeroed, DoneIsDone, Kinds, Settled
<1>3. FailureExplained /\ SentInv /\ Replays
  BY DEF Init, FailureExplained, SentInv, Replays
<1> QED
  BY <1>1, <1>2, <1>3 DEF IInv

\* No kind of job is Python's None.
LEMMA KindsAreSome == \A k \in Kinds : k # None
BY JobsAssumption DEF Kinds

\* A frame is of the type of frames, whichever it is.
LEMMA FrameTypes ==
    ASSUME TypeOK, NEW s \in Streams, sjob[s] \in Jobs
    PROVE  /\ \A stage \in Stages : Event(stage) \in Frames
           /\ status[sjob[s]] \in Settled => Closing(sjob[s]) \in Frames
           /\ sent[s] < Len(events[sjob[s]]) => events[sjob[s]][sent[s] + 1] \in Stages
<1>1. events[sjob[s]] \in Seq(Stages) /\ sent[s] \in Nat
  BY DEF TypeOK
<1>2. sent[s] < Len(events[sjob[s]]) => sent[s] + 1 \in 1..Len(events[sjob[s]])
  BY <1>1
<1> QED
  BY <1>1, <1>2, ElementOfSeq DEF TypeOK, Event, Closing, Frames, Stages, Settled

\* What a stream writes keeps the types of the stream's variables.
LEMMA WriteTypes ==
    ASSUME TypeOK, NEW s \in Streams, NEW frame \in Frames, NEW to \in {"drain", "ended"},
           Write(s, frame, to)
    PROVE  /\ spc' \in [Streams -> {"free", "drain", "check", "ended"}]
           /\ wire' \in [Streams -> Seq(Frames)]
<1>1. wire[s] \in Seq(Frames)
  BY DEF TypeOK
<1>2. Append(wire[s], frame) \in Seq(Frames)
  BY <1>1, AppendProperties
<1> QED
  BY <1>2 DEF TypeOK, Write

\* Every step keeps the types.
LEMMA TypeStep == TypeOK /\ StreamInv /\ ServerStep => TypeOK'
<1> SUFFICES ASSUME TypeOK, StreamInv, ServerStep PROVE TypeOK'
    OBVIOUS
<1> USE DEF TypeOK, jobVars, streamVars
<1>1. ASSUME NEW j \in Jobs, NEW k \in Kinds, NEW held \in BOOLEAN,
             StartJob(j, k, held) \/ StartFails(j, k, held)
      PROVE  TypeOK'
  <2>1. \A w \in {"held", "zeroed"} : (IF held THEN w ELSE "none") \in {"none", "held", "zeroed"}
    OBVIOUS
  <2>2. secret' \in [Jobs -> {"none", "held", "zeroed"}]
    BY <1>1, <2>1 DEF StartJob, StartFails
  <2>3. /\ kind' \in [Jobs -> Kinds \cup {None}]
        /\ status' \in [Jobs -> {"unknown", "running"} \cup Settled]
        /\ UNCHANGED <<error, events, artifact, deployed, streamVars>>
    <3>1. CreateJob(j, k, held) /\ UNCHANGED streamVars
      BY <1>1 DEF StartJob, StartFails
    <3>2. /\ kind' = [kind EXCEPT ![j] = k]
          /\ status' = [status EXCEPT ![j] = "running"]
          /\ UNCHANGED <<error, events, artifact, deployed>>
      BY <3>1 DEF CreateJob
    <3> QED
      BY <3>1, <3>2
  <2>4. worker' \in [Jobs -> {"none", "work", "register", "store", "report", "settle",
                            "raise", "mark", "tell", "finally", "end"}]
    BY <1>1 DEF StartJob, StartFails
  <2> QED
    BY <2>2, <2>3, <2>4
<1>2. ASSUME NEW j \in Jobs, Progress(j) \/ ReportDone(j) \/ ReportError(j)
      PROVE  TypeOK'
  <2>1. \A stage \in Stages : Append(events[j], stage) \in Seq(Stages)
    BY AppendProperties
  <2>2. events' \in [Jobs -> Seq(Stages)]
    BY <1>2, <2>1 DEF Progress, ReportDone, ReportError, Append1, Stages
  <2> QED
    BY <1>2, <2>2 DEF Progress, ReportDone, ReportError, WorkerAt
<1>3. ASSUME NEW j \in Jobs,
             WorkDone(j) \/ Register(j) \/ Store(j) \/ SettleDone(j) \/ Raises(j)
                 \/ KeepError(j) \/ SettleFailed(j) \/ Finally(j)
      PROVE  TypeOK'
  BY <1>3 DEF WorkDone, Register, Store, SettleDone, Raises, KeepError, SettleFailed, Finally,
              WorkerAt, Settled
<1>4. ASSUME NEW s \in Streams, SendEvent(s)
      PROVE  TypeOK'
  <2>1. sjob[s] \in Jobs
    BY <1>4 DEF SendEvent, StreamInv
  <2>2. Event(events[sjob[s]][sent[s] + 1]) \in Frames
    BY <1>4, <2>1, FrameTypes DEF SendEvent
  <2>3. /\ spc' \in [Streams -> {"free", "drain", "check", "ended"}]
        /\ wire' \in [Streams -> Seq(Frames)]
    BY <1>4, <2>2, WriteTypes DEF SendEvent
  <2>4. sent' \in [Streams -> Nat]
    BY <1>4 DEF SendEvent
  <2>5. UNCHANGED <<jobVars, sjob, gone>>
    BY <1>4 DEF SendEvent
  <2> QED
    BY <2>3, <2>4, <2>5
<1>5. ASSUME NEW s \in Streams, CheckSettled(s)
      PROVE  TypeOK'
  <2>1. sjob[s] \in Jobs
    BY <1>5 DEF CheckSettled, StreamInv
  <2>2. Closing(sjob[s]) \in Frames
    BY <1>5, <2>1, FrameTypes DEF CheckSettled
  <2>3. /\ spc' \in [Streams -> {"free", "drain", "check", "ended"}]
        /\ wire' \in [Streams -> Seq(Frames)]
    BY <1>5, <2>2, WriteTypes DEF CheckSettled
  <2> QED
    BY <1>5, <2>3 DEF CheckSettled
<1>6. ASSUME NEW s \in Streams, Drained(s) \/ CheckRunning(s)
      PROVE  TypeOK'
  BY <1>6 DEF Drained, CheckRunning, StreamAt
<1>7. ASSUME NEW s \in Streams, Drop(s)
      PROVE  TypeOK'
  BY <1>7, EmptySeq DEF Drop
<1>8. ASSUME NEW s \in Streams, NEW j \in Jobs, OpenStream(s, j)
      PROVE  TypeOK'
  BY <1>8 DEF OpenStream, StreamAt
<1>9. CASE Crash
  BY <1>9 DEF Crash
<1>10. CASE UNCHANGED vars
  BY <1>10 DEF vars
<1> QED
  BY <1>1, <1>2, <1>3, <1>4, <1>5, <1>6, <1>7, <1>8, <1>9, <1>10 DEF ServerStep, Work, Serve

\* A stream that is served has a job.
LEMMA StreamStep == TypeOK /\ StreamInv /\ ServerStep => StreamInv'
<1> SUFFICES ASSUME TypeOK, StreamInv, ServerStep PROVE StreamInv'
    OBVIOUS
<1> USE DEF TypeOK, StreamInv
<1>1. ASSUME NEW j \in Jobs, NEW k \in Kinds, NEW held \in BOOLEAN,
             StartJob(j, k, held) \/ StartFails(j, k, held)
      PROVE  StreamInv'
  BY <1>1 DEF StartJob, StartFails, streamVars
<1>2. ASSUME NEW j \in Jobs, Work(j)
      PROVE  StreamInv'
  BY <1>2 DEF Work, Progress, WorkDone, Register, Store, ReportDone, SettleDone, Raises,
              KeepError, SettleFailed, ReportError, Finally, streamVars
<1>3. ASSUME NEW s \in Streams, Serve(s) \/ Drop(s)
      PROVE  StreamInv'
  BY <1>3 DEF Serve, SendEvent, Drained, CheckRunning, CheckSettled, Drop, StreamAt, Write
<1>4. ASSUME NEW s \in Streams, NEW j \in Jobs, OpenStream(s, j)
      PROVE  StreamInv'
  BY <1>4 DEF OpenStream, StreamAt
<1>5. CASE Crash
  BY <1>5 DEF Crash
<1>6. CASE UNCHANGED vars
  BY <1>6 DEF vars, streamVars
<1> QED
  BY <1>1, <1>2, <1>3, <1>4, <1>5, <1>6 DEF ServerStep

\* A step of a worker, a start or a crash keeps what the worker has done by where
\* it is; the streams write nothing of it.
LEMMA WorkStep == TypeOK /\ WorkInv /\ ServerStep => WorkInv'
<1> SUFFICES ASSUME TypeOK, WorkInv, ServerStep PROVE WorkInv'
    OBVIOUS
<1> USE DEF TypeOK, WorkInv
<1>1. ASSUME NEW j \in Jobs, NEW k \in Kinds, NEW held \in BOOLEAN,
             StartJob(j, k, held) \/ StartFails(j, k, held)
      PROVE  WorkInv'
  <2>1. /\ kind[j] = None /\ kind' = [kind EXCEPT ![j] = k]
        /\ status' = [status EXCEPT ![j] = "running"]
        /\ UNCHANGED <<error, events, artifact, deployed>>
    BY <1>1 DEF StartJob, StartFails, CreateJob
  <2>2. \E w \in {"work", "end"} : worker' = [worker EXCEPT ![j] = w]
    BY <1>1 DEF StartJob, StartFails
  <2>3. k # None
    BY KindsAreSome
  <2> QED
    BY <2>1, <2>2, <2>3
<1>2. ASSUME NEW j \in Jobs, WorkDone(j)
      PROVE  WorkInv'
  BY <1>2 DEF WorkDone, WorkerAt
<1>3. ASSUME NEW j \in Jobs, Store(j)
      PROVE  WorkInv'
  BY <1>3 DEF Store, WorkerAt
<1>4. ASSUME NEW j \in Jobs, Register(j)
      PROVE  WorkInv'
  BY <1>4 DEF Register, WorkerAt
<1>5. ASSUME NEW j \in Jobs, Progress(j) \/ ReportDone(j) \/ ReportError(j)
      PROVE  WorkInv'
  BY <1>5 DEF Progress, ReportDone, ReportError, WorkerAt
<1>6. ASSUME NEW j \in Jobs, SettleDone(j) \/ SettleFailed(j)
      PROVE  WorkInv'
  BY <1>6 DEF SettleDone, SettleFailed, WorkerAt, Settled
<1>7. ASSUME NEW j \in Jobs, Raises(j) \/ KeepError(j) \/ Finally(j)
      PROVE  WorkInv'
  BY <1>7 DEF Raises, KeepError, Finally, WorkerAt
<1>8. ASSUME NEW s \in Streams,
             Serve(s) \/ Drop(s) \/ \E j \in Jobs : OpenStream(s, j)
      PROVE  WorkInv'
  BY <1>8 DEF Serve, SendEvent, Drained, CheckRunning, CheckSettled, Drop, OpenStream, jobVars
<1>9. CASE Crash
  BY <1>9 DEF Crash
<1>10. CASE UNCHANGED vars
  BY <1>10 DEF vars, jobVars
<1> QED
  BY <1>1, <1>2, <1>3, <1>4, <1>5, <1>6, <1>7, <1>8, <1>9, <1>10 DEF ServerStep, Work

\* The password goes before the thread does, and with a thread that never was.
LEMMA SecretStep == TypeOK /\ SecretZeroed /\ [Next]_vars => SecretZeroed'
<1> SUFFICES ASSUME TypeOK, SecretZeroed, [Next]_vars PROVE SecretZeroed'
    OBVIOUS
<1> USE DEF TypeOK, SecretZeroed
<1>1. ASSUME NEW j \in Jobs, NEW k \in Kinds, NEW held \in BOOLEAN,
             StartJob(j, k, held) \/ StartFails(j, k, held)
      PROVE  SecretZeroed'
  <2>1. CASE StartJob(j, k, held)
    <3>1. worker' = [worker EXCEPT ![j] = "work"]
      BY <2>1 DEF StartJob
    <3>2. \A i \in Jobs \ {j} : secret'[i] = secret[i]
      BY <2>1 DEF StartJob
    <3> QED
      BY <3>1, <3>2
  <2>2. CASE StartFails(j, k, held)
    <3>1. \E b \in {"zeroed", "none"} : secret' = [secret EXCEPT ![j] = b]
      BY <2>2 DEF StartFails
    <3>2. \A i \in Jobs \ {j} : worker'[i] = worker[i]
      BY <2>2 DEF StartFails
    <3> QED
      BY <3>1, <3>2
  <2> QED
    BY <1>1, <2>1, <2>2
<1>2. ASSUME NEW j \in Jobs, Finally(j)
      PROVE  SecretZeroed'
  BY <1>2 DEF Finally, WorkerAt
<1>3. ASSUME NEW j \in Jobs, Work(j), ~Finally(j)
      PROVE  SecretZeroed'
  BY <1>3 DEF Work, Progress, WorkDone, Register, Store, ReportDone, SettleDone, Raises,
              KeepError, SettleFailed, ReportError, WorkerAt
<1>4. ASSUME NEW s \in Streams,
             Serve(s) \/ Drop(s) \/ \E j \in Jobs : OpenStream(s, j)
      PROVE  SecretZeroed'
  BY <1>4 DEF Serve, SendEvent, Drained, CheckRunning, CheckSettled, Drop, OpenStream, jobVars
<1>5. CASE Crash
  BY <1>5 DEF Crash
<1>6. CASE UNCHANGED vars
  BY <1>6 DEF vars, jobVars
<1> QED
  BY <1>1, <1>2, <1>3, <1>4, <1>5, <1>6 DEF Next

\* A job settles as done only where its worker has made what it reports, and
\* nothing but a crash, which forgets the status too, takes that away.
LEMMA DoneStep == TypeOK /\ WorkInv /\ DoneIsDone /\ ServerStep => DoneIsDone'
<1> SUFFICES ASSUME TypeOK, WorkInv, DoneIsDone, ServerStep PROVE DoneIsDone'
    OBVIOUS
<1> USE DEF TypeOK, DoneIsDone
<1>1. ASSUME NEW j \in Jobs, NEW k \in Kinds, NEW held \in BOOLEAN,
             StartJob(j, k, held) \/ StartFails(j, k, held)
      PROVE  DoneIsDone'
  <2>1. /\ kind' = [kind EXCEPT ![j] = k]
        /\ status' = [status EXCEPT ![j] = "running"]
        /\ UNCHANGED <<artifact, deployed>>
    BY <1>1 DEF StartJob, StartFails, CreateJob
  <2> QED
    BY <2>1
<1>2. ASSUME NEW j \in Jobs, SettleDone(j)
      PROVE  DoneIsDone'
  BY <1>2 DEF SettleDone, WorkerAt, WorkInv
<1>3. ASSUME NEW j \in Jobs, Work(j), ~SettleDone(j)
      PROVE  DoneIsDone'
  BY <1>3 DEF Work, Progress, WorkDone, Register, Store, ReportDone, Raises, KeepError,
              SettleFailed, ReportError, Finally
<1>4. ASSUME NEW s \in Streams,
             Serve(s) \/ Drop(s) \/ \E j \in Jobs : OpenStream(s, j)
      PROVE  DoneIsDone'
  BY <1>4 DEF Serve, SendEvent, Drained, CheckRunning, CheckSettled, Drop, OpenStream, jobVars
<1>5. CASE Crash
  BY <1>5 DEF Crash
<1>6. CASE UNCHANGED vars
  BY <1>6 DEF vars, jobVars
<1> QED
  BY <1>1, <1>2, <1>3, <1>4, <1>5, <1>6 DEF ServerStep

\* What a stream has sent, and what its client has got of it.
ReplayInv == StreamInv /\ SentInv /\ Replays

\* Events are added at the end, so what was sent is still what the job holds there.
LEMMA MoreEvents ==
    ASSUME TypeOK, SentInv, Replays, NEW j \in Jobs, NEW stage \in Stages,
           Append1(j, stage), UNCHANGED streamVars
    PROVE  SentInv' /\ Replays'
<1> USE DEF streamVars
<1>1. \A x \in Jobs : events[x] \in Seq(Stages)
  BY DEF TypeOK
<1>2. \A x \in Jobs : /\ Len(events'[x]) \in Nat /\ Len(events[x]) \in Nat
                      /\ Len(events'[x]) >= Len(events[x])
                      /\ \A i \in 1..Len(events[x]) : events'[x][i] = events[x][i]
  BY <1>1, AppendProperties DEF TypeOK, Append1
<1>3. \A s \in Streams : sent[s] \in Nat
  BY DEF TypeOK
<1>4. SentInv'
  BY <1>2, <1>3 DEF SentInv
<1>5. Replays'
  <2> SUFFICES ASSUME NEW s \in Streams \ gone, NEW i \in 1..sent[s]
               PROVE  events'[sjob[s]][i] = events[sjob[s]][i]
    BY DEF Replays, Event
  <2> QED
    BY <1>2, <1>3 DEF SentInv
<1> QED
  BY <1>4, <1>5

\* A stream that is still served has its client's wire end where it has sent to.
LEMMA SendReplays ==
    ASSUME TypeOK, ReplayInv, NEW s \in Streams, SendEvent(s)
    PROVE  SentInv' /\ Replays'
<1> DEFINE frame == Event(events[sjob[s]][sent[s] + 1])
<1>1. spc[s] = "drain" /\ sjob[s] \in Jobs /\ sent[s] \in Nat /\ wire[s] \in Seq(Frames)
  BY DEF SendEvent, ReplayInv, StreamInv, TypeOK
<1>2. sent[s] + 1 <= Len(events[sjob[s]])
  BY <1>1 DEF SendEvent, TypeOK
<1>3. /\ sent' = [sent EXCEPT ![s] = @ + 1]
      /\ UNCHANGED <<events, sjob, gone>>
  BY DEF SendEvent, jobVars
<1>4. frame \in Frames
  BY <1>1, <1>2, FrameTypes
<1>5. \A x \in Streams \ {s} : spc'[x] = spc[x] /\ wire'[x] = wire[x] /\ sent'[x] = sent[x]
  BY <1>3 DEF SendEvent, Write, TypeOK
<1>6. spc'[s] # "free"
  BY DEF SendEvent, Write, TypeOK
<1>7. ASSUME s \notin gone
      PROVE  /\ Len(wire[s]) = sent[s]
             /\ Len(wire'[s]) = sent[s] + 1
             /\ wire'[s][sent[s] + 1] = frame
             /\ \A i \in 1..sent[s] : wire'[s][i] = wire[s][i]
  <2>1. Len(wire[s]) = sent[s]
    BY <1>1, <1>7 DEF ReplayInv, SentInv
  <2>2. wire'[s] = Append(wire[s], frame)
    BY <1>7 DEF SendEvent, Write, TypeOK
  <2> QED
    BY <1>1, <1>4, <2>1, <2>2, AppendProperties
<1>8. SentInv'
  BY <1>1, <1>2, <1>3, <1>5, <1>6, <1>7 DEF ReplayInv, SentInv, TypeOK
<1>9. Replays'
  <2> SUFFICES ASSUME NEW x \in Streams \ gone
               PROVE  /\ Len(wire'[x]) \in {sent'[x], sent'[x] + 1}
                      /\ \A i \in 1..sent'[x] : wire'[x][i] = Event(events[sjob[x]][i])
                      /\ Len(wire'[x]) > sent'[x] => wire'[x][sent'[x] + 1].stage = "status"
    BY <1>3 DEF Replays, Event
  <2>1. CASE x = s
    <3>1. sent'[s] = sent[s] + 1
      BY <1>3 DEF TypeOK
    <3>2. \A i \in 1..sent[s] : wire[s][i] = Event(events[sjob[s]][i])
      BY <2>1 DEF ReplayInv, Replays
    <3> QED
      BY <1>1, <1>7, <2>1, <3>1, <3>2
  <2>2. CASE x # s
    BY <1>5, <2>2 DEF ReplayInv, Replays
  <2> QED
    BY <2>1, <2>2
<1> QED
  BY <1>8, <1>9

\* The closing frame is the last, and the one that ends the stream.
LEMMA CloseReplays ==
    ASSUME TypeOK, ReplayInv, NEW s \in Streams, CheckSettled(s)
    PROVE  SentInv' /\ Replays'
<1> DEFINE frame == Closing(sjob[s])
<1>1. spc[s] = "check" /\ sjob[s] \in Jobs /\ sent[s] \in Nat /\ wire[s] \in Seq(Frames)
  BY DEF CheckSettled, ReplayInv, StreamInv, TypeOK
<1>2. UNCHANGED <<events, sjob, sent, gone>>
  BY DEF CheckSettled, jobVars
<1>3. frame \in Frames /\ frame.stage = "status"
  BY <1>1, FrameTypes DEF CheckSettled, Closing
<1>4. \A x \in Streams \ {s} : spc'[x] = spc[x] /\ wire'[x] = wire[x]
  BY DEF CheckSettled, Write, TypeOK
<1>5. spc'[s] = "ended"
  BY DEF CheckSettled, Write, TypeOK
<1>6. ASSUME s \notin gone
      PROVE  /\ Len(wire[s]) = sent[s]
             /\ Len(wire'[s]) = sent[s] + 1
             /\ wire'[s][sent[s] + 1] = frame
             /\ \A i \in 1..sent[s] : wire'[s][i] = wire[s][i]
  <2>1. Len(wire[s]) = sent[s]
    BY <1>1, <1>6 DEF ReplayInv, SentInv
  <2>2. wire'[s] = Append(wire[s], frame)
    BY <1>6 DEF CheckSettled, Write, TypeOK
  <2> QED
    BY <1>1, <1>3, <2>1, <2>2, AppendProperties
<1>7. SentInv'
  BY <1>2, <1>4, <1>5 DEF ReplayInv, SentInv
<1>8. Replays'
  <2> SUFFICES ASSUME NEW x \in Streams \ gone
               PROVE  /\ Len(wire'[x]) \in {sent[x], sent[x] + 1}
                      /\ \A i \in 1..sent[x] : wire'[x][i] = Event(events[sjob[x]][i])
                      /\ Len(wire'[x]) > sent[x] => wire'[x][sent[x] + 1].stage = "status"
    BY <1>2 DEF Replays, Event
  <2>1. CASE x = s
    <3>1. \A i \in 1..sent[s] : wire[s][i] = Event(events[sjob[s]][i])
      BY <2>1 DEF ReplayInv, Replays
    <3> QED
      BY <1>1, <1>3, <1>6, <2>1, <3>1
  <2>2. CASE x # s
    BY <1>4, <2>2 DEF ReplayInv, Replays
  <2> QED
    BY <2>1, <2>2
<1> QED
  BY <1>7, <1>8

\* Every step keeps what was sent a prefix of what the job holds.
LEMMA ReplayStep == TypeOK /\ ReplayInv /\ [Next]_vars => SentInv' /\ Replays'
<1> SUFFICES ASSUME TypeOK, ReplayInv, [Next]_vars PROVE SentInv' /\ Replays'
    OBVIOUS
<1>1. ASSUME UNCHANGED <<events, streamVars>> PROVE SentInv' /\ Replays'
  BY <1>1 DEF ReplayInv, SentInv, Replays, Event, streamVars
<1>2. ASSUME NEW j \in Jobs, NEW k \in Kinds, NEW held \in BOOLEAN,
             StartJob(j, k, held) \/ StartFails(j, k, held)
      PROVE  UNCHANGED <<events, streamVars>>
  BY <1>2 DEF StartJob, StartFails, CreateJob
<1>3. ASSUME NEW j \in Jobs, Progress(j) \/ ReportDone(j) \/ ReportError(j)
      PROVE  SentInv' /\ Replays'
  BY <1>3, MoreEvents DEF Progress, ReportDone, ReportError, Stages, ReplayInv
<1>4. ASSUME NEW j \in Jobs,
             WorkDone(j) \/ Register(j) \/ Store(j) \/ SettleDone(j) \/ Raises(j)
                 \/ KeepError(j) \/ SettleFailed(j) \/ Finally(j)
      PROVE  UNCHANGED <<events, streamVars>>
  BY <1>4 DEF WorkDone, Register, Store, SettleDone, Raises, KeepError, SettleFailed, Finally
<1>5. ASSUME NEW s \in Streams, Drained(s) \/ CheckRunning(s)
      PROVE  SentInv' /\ Replays'
  BY <1>5 DEF Drained, CheckRunning, StreamAt, jobVars, ReplayInv, SentInv, Replays, Event, TypeOK
<1>6. ASSUME NEW s \in Streams, Drop(s)
      PROVE  SentInv' /\ Replays'
  BY <1>6 DEF Drop, jobVars, ReplayInv, SentInv, Replays, Event, TypeOK
<1>7. ASSUME NEW s \in Streams, NEW j \in Jobs, OpenStream(s, j)
      PROVE  SentInv' /\ Replays'
  BY <1>7 DEF OpenStream, StreamAt, jobVars, ReplayInv, SentInv, Replays, Event, TypeOK
<1>8. CASE Crash
  BY <1>8 DEF Crash, ReplayInv, SentInv, Replays, Event, TypeOK
<1>9. CASE UNCHANGED vars
  BY <1>1, <1>9 DEF vars, jobVars
<1> QED
  BY <1>1, <1>2, <1>3, <1>4, <1>5, <1>6, <1>7, <1>8, <1>9, SendReplays, CloseReplays
     DEF Next, Work, Serve

Explained(frames) == \A i \in 1..Len(frames) : frames[i].status = "failed" => frames[i].error

\* A frame that is explained leaves the wire explained.
LEMMA WriteExplained ==
    ASSUME TypeOK, FailureExplained, NEW s \in Streams, NEW frame \in Frames, NEW to,
           frame.status = "failed" => frame.error, Write(s, frame, to)
    PROVE  FailureExplained'
<1>1. wire[s] \in Seq(Frames) /\ Explained(wire[s])
  BY DEF TypeOK, FailureExplained, Explained
<1>2. Explained(Append(wire[s], frame))
  <2> SUFFICES ASSUME NEW i \in 1..Len(Append(wire[s], frame))
               PROVE  LET f == Append(wire[s], frame)[i] IN f.status = "failed" => f.error
    BY DEF Explained
  <2>1. Len(Append(wire[s], frame)) = Len(wire[s]) + 1
    BY <1>1, AppendProperties
  <2>2. i \in 1..Len(wire[s]) => Append(wire[s], frame)[i] = wire[s][i]
    BY <1>1, AppendProperties
  <2>3. i \notin 1..Len(wire[s]) => Append(wire[s], frame)[i] = frame
    BY <1>1, <2>1, AppendProperties
  <2> QED
    BY <1>1, <2>2, <2>3 DEF Explained
<1>3. \A x \in Streams : wire'[x] \in {wire[x], Append(wire[s], frame)}
  BY DEF TypeOK, Write
<1> QED
  BY <1>2, <1>3 DEF FailureExplained, Explained

\* Only the closing frame says failed, and the error is set before the status.
LEMMA ExplainStep ==
    TypeOK /\ StreamInv /\ WorkInv /\ FailureExplained /\ [Next]_vars => FailureExplained'
<1> SUFFICES ASSUME TypeOK, StreamInv, WorkInv, FailureExplained, [Next]_vars
             PROVE  FailureExplained'
    OBVIOUS
<1>1. ASSUME NEW s \in Streams, SendEvent(s)
      PROVE  FailureExplained'
  <2>1. Event(events[sjob[s]][sent[s] + 1]) \in Frames
    BY <1>1, FrameTypes DEF SendEvent, StreamInv
  <2>2. Event(events[sjob[s]][sent[s] + 1]).status # "failed"
    BY DEF Event
  <2> QED
    BY <1>1, <2>1, <2>2, WriteExplained DEF SendEvent
<1>2. ASSUME NEW s \in Streams, CheckSettled(s)
      PROVE  FailureExplained'
  <2>1. sjob[s] \in Jobs
    BY <1>2 DEF CheckSettled, StreamInv
  <2>2. Closing(sjob[s]) \in Frames
    BY <1>2, <2>1, FrameTypes DEF CheckSettled
  <2>3. Closing(sjob[s]).status = "failed" => Closing(sjob[s]).error
    BY <2>1 DEF Closing, WorkInv
  <2> QED
    BY <1>2, <2>2, <2>3, WriteExplained DEF CheckSettled
<1>3. ASSUME NEW s \in Streams, Drop(s)
      PROVE  FailureExplained'
  <2>1. \A x \in Streams : wire'[x] = wire[x] \/ wire'[x] = <<>>
    BY <1>3 DEF Drop, TypeOK
  <2> QED
    BY <2>1 DEF FailureExplained
<1>4. ASSUME UNCHANGED wire
      PROVE  FailureExplained'
  BY <1>4 DEF FailureExplained
<1>5. ASSUME NEW j \in Jobs, NEW k \in Kinds, NEW held \in BOOLEAN,
             StartJob(j, k, held) \/ StartFails(j, k, held)
      PROVE  UNCHANGED wire
  BY <1>5 DEF StartJob, StartFails, streamVars
<1>6. ASSUME NEW j \in Jobs, Work(j)
      PROVE  UNCHANGED wire
  BY <1>6 DEF Work, Progress, WorkDone, Register, Store, ReportDone, SettleDone, Raises,
              KeepError, SettleFailed, ReportError, Finally, streamVars
<1>7. ASSUME NEW s \in Streams,
             Drained(s) \/ CheckRunning(s) \/ \E j \in Jobs : OpenStream(s, j)
      PROVE  UNCHANGED wire
  BY <1>7 DEF Drained, CheckRunning, OpenStream
<1>8. Crash \/ UNCHANGED vars => UNCHANGED wire
  BY DEF Crash, vars, streamVars
<1> QED
  BY <1>1, <1>2, <1>3, <1>4, <1>5, <1>6, <1>7, <1>8 DEF Next, Serve

\* The invariant is inductive.
LEMMA InvStep == IInv /\ [Next]_vars => IInv'
BY NextServes, TypeStep, StreamStep, ReplayStep, WorkStep, SecretStep, DoneStep, ExplainStep
   DEF IInv, ReplayInv

\* The whole invariant holds in every reachable state.
THEOREM JobsInv == Spec => []IInv
BY InvInit, InvStep, PTL DEF Spec

\* A job, its worker and its streams keep their types.
THEOREM JobsTypeOK == Spec => []TypeOK
<1>1. IInv => TypeOK
  BY DEF IInv
<1> QED
  BY <1>1, JobsInv, PTL

\* Whenever a stream is opened, it replays the job's events from the first, in order and
\* none twice, and after them at most the closing frame.
THEOREM JobsReplays == Spec => []Replays
<1>1. IInv => Replays
  BY DEF IInv
<1> QED
  BY <1>1, JobsInv, PTL

\* Whoever reads that a job failed reads why, at whatever moment its stream asks.
THEOREM JobsFailureExplained == Spec => []FailureExplained
<1>1. IInv => FailureExplained
  BY DEF IInv
<1> QED
  BY <1>1, JobsInv, PTL

\* No password outlives the thread that was to use it.
THEOREM JobsSecretZeroed == Spec => []SecretZeroed
<1>1. IInv => SecretZeroed
  BY DEF IInv
<1> QED
  BY <1>1, JobsInv, PTL

\* A job that says done has done its work, and its bundle is there to download.
THEOREM JobsDoneIsDone == Spec => []DoneIsDone
<1>1. IInv => DoneIsDone
  BY DEF IInv
<1> QED
  BY <1>1, JobsInv, PTL
-----------------------------------------------------------------------------
(* The pages.                                                              *)

\* A job that the server forgot has no thread any more: its status stays unknown.
ForgottenInv == \A j \in Jobs : kind[j] # None /\ status[j] = "unknown" => worker[j] = "end"

\* What a job reported is so.
EventsInv ==
    \A j \in Jobs :
        /\ worker[j] = "tell" => error[j]
        /\ \A i \in 1..Len(events[j]) :
               /\ events[j][i] = "done" => j \in deployed
               /\ events[j][i] = "error" => error[j]

\* What a frame says is so of job j.
Truthful(frame, j) ==
    /\ frame.stage = "done" => j \in deployed
    /\ frame.stage = "error" => error[j]
    /\ frame.stage = "status" => IF frame.status = "done" THEN j \in deployed ELSE error[j]

WireInv ==
    \A s \in Streams :
        /\ spc[s] = "free" => wire[s] = <<>>
        /\ wire[s] # <<>> => sjob[s] \in Jobs
        /\ \A i \in 1..Len(wire[s]) : Truthful(wire[s][i], sjob[s])

ServerInv ==
    /\ TypeOK
    /\ StreamInv
    /\ WorkInv
    /\ DoneIsDone
    /\ ForgottenInv
    /\ EventsInv
    /\ WireInv

\* What a page does to the server's part: it reads frames, leaves streams and opens
\* one that is free.
ClientStep ==
    /\ UNCHANGED <<jobVars, sent>>
    /\ gone' \in SUBSET Streams
    /\ spc' \in [Streams -> {"free", "drain", "check", "ended"}]
    /\ sjob' \in [Streams -> Jobs \cup {None}]
    /\ wire' \in [Streams -> Seq(Frames)]
    /\ \A s \in Streams :
        /\ \/ wire'[s] = wire[s]
           \/ wire'[s] = <<>>
           \/ wire[s] # <<>> /\ wire'[s] = Tail(wire[s])
        /\ \/ spc'[s] = spc[s] /\ sjob'[s] = sjob[s]
           \/ spc[s] = "free" /\ spc'[s] # "free" /\ sjob'[s] \in Jobs

\* What no step of the server or of a page takes back.
Grows ==
    /\ deployed \subseteq deployed'
    /\ \A j \in Jobs :
        /\ error[j] => error'[j]
        /\ kind[j] # None => kind'[j] # None
        /\ kind[j] # None /\ status[j] = "unknown" => status'[j] = "unknown"
    /\ \A s \in Streams : spc[s] # "free" => spc'[s] # "free" /\ sjob'[s] = sjob[s]

\* A work, a report and an error are for good, a forgotten job stays forgotten, and a
\* stream that was opened stays about its job.
LEMMA ServerGrows == ASSUME TypeOK, WorkInv, ForgottenInv, ServerStep PROVE Grows
<1> USE DEF TypeOK, Grows
<1>1. ASSUME NEW j \in Jobs, NEW k \in Kinds, NEW held \in BOOLEAN,
             StartJob(j, k, held) \/ StartFails(j, k, held)
      PROVE  Grows
  <2>1. CreateJob(j, k, held) /\ UNCHANGED streamVars
    BY <1>1 DEF StartJob, StartFails
  <2>2. /\ kind[j] = None /\ kind' = [kind EXCEPT ![j] = k]
        /\ status' = [status EXCEPT ![j] = "running"]
        /\ UNCHANGED <<error, deployed, spc, sjob>>
    BY <2>1 DEF CreateJob, streamVars
  <2> QED
    BY <2>2
<1>2. ASSUME NEW j \in Jobs, Work(j)
      PROVE  Grows
  <2>1. UNCHANGED <<kind, spc, sjob>>
    BY <1>2 DEF Work, Progress, WorkDone, Register, Store, ReportDone, SettleDone, Raises,
                KeepError, SettleFailed, ReportError, Finally, streamVars
  <2>2. deployed \subseteq deployed'
    BY <1>2 DEF Work, Progress, WorkDone, Register, Store, ReportDone, SettleDone, Raises,
                KeepError, SettleFailed, ReportError, Finally
  <2>3. \A x \in Jobs : error[x] => error'[x]
    BY <1>2 DEF Work, Progress, WorkDone, Register, Store, ReportDone, SettleDone, Raises,
                KeepError, SettleFailed, ReportError, Finally
  <2>4. worker[j] # "end"
    BY <1>2 DEF Work, Progress, WorkDone, Register, Store, ReportDone, SettleDone, Raises,
                KeepError, SettleFailed, ReportError, Finally, WorkerAt
  <2>5. \A x \in Jobs \ {j} : status'[x] = status[x]
    BY <1>2 DEF Work, Progress, WorkDone, Register, Store, ReportDone, SettleDone, Raises,
                KeepError, SettleFailed, ReportError, Finally
  <2> QED
    BY <2>1, <2>2, <2>3, <2>4, <2>5 DEF ForgottenInv
<1>3. ASSUME NEW s \in Streams, Serve(s) \/ Drop(s)
      PROVE  Grows
  <2>1. spc[s] # "free" /\ UNCHANGED <<jobVars, sjob>>
    BY <1>3 DEF Serve, SendEvent, Drained, CheckRunning, CheckSettled, Drop, StreamAt
  <2>2. \A x \in Streams : spc[x] # "free" => spc'[x] # "free"
    BY <1>3 DEF Serve, SendEvent, Drained, CheckRunning, CheckSettled, Drop, StreamAt, Write
  <2> QED
    BY <2>1, <2>2 DEF jobVars
<1>4. ASSUME NEW s \in Streams, NEW j \in Jobs, OpenStream(s, j)
      PROVE  Grows
  BY <1>4 DEF OpenStream, StreamAt, jobVars
<1>5. CASE Crash
  BY <1>5 DEF Crash
<1>6. CASE UNCHANGED vars
  BY <1>6 DEF vars, jobVars, streamVars
<1> QED
  BY <1>1, <1>2, <1>3, <1>4, <1>5, <1>6 DEF ServerStep

\* The same of what a page does.
LEMMA ClientGrows == ASSUME ClientStep PROVE Grows
BY DEF ClientStep, Grows, jobVars

\* A job that is forgotten has lost its thread, and gets no other.
LEMMA ForgottenStep == ASSUME TypeOK, WorkInv, ForgottenInv, ServerStep PROVE ForgottenInv'
<1> USE DEF TypeOK, ForgottenInv
<1>1. ASSUME NEW j \in Jobs, NEW k \in Kinds, NEW held \in BOOLEAN,
             StartJob(j, k, held) \/ StartFails(j, k, held)
      PROVE  ForgottenInv'
  <2>1. CreateJob(j, k, held) /\ \A x \in Jobs \ {j} : worker'[x] = worker[x]
    BY <1>1 DEF StartJob, StartFails
  <2>2. /\ kind' = [kind EXCEPT ![j] = k]
        /\ status' = [status EXCEPT ![j] = "running"]
    BY <2>1 DEF CreateJob
  <2> QED
    BY <2>1, <2>2
<1>2. ASSUME NEW j \in Jobs, Work(j)
      PROVE  ForgottenInv'
  <2>1. worker[j] # "end" /\ UNCHANGED kind
    BY <1>2 DEF Work, Progress, WorkDone, Register, Store, ReportDone, SettleDone, Raises,
                KeepError, SettleFailed, ReportError, Finally, WorkerAt
  <2>2. \A x \in Jobs \ {j} : status'[x] = status[x] /\ worker'[x] = worker[x]
    BY <1>2 DEF Work, Progress, WorkDone, Register, Store, ReportDone, SettleDone, Raises,
                KeepError, SettleFailed, ReportError, Finally, WorkerAt
  <2>3. status'[j] \in {status[j], "done", "failed"}
    BY <1>2 DEF Work, Progress, WorkDone, Register, Store, ReportDone, SettleDone, Raises,
                KeepError, SettleFailed, ReportError, Finally
  <2> QED
    BY <2>1, <2>2, <2>3
<1>3. ASSUME NEW s \in Streams, Serve(s) \/ Drop(s) \/ \E j \in Jobs : OpenStream(s, j)
      PROVE  ForgottenInv'
  BY <1>3 DEF Serve, SendEvent, Drained, CheckRunning, CheckSettled, Drop, OpenStream, jobVars
<1>4. CASE Crash
  BY <1>4 DEF Crash
<1>5. CASE UNCHANGED vars
  BY <1>5 DEF vars, jobVars
<1> QED
  BY <1>1, <1>2, <1>3, <1>4, <1>5 DEF ServerStep

\* An event is added where the job is what the event says, and stays so.
LEMMA EventsStep == ASSUME TypeOK, WorkInv, EventsInv, Grows, ServerStep PROVE EventsInv'
<1> USE DEF TypeOK
<1>1. ASSUME UNCHANGED events, \A j \in Jobs : worker'[j] = "tell" => error'[j]
      PROVE  EventsInv'
  BY <1>1 DEF EventsInv, Grows
<1>2. ASSUME NEW j \in Jobs, NEW stage \in Stages, Append1(j, stage), UNCHANGED <<error, deployed>>,
             stage = "done" => j \in deployed, stage = "error" => error[j],
             \A x \in Jobs : worker'[x] = "tell" => error'[x]
      PROVE  EventsInv'
  <2> SUFFICES ASSUME NEW x \in Jobs, NEW i \in 1..Len(events'[x])
               PROVE  /\ events'[x][i] = "done" => x \in deployed
                      /\ events'[x][i] = "error" => error[x]
    BY <1>2 DEF EventsInv
  <2>1. CASE x # j
    BY <1>2, <2>1 DEF EventsInv, Append1
  <2>2. CASE x = j
    <3>1. events[j] \in Seq(Stages) /\ events'[j] = Append(events[j], stage)
      BY <1>2 DEF Append1
    <3>2. /\ Len(events'[j]) = Len(events[j]) + 1
          /\ events'[j][Len(events[j]) + 1] = stage
          /\ \A n \in 1..Len(events[j]) : events'[j][n] = events[j][n]
      BY <3>1, AppendProperties
    <3>3. i \in 1..Len(events[j]) \/ i = Len(events[j]) + 1
      BY <2>2, <3>1, <3>2
    <3> QED
      BY <1>2, <2>2, <3>2, <3>3 DEF EventsInv
  <2> QED
    BY <2>1, <2>2
<1>3. ASSUME NEW j \in Jobs, NEW k \in Kinds, NEW held \in BOOLEAN,
             StartJob(j, k, held) \/ StartFails(j, k, held)
      PROVE  EventsInv'
  <2>1. CreateJob(j, k, held) /\ \E w \in {"work", "end"} : worker' = [worker EXCEPT ![j] = w]
    BY <1>3 DEF StartJob, StartFails
  <2>2. UNCHANGED <<events, error>>
    BY <2>1 DEF CreateJob
  <2> QED
    BY <1>1, <2>1, <2>2 DEF EventsInv
<1>4. ASSUME NEW j \in Jobs, Progress(j) \/ ReportDone(j) \/ ReportError(j)
      PROVE  EventsInv'
  <2>1. \A x \in Jobs : worker'[x] = "tell" => error'[x]
    BY <1>4 DEF Progress, ReportDone, ReportError, WorkerAt, EventsInv
  <2>2. CASE Progress(j)
    BY <1>2, <2>1, <2>2 DEF Progress, Stages
  <2>3. CASE ReportDone(j)
    BY <1>2, <2>1, <2>3 DEF ReportDone, WorkerAt, WorkInv, Stages
  <2>4. CASE ReportError(j)
    BY <1>2, <2>1, <2>4 DEF ReportError, WorkerAt, EventsInv, Stages
  <2> QED
    BY <1>4, <2>2, <2>3, <2>4
<1>5. ASSUME NEW j \in Jobs,
             WorkDone(j) \/ Register(j) \/ Store(j) \/ SettleDone(j) \/ Raises(j)
                 \/ KeepError(j) \/ SettleFailed(j) \/ Finally(j)
      PROVE  EventsInv'
  <2>1. UNCHANGED events
    BY <1>5 DEF WorkDone, Register, Store, SettleDone, Raises, KeepError, SettleFailed, Finally
  <2>2. \A x \in Jobs : worker'[x] = "tell" => error'[x]
    <3>1. \A x \in Jobs : worker'[x] = "tell" => worker[x] = "tell" \/ error[x]
      BY <1>5 DEF WorkDone, Register, Store, SettleDone, Raises, KeepError, SettleFailed, Finally,
                  WorkerAt, WorkInv
    <3> QED
      BY <3>1 DEF EventsInv, Grows
  <2> QED
    BY <1>1, <2>1, <2>2
<1>6. ASSUME NEW s \in Streams, Serve(s) \/ Drop(s) \/ \E j \in Jobs : OpenStream(s, j)
      PROVE  EventsInv'
  <2>1. UNCHANGED jobVars
    BY <1>6 DEF Serve, SendEvent, Drained, CheckRunning, CheckSettled, Drop, OpenStream
  <2> QED
    BY <1>1, <2>1 DEF jobVars, EventsInv
<1>7. CASE Crash
  BY <1>1, <1>7 DEF Crash, EventsInv
<1>8. CASE UNCHANGED vars
  BY <1>1, <1>8 DEF vars, jobVars, EventsInv
<1> QED
  BY <1>3, <1>4, <1>5, <1>6, <1>7, <1>8 DEF ServerStep, Work

\* A frame that is true leaves the wire of its stream true.
LEMMA WriteTrue ==
    ASSUME TypeOK, WireInv, NEW s \in Streams, NEW frame \in Frames, NEW to, to # "free",
           spc[s] # "free", sjob[s] \in Jobs, Truthful(frame, sjob[s]), Write(s, frame, to),
           UNCHANGED <<jobVars, sjob>>
    PROVE  WireInv'
<1> USE DEF TypeOK
<1>1. wire[s] \in Seq(Frames)
  OBVIOUS
<1>2. /\ Len(Append(wire[s], frame)) = Len(wire[s]) + 1
      /\ Append(wire[s], frame)[Len(wire[s]) + 1] = frame
      /\ \A n \in 1..Len(wire[s]) : Append(wire[s], frame)[n] = wire[s][n]
  BY <1>1, AppendProperties
<1>3. \A i \in 1..Len(Append(wire[s], frame)) : Truthful(Append(wire[s], frame)[i], sjob[s])
  <2> SUFFICES ASSUME NEW i \in 1..Len(Append(wire[s], frame))
               PROVE  Truthful(Append(wire[s], frame)[i], sjob[s])
    OBVIOUS
  <2>1. i \in 1..Len(wire[s]) \/ i = Len(wire[s]) + 1
    BY <1>1, <1>2
  <2>2. \A n \in 1..Len(wire[s]) : Truthful(wire[s][n], sjob[s])
    BY DEF WireInv
  <2> QED
    BY <1>2, <2>1, <2>2
<1>4. \A x \in Streams :
         /\ wire'[x] = wire[x] \/ (x = s /\ wire'[x] = Append(wire[s], frame))
         /\ spc'[x] = "free" => x # s /\ spc[x] = "free"
  BY DEF Write
<1>5. UNCHANGED <<deployed, error, sjob>>
  BY DEF jobVars
<1> SUFFICES ASSUME NEW x \in Streams
             PROVE  /\ spc'[x] = "free" => wire'[x] = <<>>
                    /\ wire'[x] # <<>> => sjob[x] \in Jobs
                    /\ \A i \in 1..Len(wire'[x]) : Truthful(wire'[x][i], sjob[x])
  BY <1>5 DEF WireInv, Truthful
<1>6. CASE wire'[x] = wire[x]
  BY <1>4, <1>6 DEF WireInv
<1>7. CASE x = s /\ wire'[x] = Append(wire[s], frame)
  BY <1>3, <1>4, <1>7
<1> QED
  BY <1>4, <1>6, <1>7

\* Where nothing new is written, what is still under way stays true.
LEMMA WireKept ==
    ASSUME WireInv, Grows,
           \A s \in Streams :
              /\ wire'[s] = wire[s] \/ wire'[s] = <<>>
              /\ spc'[s] = "free" => spc[s] = "free"
              /\ sjob'[s] = sjob[s] \/ spc[s] = "free"
    PROVE  WireInv'
<1> SUFFICES ASSUME NEW s \in Streams
             PROVE  /\ (spc[s] = "free" => wire[s] = <<>>)'
                    /\ (wire[s] # <<>> => sjob[s] \in Jobs)'
                    /\ (\A i \in 1..Len(wire[s]) : Truthful(wire[s][i], sjob[s]))'
  BY DEF WireInv
<1>1. CASE wire'[s] = <<>>
  BY <1>1
<1>2. CASE wire'[s] = wire[s] /\ wire[s] # <<>>
  <2>1. spc[s] # "free" /\ sjob'[s] = sjob[s] /\ sjob[s] \in Jobs
    BY <1>2 DEF WireInv
  <2>2. \A i \in 1..Len(wire[s]) : Truthful(wire[s][i], sjob[s])
    BY DEF WireInv
  <2> QED
    BY <1>2, <2>1, <2>2 DEF Truthful, Grows
<1> QED
  BY <1>1, <1>2

\* The server writes only what is so of the stream's job.
LEMMA WireStep ==
    ASSUME TypeOK, StreamInv, WorkInv, DoneIsDone, EventsInv, WireInv, Grows, ServerStep
    PROVE  WireInv'
<1> USE DEF TypeOK
<1>1. ASSUME NEW s \in Streams, SendEvent(s)
      PROVE  WireInv'
  <2> DEFINE stage == events[sjob[s]][sent[s] + 1]
  <2>1. spc[s] = "drain" /\ sjob[s] \in Jobs /\ sent[s] \in Nat
    BY <1>1 DEF SendEvent, StreamInv
  <2>2. sent[s] + 1 \in 1..Len(events[sjob[s]]) /\ stage \in Stages /\ Event(stage) \in Frames
    BY <1>1, <2>1, FrameTypes DEF SendEvent
  <2>3. stage # "status"
    BY <2>2 DEF Stages
  <2>4. Truthful(Event(stage), sjob[s])
    BY <2>1, <2>2, <2>3 DEF EventsInv, Event, Truthful
  <2> QED
    BY <1>1, <2>1, <2>2, <2>4, WriteTrue DEF SendEvent
<1>2. ASSUME NEW s \in Streams, CheckSettled(s)
      PROVE  WireInv'
  <2>1. spc[s] = "check" /\ sjob[s] \in Jobs /\ status[sjob[s]] \in Settled
    BY <1>2 DEF CheckSettled, StreamInv
  <2>2. Closing(sjob[s]) \in Frames
    BY <2>1, FrameTypes
  <2>3. Truthful(Closing(sjob[s]), sjob[s])
    BY <2>1 DEF Truthful, Closing, Settled, DoneIsDone, WorkInv
  <2> QED
    BY <1>2, <2>1, <2>2, <2>3, WriteTrue DEF CheckSettled
<1>3. ASSUME NEW j \in Jobs, NEW k \in Kinds, NEW held \in BOOLEAN,
             StartJob(j, k, held) \/ StartFails(j, k, held)
      PROVE  WireInv'
  BY <1>3, WireKept DEF StartJob, StartFails, streamVars
<1>4. ASSUME NEW j \in Jobs, Work(j)
      PROVE  WireInv'
  <2>1. UNCHANGED streamVars
    BY <1>4 DEF Work, Progress, WorkDone, Register, Store, ReportDone, SettleDone, Raises,
                KeepError, SettleFailed, ReportError, Finally
  <2> QED
    BY <2>1, WireKept DEF streamVars
<1>5. ASSUME NEW s \in Streams, Drained(s) \/ CheckRunning(s) \/ Drop(s)
      PROVE  WireInv'
  <2>1. UNCHANGED sjob
    BY <1>5 DEF Drained, CheckRunning, Drop
  <2>2. \A x \in Streams : wire'[x] = wire[x] \/ wire'[x] = <<>>
    BY <1>5 DEF Drained, CheckRunning, Drop
  <2>3. \A x \in Streams : spc'[x] = "free" => spc[x] = "free"
    BY <1>5 DEF Drained, CheckRunning, Drop, StreamAt
  <2> QED
    BY <2>1, <2>2, <2>3, WireKept
<1>6. ASSUME NEW s \in Streams, NEW j \in Jobs, OpenStream(s, j)
      PROVE  WireInv'
  BY <1>6, WireKept DEF OpenStream, StreamAt
<1>7. CASE Crash
  BY <1>7, WireKept DEF Crash
<1>8. CASE UNCHANGED vars
  BY <1>8, WireKept DEF vars, streamVars
<1> QED
  BY <1>1, <1>2, <1>3, <1>4, <1>5, <1>6, <1>7, <1>8 DEF ServerStep, Serve

\* Reading and leaving streams makes nothing on the wire untrue.
LEMMA ClientWire == ASSUME TypeOK, WireInv, ClientStep PROVE WireInv'
<1>1. UNCHANGED <<deployed, error>>
  BY DEF ClientStep, jobVars
<1> SUFFICES ASSUME NEW s \in Streams
             PROVE  /\ spc'[s] = "free" => wire'[s] = <<>>
                    /\ wire'[s] # <<>> => sjob'[s] \in Jobs
                    /\ \A i \in 1..Len(wire'[s]) : Truthful(wire'[s][i], sjob'[s])
  BY <1>1 DEF WireInv, Truthful
<1>2. wire[s] \in Seq(Frames)
  BY DEF TypeOK
<1>3. /\ spc[s] = "free" => wire[s] = <<>>
      /\ wire[s] # <<>> => sjob[s] \in Jobs
      /\ \A i \in 1..Len(wire[s]) : Truthful(wire[s][i], sjob[s])
  BY DEF WireInv
<1>4. \/ spc'[s] = spc[s] /\ sjob'[s] = sjob[s]
      \/ wire[s] = <<>> /\ wire'[s] = <<>>
  <2>1. CASE spc'[s] = spc[s] /\ sjob'[s] = sjob[s]
    BY <2>1
  <2>2. CASE spc[s] = "free"
    BY <1>3, <2>2 DEF ClientStep
  <2> QED
    BY <2>1, <2>2 DEF ClientStep
<1>5. CASE wire'[s] = wire[s]
  BY <1>3, <1>4, <1>5
<1>6. CASE wire'[s] = <<>>
  BY <1>6
<1>7. CASE wire[s] # <<>> /\ wire'[s] = Tail(wire[s])
  <2>1. /\ Len(wire'[s]) = Len(wire[s]) - 1
        /\ \A i \in 1..Len(wire'[s]) : i + 1 \in 1..Len(wire[s]) /\ wire'[s][i] = wire[s][i + 1]
    BY <1>2, <1>7, HeadTailProperties
  <2> QED
    BY <1>3, <1>4, <1>7, <2>1
<1> QED
  BY <1>5, <1>6, <1>7 DEF ClientStep

\* The server's part keeps what is known of it, whichever of the two takes a step.
LEMMA ServerInvStep == ASSUME ServerInv, ServerStep \/ ClientStep PROVE ServerInv' /\ Grows
<1>1. CASE ServerStep
  <2>1. Grows
    BY <1>1, ServerGrows DEF ServerInv
  <2>2. TypeOK' /\ StreamInv' /\ WorkInv' /\ DoneIsDone'
    BY <1>1, TypeStep, StreamStep, WorkStep, DoneStep DEF ServerInv
  <2>3. ForgottenInv' /\ EventsInv' /\ WireInv'
    BY <1>1, <2>1, ForgottenStep, EventsStep, WireStep DEF ServerInv
  <2> QED
    BY <2>1, <2>2, <2>3 DEF ServerInv
<1>2. CASE ClientStep
  <2>1. WireInv'
    BY <1>2, ClientWire DEF ServerInv
  <2>2. UNCHANGED jobVars
    BY <1>2 DEF ClientStep
  <2>3. TypeOK'
    BY <1>2, <2>2 DEF ClientStep, ServerInv, TypeOK, jobVars
  <2>4. StreamInv'
    BY <1>2 DEF ClientStep, ServerInv, StreamInv
  <2>5. WorkInv' /\ DoneIsDone' /\ ForgottenInv' /\ EventsInv'
    BY <2>2 DEF ServerInv, WorkInv, DoneIsDone, ForgottenInv, EventsInv, jobVars
  <2> QED
    BY <1>2, <2>1, <2>3, <2>4, <2>5, ClientGrows DEF ServerInv
<1> QED
  BY <1>1, <1>2

\* It holds where the server starts.
LEMMA ServerInvInit == Init => ServerInv
<1> SUFFICES ASSUME Init PROVE ServerInv
  OBVIOUS
<1>1. TypeOK /\ StreamInv /\ WorkInv /\ DoneIsDone
  BY InvInit DEF IInv
<1>2. ForgottenInv
  BY DEF Init, ForgottenInv
<1>3. EventsInv /\ WireInv
  BY DEF Init, EventsInv, WireInv
<1> QED
  BY <1>1, <1>2, <1>3 DEF ServerInv

-----------------------------------------------------------------------------

Created == {j \in Jobs : kind[j] # None}

\* A tab knows only jobs that were created, follows one while it shows one, and its
\* EventSource is a stream about that job.
Follows(p) ==
    /\ {posted[p], job[p], kept[p]} \subseteq Created \cup {None}
    /\ probes[p] \subseteq Created
    /\ phase[p] = "posting" <=> posted[p] # None
    /\ source[p] # None => phase[p] = "running"
    /\ phase[p] \in {"running", "downloading"} \/ result[p] # None => job[p] # None
    /\ source[p] # None =>
          spc[source[p]] # "free" /\ job[p] # None /\ sjob[source[p]] = job[p]

Shows(p) ==
    /\ result[p] \in {"done", "status done", "saved"} => job[p] \in deployed
    /\ result[p] \in {"error", "status failed"} => error[job[p]]

\* The jobs whose end a tab was told of are created, and it follows or keeps none of them.
Told(p) ==
    /\ reported[p] \subseteq Created
    /\ posted[p] \notin reported[p]
    /\ kept[p] \notin reported[p]
    /\ p \in Pages /\ phase[p] = "running" => job[p] \notin reported[p]

TabInv(p) == Follows(p) /\ Shows(p) /\ Told(p)

PagesInv == PagesTypeOK /\ ServerInv /\ \A p \in Tabs : TabInv(p)

\* A step of one tab: the others' variables stay.
TabStep(p) ==
    /\ phase' \in [Tabs -> {"choose", "posting", "running", "result", "downloading"}]
    /\ posted' \in [Tabs -> Jobs \cup {None}]
    /\ result' \in [Tabs -> Results \cup {None}]
    /\ job' \in [Tabs -> Jobs \cup {None}]
    /\ source' \in [Tabs -> Streams \cup {None}]
    /\ kept' \in [Tabs -> Jobs \cup {None}]
    /\ probes' \in [Tabs -> SUBSET Jobs]
    /\ reported' \in [Tabs -> SUBSET Jobs]
    /\ \A q \in Tabs \ {p} :
        /\ phase'[q] = phase[q] /\ posted'[q] = posted[q] /\ result'[q] = result[q]
        /\ job'[q] = job[q] /\ source'[q] = source[q] /\ kept'[q] = kept[q]
        /\ probes'[q] = probes[q] /\ reported'[q] = reported[q]

\* What is shown is what the invariant says of each tab.
LEMMA PagesInvShows == PagesInv => PagesTypeOK /\ ShownTruly /\ EndToldOnce
BY DEF PagesInv, TabInv, Shows, Told, ShownTruly, EndToldOnce, Tabs

\* Nothing that happens elsewhere makes what a tab shows or follows untrue.
LEMMA TabStays ==
    ASSUME PagesInv, Grows, NEW p \in Tabs,
           phase'[p] = phase[p], posted'[p] = posted[p], result'[p] = result[p],
           job'[p] = job[p], source'[p] = source[p], kept'[p] = kept[p], probes'[p] = probes[p],
           reported'[p] = reported[p]
    PROVE  TabInv(p)'
<1>1. /\ TabInv(p)
      /\ job[p] \in Jobs \cup {None} /\ source[p] \in Streams \cup {None}
      /\ result[p] \in Results \cup {None} /\ kept[p] \in Jobs \cup {None}
      /\ posted[p] \in Jobs \cup {None} /\ probes[p] \subseteq Jobs
      /\ reported[p] \subseteq Jobs
  BY DEF PagesInv, PagesTypeOK
<1>2. Created \subseteq Created'
  BY DEF Grows, Created
<1>3. Follows(p)'
  BY <1>1, <1>2 DEF TabInv, Follows, Grows
<1>4. Shows(p)'
  <2>1. result[p] \in {"error", "status failed"} => job[p] \in Jobs
    BY <1>1, PagesAssumption DEF TabInv, Follows, Created, Results
  <2> QED
    BY <1>1, <2>1 DEF TabInv, Shows, Grows
<1>5. Told(p)'
  BY <1>1, <1>2 DEF TabInv, Told
<1> QED
  BY <1>3, <1>4, <1>5 DEF TabInv

\* So a tab's own step has to answer for that tab alone.
LEMMA TabAlone ==
    ASSUME PagesInv, ServerStep \/ ClientStep, NEW p \in Tabs, TabStep(p),
           Grows /\ ServerInv' => TabInv(p)'
    PROVE  PagesInv'
<1>1. Grows /\ ServerInv'
  BY ServerInvStep DEF PagesInv
<1>2. PagesTypeOK'
  BY <1>1 DEF ServerInv, PagesTypeOK, TabStep
<1>3. \A q \in Tabs \ {p} : TabInv(q)'
  BY <1>1, TabStays DEF TabStep
<1> QED
  BY <1>1, <1>2, <1>3 DEF PagesInv

\* The types of what a tab holds, and what is known of it.
LEMMA TabFacts ==
    ASSUME PagesInv, NEW p \in Tabs
    PROVE  /\ phase \in [Tabs -> {"choose", "posting", "running", "result", "downloading"}]
           /\ posted \in [Tabs -> Jobs \cup {None}]
           /\ result \in [Tabs -> Results \cup {None}]
           /\ job \in [Tabs -> Jobs \cup {None}]
           /\ source \in [Tabs -> Streams \cup {None}]
           /\ kept \in [Tabs -> Jobs \cup {None}]
           /\ probes \in [Tabs -> SUBSET Jobs]
           /\ reported \in [Tabs -> SUBSET Jobs]
           /\ TypeOK /\ ServerInv
           /\ Follows(p) /\ Shows(p) /\ Told(p)
BY DEF PagesInv, PagesTypeOK, TabInv

\* None is no job that could report.
LEMMA NoneReported == ASSUME PagesInv, NEW p \in Tabs PROVE None \notin reported[p]
BY TabFacts, JobsAssumption

\* A tab has a stream only while it follows a job, and a call of its own before that.
LEMMA OneAtATime ==
    ASSUME PagesInv, NEW p \in Tabs
    PROVE  /\ phase[p] # "running" => source[p] = None
           /\ phase[p] # "posting" => posted[p] = None
           /\ source[p] # None => posted[p] = None
BY TabFacts DEF Follows

\* The page's own POST creates the job it then waits for.
LEMMA PostStep == ASSUME PagesInv, NEW p \in Tabs, NEW j \in Jobs, Post(p, j) PROVE PagesInv'
<1>1. PICK k \in Kinds : StartJob(j, k, FALSE)
  BY DEF Post, Kinds
<1>2. ServerStep
  BY <1>1 DEF ServerStep
<1>3. TabStep(p)
  BY TabFacts DEF Post, TabStep
<1>4. ASSUME Grows PROVE TabInv(p)'
  <2>1. kind' = [kind EXCEPT ![j] = k] /\ k # None /\ UNCHANGED streamVars
    BY <1>1, KindsAreSome DEF StartJob, CreateJob
  <2>2. j \in Created' /\ Created \subseteq Created'
    BY <1>4, <2>1, TabFacts DEF Created, TypeOK, Grows
  <2>3. posted'[p] = j /\ phase'[p] = "posting"
        /\ source[p] = None /\ UNCHANGED <<result, job, source, kept, probes, reported>>
    BY TabFacts, OneAtATime DEF Post
  <2>4. Follows(p)'
    <3>1. job[p] \in Created \cup {None} /\ kept[p] \in Created \cup {None} /\ probes[p] \subseteq Created
      BY TabFacts DEF Follows
    <3>2. {j, job[p], kept[p]} \subseteq Created' \cup {None} /\ probes[p] \subseteq Created'
      BY <2>2, <3>1
    <3>3. j # None
      BY JobsAssumption
    <3> QED
      BY <2>1, <2>3, <3>2, <3>3, TabFacts DEF Follows, streamVars
  <2>5. Shows(p)'
    <3>1. result[p] \in {"error", "status failed"} => job[p] \in Jobs
      BY TabFacts, PagesAssumption DEF Follows, Created, Results
    <3> QED
      BY <1>4, <2>3, <3>1, TabFacts DEF Shows, Grows
  <2>6. Told(p)'
    <3>1. j \notin Created
      BY <1>1 DEF StartJob, CreateJob, Created
    <3> QED
      BY <2>2, <2>3, <3>1, TabFacts DEF Told
  <2> QED
    BY <2>4, <2>5, <2>6 DEF TabInv
<1> QED
  BY <1>2, <1>3, <1>4, TabAlone

\* Where only what the tab shows changes.
LEMMA PostFailsStep == ASSUME PagesInv, NEW p \in Tabs, PostFails(p) PROVE PagesInv'
<1>1. ServerStep
  BY DEF PostFails, ServerStep
<1>2. TabStep(p)
  BY TabFacts DEF PostFails, TabStep
<1>3. ASSUME Grows PROVE TabInv(p)'
  <2>1. /\ phase'[p] \in {"choose", "result"} /\ posted'[p] = None /\ source[p] = None
        /\ UNCHANGED <<kind, deployed, error, spc, sjob, result, job, source, kept, probes, reported>>
    BY TabFacts, OneAtATime DEF PostFails, vars, jobVars, streamVars
  <2>2. Follows(p)'
    BY <2>1, TabFacts DEF Follows, Created
  <2>3. Shows(p)' /\ Told(p)'
    BY <2>1, TabFacts, NoneReported DEF Shows, Told, Created
  <2> QED
    BY <2>2, <2>3 DEF TabInv
<1> QED
  BY <1>1, <1>2, <1>3, TabAlone

\* The answer gives the page the job it asked for, to follow and to keep.
LEMMA PostedStep ==
    ASSUME PagesInv, NEW p \in Tabs, NEW s \in Streams, Posted(p, s)
    PROVE  PagesInv'
<1>1. posted[p] \in Created /\ posted[p] \in Jobs /\ posted[p] # None
  BY TabFacts, JobsAssumption DEF Posted, Follows, Created
<1>2. OpenStream(s, posted[p])
  BY DEF Posted, Attach
<1>3. ServerStep
  BY <1>1, <1>2 DEF ServerStep
<1>4. TabStep(p)
  BY <1>1, TabFacts DEF Posted, Attach, TabStep
<1>5. ASSUME Grows PROVE TabInv(p)'
  <2>1. /\ phase'[p] = "running" /\ result'[p] = None /\ source'[p] = s
        /\ job'[p] = posted[p] /\ posted'[p] = None /\ UNCHANGED <<probes, reported>>
        /\ kept'[p] \in {kept[p], posted[p]}
    BY TabFacts DEF Posted, Attach
  <2>2. kind' = kind /\ spc'[s] # "free" /\ sjob'[s] = posted[p]
    BY <1>2, TabFacts DEF OpenStream, StreamAt, jobVars, TypeOK
  <2>3. Follows(p)'
    BY <1>1, <2>1, <2>2, TabFacts DEF Follows, Created
  <2>4. Shows(p)'
    BY <2>1, PagesAssumption DEF Shows, Results
  <2>5. Told(p)'
    BY <2>1, <2>2, TabFacts, NoneReported DEF Told, Created
  <2> QED
    BY <2>3, <2>4, <2>5 DEF TabInv
<1> QED
  BY <1>3, <1>4, <1>5, TabAlone

\* What is read is true of the job the tab follows.
LEMMA ReadTrue ==
    ASSUME PagesInv, NEW p \in Tabs, NEW stage, Reads(p, stage)
    PROVE  /\ source[p] \in Streams /\ job[p] \in Jobs
           /\ Head(wire[source[p]]).stage = stage
           /\ Truthful(Head(wire[source[p]]), job[p])
<1>1. source[p] \in Streams /\ source[p] # None /\ wire[source[p]] # <<>>
  BY TabFacts DEF Reads
<1>2. sjob[source[p]] = job[p] /\ job[p] \in Jobs
  BY <1>1, TabFacts DEF Follows, Created
<1>3. wire[source[p]] \in Seq(Frames)
  BY <1>1, TabFacts DEF TypeOK
<1>4. 1 \in 1..Len(wire[source[p]]) /\ Head(wire[source[p]]) = wire[source[p]][1]
  BY <1>1, <1>3, HeadTailProperties
<1>5. Truthful(wire[source[p]][1], sjob[source[p]])
  BY <1>1, <1>4, TabFacts DEF ServerInv, WireInv
<1> QED
  BY <1>1, <1>2, <1>4, <1>5 DEF Reads

\* Closing a tab's EventSource takes nothing from another stream.
LEMMA CloseStep ==
    ASSUME PagesInv, NEW p \in Tabs, source[p] # None, CloseSource(p),
           UNCHANGED <<jobVars, spc, sjob, sent>>
    PROVE  ClientStep /\ source'[p] = None
<1>1. source[p] \in Streams
  BY TabFacts
<1>2. wire' \in [Streams -> Seq(Frames)] /\ gone' \in SUBSET Streams
  BY <1>1, EmptySeq, TabFacts DEF CloseSource, TypeOK
<1>3. \A s \in Streams : wire'[s] \in {wire[s], <<>>}
  BY <1>1, TabFacts DEF CloseSource, TypeOK
<1> QED
  BY <1>1, <1>2, <1>3, TabFacts DEF CloseSource, ClientStep, TypeOK

\* A tab that ends on what is so of its job, and goes on knowing no other.
LEMMA FinishStep ==
    ASSUME PagesInv, NEW p \in Tabs, source[p] # None, job[p] \in Jobs, CloseSource(p),
           UNCHANGED <<jobVars, spc, sjob, sent, posted, job>>,
           NEW how \in Results \cup {None},
           phase' = [phase EXCEPT ![p] = "result"] \/ phase' = [phase EXCEPT ![p] = "downloading"],
           result' = [result EXCEPT ![p] = how] \/ (result' = result /\ how = result[p]),
           kept' = kept \/ kept' = [kept EXCEPT ![p] = None],
           probes' = probes \/ probes' = [probes EXCEPT ![p] = @ \cup {job[p]}],
           reported' = reported \/ (/\ reported' = [reported EXCEPT ![p] = @ \cup {job[p]}]
                                   /\ kept' = [kept EXCEPT ![p] = None]),
           how \in {"done", "status done", "saved"} => job[p] \in deployed,
           how \in {"error", "status failed"} => error[job[p]]
    PROVE  PagesInv'
<1>1. ClientStep /\ source'[p] = None
  BY CloseStep
<1>2. TabStep(p)
  <2>1. /\ phase' \in [Tabs -> {"choose", "posting", "running", "result", "downloading"}]
        /\ \A q \in Tabs \ {p} : phase'[q] = phase[q]
    BY TabFacts
  <2>2. result' \in [Tabs -> Results \cup {None}] /\ \A q \in Tabs \ {p} : result'[q] = result[q]
    <3>1. CASE result' = result
      BY <3>1, TabFacts
    <3>2. CASE result' = [result EXCEPT ![p] = how]
      BY <3>2, TabFacts
    <3> QED
      BY <3>1, <3>2
  <2>3. /\ source' \in [Tabs -> Streams \cup {None}]
        /\ \A q \in Tabs \ {p} : source'[q] = source[q]
    BY TabFacts DEF CloseSource
  <2>4. kept' \in [Tabs -> Jobs \cup {None}] /\ \A q \in Tabs \ {p} : kept'[q] = kept[q]
    BY TabFacts
  <2>5. probes' \in [Tabs -> SUBSET Jobs] /\ \A q \in Tabs \ {p} : probes'[q] = probes[q]
    <3>1. probes[p] \cup {job[p]} \in SUBSET Jobs /\ probes \in [Tabs -> SUBSET Jobs]
      BY TabFacts
    <3> QED
      BY <3>1
  <2>6. reported' \in [Tabs -> SUBSET Jobs] /\ \A q \in Tabs \ {p} : reported'[q] = reported[q]
    <3>1. reported[p] \cup {job[p]} \in SUBSET Jobs /\ reported \in [Tabs -> SUBSET Jobs]
      BY TabFacts
    <3> QED
      BY <3>1
  <2> QED
    BY <2>1, <2>2, <2>3, <2>4, <2>5, <2>6, TabFacts DEF TabStep
<1>3. /\ phase'[p] \in {"result", "downloading"} /\ result'[p] = how
      /\ kept'[p] \in {kept[p], None} /\ probes'[p] \subseteq probes[p] \cup {job[p]}
  BY TabFacts
<1>4. UNCHANGED <<kind, deployed, error, spc, sjob>>
  BY DEF jobVars
<1>5. job[p] \in Created /\ job[p] # None
  BY JobsAssumption, TabFacts DEF Follows
<1>6. Follows(p)'
  <2>1. Created' = Created
    BY <1>4 DEF Created
  <2>2. /\ posted[p] \in Created \cup {None} /\ kept[p] \in Created \cup {None}
        /\ probes[p] \subseteq Created
    BY TabFacts DEF Follows
  <2>3. {posted[p], job[p], kept'[p]} \subseteq Created \cup {None} /\ probes'[p] \subseteq Created
    BY <1>3, <1>5, <2>2
  <2> QED
    BY <1>1, <1>3, <1>5, <2>1, <2>3, OneAtATime DEF Follows
<1>7. Shows(p)'
  BY <1>3, <1>4 DEF Shows
<1>8. Told(p)'
  <2>1. Created' = Created
    BY <1>4 DEF Created
  <2>2. \/ reported'[p] = reported[p]
        \/ reported'[p] = reported[p] \cup {job[p]} /\ kept'[p] = None
    BY TabFacts
  <2>3. posted'[p] = None /\ Told(p) /\ phase'[p] # "running"
    BY <1>3, TabFacts, OneAtATime
  <2> QED
    BY <1>3, <1>5, <2>1, <2>2, <2>3, NoneReported, TabFacts, JobsAssumption DEF Told
<1> QED
  BY <1>1, <1>2, <1>6, <1>7, <1>8, TabAlone DEF TabInv

\* A step in which the tab only reads a frame, or puts the rest of them aside.
LEMMA QuietStep ==
    ASSUME PagesInv, NEW p \in Tabs, NEW s \in Streams, wire[s] # <<>>,
           wire' = [wire EXCEPT ![s] = Tail(@)] \/ wire' = [wire EXCEPT ![s] = <<>>],
           UNCHANGED <<jobVars, spc, sjob, sent, gone, pageVars>>
    PROVE  PagesInv'
<1>1. wire \in [Streams -> Seq(Frames)] /\ wire[s] \in Seq(Frames)
  BY TabFacts DEF TypeOK
<1>2. Tail(wire[s]) \in Seq(Frames)
  BY <1>1, HeadTailProperties
<1>3. wire' \in [Streams -> Seq(Frames)]
  BY <1>1, <1>2, EmptySeq
<1>4. \A x \in Streams : \/ wire'[x] \in {wire[x], <<>>}
                         \/ wire[x] # <<>> /\ wire'[x] = Tail(wire[x])
  BY <1>1
<1>5. ClientStep
  BY <1>3, <1>4, TabFacts DEF ClientStep, TypeOK
<1>6. TabStep(p)
  BY TabFacts DEF TabStep, pageVars
<1>7. Grows => TabInv(p)'
  BY TabStays DEF pageVars
<1> QED
  BY <1>5, <1>6, <1>7, TabAlone

\* A page ends on what its job reported.
LEMMA ReadStep ==
    ASSUME PagesInv, NEW p \in Tabs, ReadProgress(p) \/ ReadEnd(p) \/ ExportReads(p)
    PROVE  PagesInv'
<1>1. ASSUME ReadProgress(p) PROVE PagesInv'
  <2>1. source[p] \in Streams /\ wire[source[p]] # <<>>
    BY <1>1, ReadTrue DEF ReadProgress, Reads
  <2> QED
    BY <1>1, <2>1, QuietStep DEF ReadProgress
<1>2. ASSUME NEW stage, NEW how \in Results, ReadEndAs(p, stage, how),
             how \in {"done", "status done", "saved"} => job[p] \in deployed,
             how \in {"error", "status failed"} => error[job[p]]
      PROVE  PagesInv'
  <2>1. source[p] # None /\ job[p] \in Jobs
    BY <1>2, ReadTrue DEF ReadEndAs, Reads
  <2>2. /\ CloseSource(p) /\ phase' = [phase EXCEPT ![p] = "result"]
        /\ result' = [result EXCEPT ![p] = how] /\ kept' = [kept EXCEPT ![p] = None]
        /\ reported' = [reported EXCEPT ![p] = @ \cup {job[p]}]
        /\ UNCHANGED <<jobVars, spc, sjob, sent, posted, job, probes>>
    BY <1>2 DEF ReadEndAs, Finish
  <2> QED
    BY <1>2, <2>1, <2>2, FinishStep
<1>3. ASSUME ReadEnd(p) PROVE PagesInv'
  <2>1. CASE ReadEndAs(p, "done", "done")
    <3>1. job[p] \in deployed
      BY <2>1, ReadTrue DEF ReadEndAs, Truthful
    <3> QED
      BY <1>2, <2>1, <3>1 DEF Results
  <2>2. CASE ReadEndAs(p, "error", "error")
    <3>1. error[job[p]]
      BY <2>2, ReadTrue DEF ReadEndAs, Truthful
    <3> QED
      BY <1>2, <2>2, <3>1 DEF Results
  <2>3. CASE /\ Reads(p, "status")
             /\ ReadEndAs(p, "status", IF Head(wire[source[p]]).status = "done"
                                       THEN "status done" ELSE "status failed")
    <3>1. IF Head(wire[source[p]]).status = "done" THEN job[p] \in deployed ELSE error[job[p]]
      BY <2>3, ReadTrue DEF Truthful
    <3>2. CASE Head(wire[source[p]]).status = "done"
      BY <1>2, <2>3, <3>1, <3>2 DEF Results
    <3>3. CASE Head(wire[source[p]]).status # "done"
      BY <1>2, <2>3, <3>1, <3>3 DEF Results
    <3> QED
      BY <3>2, <3>3
  <2> QED
    BY <1>3, <2>1, <2>2, <2>3 DEF ReadEnd
<1>4. ASSUME ExportReads(p) PROVE PagesInv'
  <2>1. UNCHANGED <<jobVars, spc, sjob, sent, posted, job, kept, probes, reported>>
    BY <1>4 DEF ExportReads
  <2>2. ASSUME Reads(p, "done"), CloseSource(p), result' = result,
               phase' = [phase EXCEPT ![p] = "downloading"]
        PROVE  PagesInv'
    <3>1. source[p] # None /\ job[p] \in Jobs
      BY <2>2, ReadTrue DEF Reads
    <3>2. /\ result[p] \in Results \cup {None}
          /\ result[p] \in {"done", "status done", "saved"} => job[p] \in deployed
          /\ result[p] \in {"error", "status failed"} => error[job[p]]
      BY TabFacts DEF Shows
    <3> QED
      BY <2>1, <2>2, <3>1, <3>2, FinishStep
  <2>3. ASSUME Reads(p, "error"), Finish(p, "error")
        PROVE  PagesInv'
    <3>1. source[p] # None /\ job[p] \in Jobs /\ error[job[p]]
      BY <2>3, ReadTrue DEF Reads, Truthful
    <3>2. /\ CloseSource(p) /\ phase' = [phase EXCEPT ![p] = "result"]
          /\ result' = [result EXCEPT ![p] = "error"]
          /\ "error" \in Results \ {"done", "status done", "saved"}
      BY <2>3 DEF Finish, Results
    <3> QED
      BY <2>1, <3>1, <3>2, FinishStep
  <2>4. ASSUME Reads(p, "status"), Head(wire[source[p]]).status = "failed", Finish(p, "status failed")
        PROVE  PagesInv'
    <3>1. source[p] # None /\ job[p] \in Jobs /\ error[job[p]]
      BY <2>4, ReadTrue DEF Reads, Truthful
    <3>2. /\ CloseSource(p) /\ phase' = [phase EXCEPT ![p] = "result"]
          /\ result' = [result EXCEPT ![p] = "status failed"]
          /\ "status failed" \in Results \ {"done", "status done", "saved"}
      BY <2>4 DEF Finish, Results
    <3> QED
      BY <2>1, <3>1, <3>2, FinishStep
  <2>5. ASSUME Reads(p, "status"), wire' = [wire EXCEPT ![source[p]] = <<>>],
               UNCHANGED <<gone, source, phase, result>>
        PROVE  PagesInv'
    <3>1. source[p] \in Streams /\ wire[source[p]] # <<>>
      BY <2>5, ReadTrue DEF Reads
    <3> QED
      BY <2>1, <2>5, <3>1, QuietStep DEF pageVars
  <2> QED
    BY <1>4, <2>2, <2>3, <2>4, <2>5 DEF ExportReads
<1> QED
  BY <1>1, <1>3, <1>4

\* A stream that is lost shows no end at all.
LEMMA StreamLostStep == ASSUME PagesInv, NEW p \in Tabs, StreamLost(p) PROVE PagesInv'
<1>1. source[p] # None /\ job[p] \in Jobs
  BY TabFacts DEF StreamLost, Follows, Created
<1>2. probes' = probes \/ probes' = [probes EXCEPT ![p] = @ \cup {job[p]}]
  BY DEF StreamLost
<1>3. /\ CloseSource(p) /\ phase' = [phase EXCEPT ![p] = "result"]
      /\ result' = [result EXCEPT ![p] = "lost"]
      /\ UNCHANGED <<jobVars, spc, sjob, sent, posted, job, kept, reported>>
  BY DEF StreamLost, Finish
<1>4. "lost" \in Results \ {"done", "status done", "saved", "error", "status failed"}
  BY DEF Results
<1> QED
  BY <1>1, <1>2, <1>3, <1>4, FinishStep

\* A bundle that is saved was made, whichever job's it is.
LEMMA DownloadStep == ASSUME PagesInv, NEW p \in Tabs, Download(p) PROVE PagesInv'
<1>1. ServerStep
  BY DEF Download, ServerStep
<1>2. TabStep(p)
  BY TabFacts DEF Download, TabStep, Results
<1>3. job[p] \in Jobs
  BY TabFacts DEF Download, Follows, Created
<1>4. TabInv(p)'
  <2>1. /\ phase'[p] = "result" /\ result'[p] \in {"saved", "refused"}
        /\ source[p] = None /\ posted[p] = None
        /\ result'[p] = "saved" => status[job[p]] = "done"
        /\ UNCHANGED <<kind, deployed, error, spc, sjob, posted, job, source, kept, probes, reported>>
    BY TabFacts, OneAtATime DEF Download, vars, jobVars, streamVars
  <2>2. result'[p] = "saved" => job[p] \in deployed
    BY <1>3, <2>1, TabFacts DEF ServerInv, DoneIsDone
  <2>3. Follows(p)'
    BY <1>3, <2>1, TabFacts, JobsAssumption DEF Follows, Created
  <2>4. Shows(p)' /\ Told(p)'
    BY <2>1, <2>2, TabFacts DEF Shows, Told, Created
  <2> QED
    BY <2>3, <2>4 DEF TabInv
<1> QED
  BY <1>1, <1>2, <1>4, TabAlone

\* A 404 is a server that forgot a job: whatever was kept may go.
LEMMA ProbeStep ==
    ASSUME PagesInv, NEW p \in Tabs, NEW j \in Jobs, ProbeAnswered(p, j)
    PROVE  PagesInv'
<1>1. ServerStep
  BY DEF ProbeAnswered, ServerStep
<1>2. kept' = kept \/ (status[j] = "unknown" /\ kept' = [kept EXCEPT ![p] = None])
  BY DEF ProbeAnswered
<1>3. /\ j \in probes[p] /\ probes' = [probes EXCEPT ![p] = @ \ {j}]
      /\ UNCHANGED <<vars, phase, posted, result, job, source, reported>>
  BY DEF ProbeAnswered
<1>4. TabStep(p)
  BY <1>2, <1>3, TabFacts DEF TabStep
<1>5. TabInv(p)'
  <2>1. /\ UNCHANGED <<kind, deployed, error, spc, sjob, phase, posted, result, job, source, reported>>
        /\ probes'[p] \subseteq probes[p]
        /\ kept'[p] \in {kept[p], None}
    BY <1>2, <1>3, TabFacts DEF vars, jobVars, streamVars
  <2>3. Follows(p)'
    BY <2>1, TabFacts DEF Follows, Created
  <2>4. Shows(p)'
    BY <2>1, TabFacts DEF Shows
  <2>5. Told(p)'
    BY <2>1, TabFacts, NoneReported DEF Told, Created
  <2> QED
    BY <2>3, <2>4, <2>5 DEF TabInv
<1> QED
  BY <1>1, <1>4, <1>5, TabAlone

\* Another choice shows nothing.
LEMMA BackStep == ASSUME PagesInv, NEW p \in Tabs, Back(p) PROVE PagesInv'
<1>1. ServerStep
  BY DEF Back, ServerStep
<1>2. TabStep(p)
  BY TabFacts DEF Back, TabStep
<1>3. TabInv(p)'
  <2>1. /\ phase'[p] = "choose" /\ result'[p] = None
        /\ source[p] = None /\ posted[p] = None
        /\ UNCHANGED <<kind, deployed, error, spc, sjob, posted, job, source, kept, probes, reported>>
    BY TabFacts, OneAtATime DEF Back, vars, jobVars, streamVars
  <2>2. Follows(p)'
    BY <2>1, TabFacts DEF Follows, Created
  <2>3. Shows(p)' /\ Told(p)'
    BY <2>1, TabFacts, PagesAssumption DEF Shows, Told, Results, Created
  <2> QED
    BY <2>2, <2>3 DEF TabInv
<1> QED
  BY <1>1, <1>2, <1>3, TabAlone

\* A reload leaves the tab's stream and, if a job is kept, opens one about it.
LEMMA ReloadClient ==
    ASSUME PagesInv, NEW p \in Tabs, Reload(p), kept[p] # None, NEW s \in Streams,
           spc[s] = "free",
           spc' = [spc EXCEPT ![s] = IF status[kept[p]] = "unknown" THEN "ended" ELSE "drain"],
           sjob' = [sjob EXCEPT ![s] = kept[p]],
           gone' = gone \cup ({source[p]} \ {None}),
           wire' = [x \in Streams |-> IF x = source[p] THEN <<>> ELSE wire[x]],
           UNCHANGED <<jobVars, sent>>
    PROVE  ClientStep /\ spc'[s] # "free" /\ sjob'[s] = kept[p]
<1>1. kept[p] \in Jobs
  BY TabFacts
<1>2. \E to \in {"ended", "drain"} : spc' = [spc EXCEPT ![s] = to]
  OBVIOUS
<1>3. /\ spc' \in [Streams -> {"free", "drain", "check", "ended"}] /\ spc'[s] # "free"
      /\ \A x \in Streams \ {s} : spc'[x] = spc[x] /\ sjob'[x] = sjob[x]
      /\ sjob' \in [Streams -> Jobs \cup {None}] /\ sjob'[s] = kept[p]
  BY <1>1, <1>2, TabFacts DEF TypeOK
<1>4. wire' \in [Streams -> Seq(Frames)] /\ \A x \in Streams : wire'[x] \in {wire[x], <<>>}
  BY EmptySeq, TabFacts DEF TypeOK
<1>5. gone' \in SUBSET Streams
  BY TabFacts DEF TypeOK
<1> QED
  BY <1>1, <1>3, <1>4, <1>5 DEF ClientStep

\* A reloaded page shows no end before it has read one, and follows the job it kept.
LEMMA ReloadStep == ASSUME PagesInv, NEW p \in Tabs, Reload(p) PROVE PagesInv'
<1>1. /\ probes' = [probes EXCEPT ![p] = {}] /\ posted' = [posted EXCEPT ![p] = None]
      /\ UNCHANGED <<kept, reported>>
  BY DEF Reload
<1>2. ASSUME kept[p] = None PROVE PagesInv'
  <2>1. /\ phase' = [phase EXCEPT ![p] = "choose"] /\ result' = [result EXCEPT ![p] = None]
        /\ job' = [job EXCEPT ![p] = None]
        /\ IF source[p] = None THEN UNCHANGED <<gone, wire, source>> ELSE CloseSource(p)
        /\ UNCHANGED <<jobVars, spc, sjob, sent>>
    BY <1>2 DEF Reload
  <2>2. (ServerStep \/ ClientStep) /\ source'[p] = None /\ source' \in [Tabs -> Streams \cup {None}]
        /\ \A q \in Tabs \ {p} : source'[q] = source[q]
    <3>1. CASE source[p] = None
      BY <2>1, <3>1, TabFacts DEF ServerStep, vars, streamVars
    <3>2. CASE source[p] # None
      BY <2>1, <3>2, CloseStep, TabFacts DEF CloseSource
    <3> QED
      BY <3>1, <3>2
  <2>3. TabStep(p)
    BY <1>1, <2>1, <2>2, TabFacts DEF TabStep
  <2>4. TabInv(p)'
    <3>1. /\ phase'[p] = "choose" /\ result'[p] = None /\ job'[p] = None /\ posted'[p] = None
          /\ kept'[p] = None /\ probes'[p] = {} /\ reported'[p] = reported[p] /\ kind' = kind
      BY <1>1, <1>2, <2>1, TabFacts DEF jobVars
    <3>2. Follows(p)'
      BY <2>2, <3>1 DEF Follows
    <3>3. Shows(p)' /\ Told(p)'
      BY <3>1, TabFacts, NoneReported, PagesAssumption DEF Shows, Told, Results, Created
    <3> QED
      BY <3>2, <3>3 DEF TabInv
  <2> QED
    BY <2>2, <2>3, <2>4, TabAlone
<1>3. ASSUME kept[p] # None PROVE PagesInv'
  <2>1. PICK s \in Streams :
            /\ spc[s] = "free"
            /\ spc' = [spc EXCEPT ![s] = IF status[kept[p]] = "unknown" THEN "ended" ELSE "drain"]
            /\ sjob' = [sjob EXCEPT ![s] = kept[p]]
            /\ gone' = gone \cup ({source[p]} \ {None})
            /\ wire' = [x \in Streams |-> IF x = source[p] THEN <<>> ELSE wire[x]]
            /\ phase' = [phase EXCEPT ![p] = "running"]
            /\ result' = [result EXCEPT ![p] = None]
            /\ job' = [job EXCEPT ![p] = kept[p]]
            /\ source' = [source EXCEPT ![p] = s]
            /\ UNCHANGED <<jobVars, sent>>
    BY <1>3 DEF Reload
  <2>2. ClientStep /\ spc'[s] # "free" /\ sjob'[s] = kept[p]
    BY <1>3, <2>1, ReloadClient
  <2>3. TabStep(p)
    BY <1>1, <2>1, TabFacts DEF TabStep
  <2>4. TabInv(p)'
    <3>1. /\ phase'[p] = "running" /\ result'[p] = None /\ job'[p] = kept[p] /\ posted'[p] = None
          /\ kept'[p] = kept[p] /\ probes'[p] = {} /\ source'[p] = s /\ kind' = kind
          /\ reported'[p] = reported[p]
      BY <1>1, <2>1, TabFacts DEF jobVars
    <3>2. kept[p] \in Created
      BY <1>3, TabFacts DEF Follows
    <3>3. Follows(p)'
      BY <1>3, <2>2, <3>1, <3>2 DEF Follows, Created
    <3>4. Shows(p)' /\ Told(p)'
      BY <3>1, TabFacts, NoneReported, PagesAssumption DEF Shows, Told, Results, Created
    <3> QED
      BY <3>3, <3>4 DEF TabInv
  <2> QED
    BY <2>2, <2>3, <2>4, TabAlone
<1> QED
  BY <1>2, <1>3

\* The server's threads, the network and a crash change nothing a tab holds.
LEMMA PagesUnmoved ==
    ASSUME PagesInv, ServerStep, UNCHANGED pageVars
    PROVE  PagesInv'
<1>1. Grows /\ ServerInv'
  BY ServerInvStep DEF PagesInv
<1>2. PagesTypeOK'
  BY <1>1 DEF ServerInv, PagesInv, PagesTypeOK, pageVars
<1>3. \A p \in Tabs : TabInv(p)'
  BY <1>1, TabStays DEF pageVars
<1> QED
  BY <1>1, <1>2, <1>3 DEF PagesInv

\* Every step keeps the invariant.
LEMMA PagesInvStep == PagesInv /\ [PagesNext]_allVars => PagesInv'
<1> SUFFICES ASSUME PagesInv, [PagesNext]_allVars PROVE PagesInv'
  OBVIOUS
<1>1. ASSUME NEW p \in Tabs, \E j \in Jobs : Post(p, j) \/ ProbeAnswered(p, j)
      PROVE  PagesInv'
  BY <1>1, PostStep, ProbeStep
<1>2. ASSUME NEW p \in Tabs, Follow(p)
      PROVE  PagesInv'
  BY <1>2, PostedStep, PostFailsStep, ReadStep, DownloadStep, StreamLostStep DEF Follow
<1>3. ASSUME NEW p \in Tabs, Back(p) \/ Reload(p)
      PROVE  PagesInv'
  BY <1>3, BackStep, ReloadStep
<1>4. ASSUME \/ \E j \in Jobs : Work(j)
             \/ \E s \in Streams : Serve(s) \/ Drop(s)
             \/ Crash,
             UNCHANGED pageVars
      PROVE  PagesInv'
  BY <1>4, PagesUnmoved DEF ServerStep
<1>5. CASE UNCHANGED allVars
  BY <1>5, PagesUnmoved DEF allVars, ServerStep
<1> QED
  BY <1>1, <1>2, <1>3, <1>4, <1>5 DEF PagesNext

\* It holds before any page has asked for anything.
LEMMA PagesInvInit == PagesInit => PagesInv
<1> SUFFICES ASSUME PagesInit PROVE PagesInv
  OBVIOUS
<1>1. ServerInv
  BY ServerInvInit DEF PagesInit
<1>2. PagesTypeOK
  BY <1>1 DEF ServerInv, PagesInit, PagesTypeOK
<1>3. ASSUME NEW p \in Tabs PROVE TabInv(p)
  <2>1. /\ phase[p] = "choose" /\ posted[p] = None /\ result[p] = None /\ job[p] = None
        /\ source[p] = None /\ kept[p] = None /\ probes[p] = {} /\ reported[p] = {}
    BY DEF PagesInit
  <2>2. Follows(p)
    BY <2>1 DEF Follows
  <2>3. Shows(p) /\ Told(p)
    BY <2>1, PagesAssumption DEF Shows, Told, Results
  <2> QED
    BY <2>2, <2>3 DEF TabInv
<1> QED
  BY <1>1, <1>2, <1>3 DEF PagesInv

\* The invariant of the pages and the server they ask holds in every reachable state.
THEOREM PagesInvariant == PagesSpec => []PagesInv
BY PagesInvInit, PagesInvStep, PTL DEF PagesSpec

\* Tabs, jobs and streams keep their types, for any number of them.
THEOREM PagesTypes == PagesSpec => []PagesTypeOK
BY PagesInvariant, PagesInvShows, PTL

\* No tab ever shows an end that is not its job's, whatever frames are under way when
\* jobs end, streams break, pages are reloaded and the workbench dies.
THEOREM PagesShownTruly == PagesSpec => []ShownTruly
BY PagesInvariant, PagesInvShows, PTL

\* No tab follows again, nor would after a reload, an install that told it its end, whatever
\* sessionStorage refuses and whenever probes are answered.
THEOREM PagesEndToldOnce == PagesSpec => []EndToldOnce
BY PagesInvariant, PagesInvShows, PTL
=============================================================================
