---------------------------- MODULE RemoteCommand ----------------------------
(***************************************************************************)
(* One command on another machine: ParamikoSSHExecutor.run and _collect,   *)
(* core/executor.py. The thread that runs a deploy polls the channel while *)
(* paramiko's transport thread files what the server sends: data of two    *)
(* streams that share one window, the end of the output, an exit status    *)
(* that may come before the last of the output, or the end of the channel. *)
(*                                                                         *)
(* One action is one test or read of the channel, or one message filed.    *)
(* Output is counted, not spelled.                                         *)
(***************************************************************************)
EXTENDS Naturals

CONSTANTS
    Out, Err,  \* stdout and stderr
    MaxSent,   \* bounds what the command writes on a stream
    Window     \* what the channel holds unread before the server must wait

ASSUME CommandAssumption ==
    /\ Out # Err
    /\ {Out, Err} \cap {"flag", "test", "status", "returned", "timed out"} = {}
    /\ MaxSent \in Nat /\ Window \in Nat \ {0}

VARIABLES
    output,   \* output[s]: what the command has yet to write on stream s
    sent,     \* sent[s]: what was filed of it
    read,     \* read[s]: what _collect has read
    eof,      \* channel.eof_received
    closed,   \* channel.closed
    status,   \* whether the exit status is there
    place,    \* where _collect is
    ended     \* its local: whether the output had ended before this drain

channel == <<output, sent, eof, closed, status>>
commandVars == <<channel, read, place, ended>>

Streams == {Out, Err}
Counts == [Streams -> 0..MaxSent]

CommandTypeOK ==
    /\ output \in Counts /\ sent \in Counts /\ read \in Counts
    /\ eof \in BOOLEAN /\ closed \in BOOLEAN /\ status \in BOOLEAN
    /\ place \in {"flag", Out, Err, "test", "status", "returned", "timed out"}
    /\ ended \in BOOLEAN

CommandInit ==
    /\ output \in Counts
    /\ sent = [s \in Streams |-> 0]
    /\ read = [s \in Streams |-> 0]
    /\ eof = FALSE /\ closed = FALSE /\ status = FALSE
    /\ place = "flag"
    /\ ended = FALSE

Unread == (sent[Out] - read[Out]) + (sent[Err] - read[Err])

-----------------------------------------------------------------------------
(* What the transport thread files, in the order the server sends it.       *)

Data(s) ==
    /\ ~eof /\ ~closed
    /\ output[s] > 0
    /\ Unread < Window
    /\ output' = [output EXCEPT ![s] = @ - 1]
    /\ sent' = [sent EXCEPT ![s] = @ + 1]
    /\ UNCHANGED <<eof, closed, status, read, place, ended>>

\* The server may send the status before the last of the output it has buffered.
ExitStatus ==
    /\ ~closed /\ ~status
    /\ status' = TRUE
    /\ UNCHANGED <<output, sent, eof, closed, read, place, ended>>

EndOfOutput ==
    /\ ~closed /\ ~eof
    /\ \A s \in Streams : output[s] = 0
    /\ eof' = TRUE
    /\ UNCHANGED <<output, sent, closed, status, read, place, ended>>

\* The server closes the channel at the end, or the connection is lost before it.
Close ==
    /\ ~closed
    /\ closed' = TRUE
    /\ UNCHANGED <<output, sent, eof, status, read, place, ended>>

-----------------------------------------------------------------------------
(* _collect.                                                               *)

\* The flag is read before the streams are drained.
ReadFlag ==
    /\ place = "flag"
    /\ ended' = (eof \/ closed)
    /\ place' = Out
    /\ UNCHANGED <<channel, read>>

\* while recv_ready: recv, and the same for stderr.
Recv(s) ==
    /\ place = s
    /\ sent[s] > read[s]
    /\ read' = [read EXCEPT ![s] = sent[s]]
    /\ UNCHANGED <<channel, place, ended>>

\* Mutant: stderr is left for after the end of stdout.
DrainedStdout(s) ==
    /\ place = s
    /\ sent[s] = read[s]
    /\ place' = IF s = Out /\ ended THEN Err ELSE "test"
    /\ UNCHANGED <<channel, read, ended>>

Drained(s) ==
    /\ place = s
    /\ sent[s] = read[s]
    /\ place' = IF s = Out THEN Err ELSE "test"
    /\ UNCHANGED <<channel, read, ended>>

\* Mutant: the flag is read after the streams were drained.
TestFlag ==
    /\ place = "test"
    /\ place' = IF eof \/ closed THEN "status" ELSE "flag"
    /\ UNCHANGED <<channel, read, ended>>

\* The end of the output, or another round.
Test ==
    /\ place = "test"
    /\ place' = IF ended THEN "status" ELSE "flag"
    /\ UNCHANGED <<channel, read, ended>>

\* The status is awaited; a closed channel has one.
Return ==
    /\ place = "status"
    /\ status \/ closed
    /\ place' = "returned"
    /\ UNCHANGED <<channel, read, ended>>

\* The deadline passes: run raises TimeoutExpired with what was read so far, and
\* the channel is closed either way.
RunTimesOut ==
    /\ \/ place = "test" /\ ~ended
       \/ place = "status" /\ ~status /\ ~closed
    /\ place' = "timed out"
    /\ closed' = TRUE
    /\ UNCHANGED <<output, sent, eof, status, read, ended>>

CollectOutput == ReadFlag \/ (\E s \in Streams : Recv(s) \/ Drained(s)) \/ Test \/ Return

Server == (\E s \in Streams : Data(s)) \/ ExitStatus \/ EndOfOutput

CommandNext == CollectOutput \/ RunTimesOut \/ Server \/ Close

\* The thread goes on polling, and a server that has something to send sends it; the
\* deadline need not pass and the channel need not be closed.
CommandSpec ==
    /\ CommandInit /\ [][CommandNext]_commandVars
    /\ WF_commandVars(CollectOutput) /\ WF_commandVars(Server)

-----------------------------------------------------------------------------
\* A result holds all the output there was: everything that was filed and, unless the
\* connection was lost, everything the command wrote.
AllCollected ==
    place = "returned" =>
        \A s \in Streams : read[s] = sent[s] /\ (eof => output[s] = 0)

\* A command that ends is collected without the help of its deadline: neither
\* stream's unread data can stop it.
Returns == <>(place \in {"returned", "timed out"})
=============================================================================
