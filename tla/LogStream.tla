------------------------------- MODULE LogStream -------------------------------
(***************************************************************************)
(* One project's log as it is streamed, core/launcher.py: the reader       *)
(* thread of each runtime appends its lines to a ring and puts them on the *)
(* queue of every subscriber; each GET of the logs replays the ring and    *)
(* then subscribes. Runtime 0 is one that an earlier workbench started: it *)
(* has no reader here, and stop() is all that can announce its end.        *)
(*                                                                         *)
(* The ring is guarded by _state_lock and the subscribers by _sse_lock;    *)
(* one action is one step under either, or one put on a queue.             *)
(***************************************************************************)
EXTENDS Naturals, Sequences

CONSTANTS
    MaxRuns,     \* bounds the launches of the project
    MaxLines,    \* bounds the lines of a runtime
    Ring,        \* lines the ring keeps (200 in the code)
    QueueMax,    \* items a subscriber's queue holds (500 in the code)
    Streams      \* the log requests: bounds the connections of a run

ASSUME LogAssumption ==
    /\ MaxRuns \in Nat /\ MaxLines \in Nat
    /\ Ring \in Nat \ {0} /\ QueueMax \in Nat \ {0}

VARIABLES
    run,       \* the latest runtime
    alive,     \* whether its process runs
    ring,      \* _state["log_lines_by_project"][project]
    read,      \* read[r]: how many lines of r its reader has read
    reader,    \* reader[r]: where r's reader thread is
    item,      \* item[r]: the line it hands to the subscribers
    todo,      \* todo[r]: the subscribers it has yet to put the item for
    subs,      \* _sse_subscribers[project]
    queue,     \* queue[s]: the queue of stream s
    spc,       \* spc[s]: where the thread that serves stream s is
    shown,     \* shown[s]: the lines its client was sent, in order
    \* History:
    during,    \* during[s]: the runtime that ran when s was opened, or None
    live,      \* live[s]: how many of shown[s] were replayed
    full       \* the streams a line was dropped for because the queue was full

runVars    == <<run, alive>>
readVars   == <<read, reader, item, todo>>
streamVars == <<subs, spc, shown, during, live>>
vars == <<run, alive, ring, read, reader, item, todo, subs, queue, spc, shown, during, live, full>>

Runs == 0..MaxRuns
None == MaxRuns + 1                      \* no runtime
Line(r, i) == [run |-> r, number |-> i]
End == Line(None, 0)                     \* the sentinel
Lines == [run : Runs, number : 1..MaxLines]

TypeOK ==
    /\ run \in Runs
    /\ alive \in BOOLEAN
    /\ ring \in Seq(Lines) /\ Len(ring) <= Ring
    /\ read \in [Runs -> 0..MaxLines]
    /\ reader \in [Runs -> {"off", "detached", "read", "copy", "put", "end", "failed"}]
    /\ item \in [Runs -> Lines \cup {End}]
    /\ todo \in [Runs -> SUBSET Streams]
    /\ subs \in SUBSET Streams
    /\ queue \in [Streams -> Seq(Lines \cup {End})]
    /\ \A s \in Streams : Len(queue[s]) <= QueueMax
    /\ spc \in [Streams -> {"free", "replayed", "live", "leaving", "closed"}]
    /\ shown \in [Streams -> Seq(Lines)]
    /\ during \in [Streams -> Runs \cup {None}]
    /\ live \in [Streams -> Nat]
    /\ full \in SUBSET Streams

Init ==
    /\ run = 0
    /\ alive \in BOOLEAN
    /\ ring = <<>>
    /\ read = [r \in Runs |-> 0]
    /\ reader = [r \in Runs |-> IF r = 0 /\ alive THEN "detached" ELSE "off"]
    /\ item = [r \in Runs |-> End]
    /\ todo = [r \in Runs |-> {}]
    /\ subs = {}
    /\ queue = [s \in Streams |-> <<>>]
    /\ spc = [s \in Streams |-> "free"]
    /\ shown = [s \in Streams |-> <<>>]
    /\ during = [s \in Streams |-> None]
    /\ live = [s \in Streams |-> 0]
    /\ full = {}

-----------------------------------------------------------------------------
(* The runtimes: _spawn, an exit, and the stop of a detached one.          *)

\* The launcher starts a runtime only when none runs and no stop is under way.
\* The earlier reader may still be at work. Publishing empties the ring.
Spawn ==
    /\ ~alive
    /\ reader[0] \notin {"copy", "put"}
    /\ run < MaxRuns
    /\ run' = run + 1
    /\ alive' = TRUE
    /\ ring' = <<>>
    /\ reader' = [reader EXCEPT ![run + 1] = "read"]
    /\ UNCHANGED <<read, item, todo, queue, streamVars, full>>

Exit ==
    /\ alive
    /\ alive' = FALSE
    /\ UNCHANGED <<run, ring, readVars, queue, streamVars, full>>

\* _stop_locked ends a detached runtime and sends the sentinel itself.
StopDetached ==
    /\ alive /\ run = 0
    /\ alive' = FALSE
    /\ item' = [item EXCEPT ![0] = End]
    /\ reader' = [reader EXCEPT ![0] = "copy"]
    /\ UNCHANGED <<run, ring, read, todo, queue, streamVars, full>>

-----------------------------------------------------------------------------
(* The reader thread: _read_logs, _notify_sse_subscribers.                 *)

ReadLine(r) ==
    /\ reader[r] = "read"
    /\ read[r] < MaxLines
    /\ LET line == Line(r, read[r] + 1)
       IN  /\ ring' = IF Len(ring) < Ring THEN Append(ring, line) ELSE Append(Tail(ring), line)
           /\ item' = [item EXCEPT ![r] = line]
    /\ read' = [read EXCEPT ![r] = @ + 1]
    /\ reader' = [reader EXCEPT ![r] = "copy"]
    /\ UNCHANGED <<runVars, todo, queue, streamVars, full>>

\* Standard output is closed: the sentinel is next.
ReadEnd(r) ==
    /\ reader[r] = "read"
    /\ run # r \/ ~alive
    /\ item' = [item EXCEPT ![r] = End]
    /\ reader' = [reader EXCEPT ![r] = "copy"]
    /\ UNCHANGED <<runVars, ring, read, todo, queue, streamVars, full>>

\* A line cannot be written to latest.log: no sentinel follows.
ReadFails(r) ==
    /\ reader[r] = "read"
    /\ reader' = [reader EXCEPT ![r] = "failed"]
    /\ UNCHANGED <<runVars, ring, read, item, todo, queue, streamVars, full>>

CopySubscribers(r) ==
    /\ reader[r] = "copy"
    /\ todo' = [todo EXCEPT ![r] = subs]
    /\ reader' = [reader EXCEPT ![r] = "put"]
    /\ UNCHANGED <<runVars, ring, read, item, queue, streamVars, full>>

\* Mutant: the queue is not bounded.
PutUnbounded(r, s) ==
    /\ reader[r] = "put"
    /\ s \in todo[r]
    /\ queue' = [queue EXCEPT ![s] = Append(@, item[r])]
    /\ todo' = [todo EXCEPT ![r] = @ \ {s}]
    /\ UNCHANGED <<runVars, ring, read, reader, item, streamVars, full>>

\* Mutant: a full queue makes room for the newest item.
PutNewest(r, s) ==
    /\ reader[r] = "put"
    /\ s \in todo[r]
    /\ queue' = [queue EXCEPT ![s] = Append(IF Len(@) < QueueMax THEN @ ELSE Tail(@), item[r])]
    /\ todo' = [todo EXCEPT ![r] = @ \ {s}]
    /\ UNCHANGED <<runVars, ring, read, reader, item, streamVars, full>>

\* put_nowait: what does not fit is dropped, the sentinel too.
Put(r, s) ==
    /\ reader[r] = "put"
    /\ s \in todo[r]
    /\ IF Len(queue[s]) < QueueMax
       THEN queue' = [queue EXCEPT ![s] = Append(@, item[r])] /\ UNCHANGED full
       ELSE full' = full \cup {s} /\ UNCHANGED queue
    /\ todo' = [todo EXCEPT ![r] = @ \ {s}]
    /\ UNCHANGED <<runVars, ring, read, reader, item, streamVars>>

PutEnds(r) ==
    /\ reader[r] = "put"
    /\ todo[r] = {}
    /\ reader' = [reader EXCEPT ![r] = IF item[r] = End THEN "end" ELSE "read"]
    /\ UNCHANGED <<runVars, ring, read, item, todo, queue, streamVars, full>>

-----------------------------------------------------------------------------
(* The stream: handle_log_stream.                                          *)

\* The ring is copied and its lines are written.
Open(s) ==
    /\ spc[s] = "free"
    /\ spc' = [spc EXCEPT ![s] = "replayed"]
    /\ shown' = [shown EXCEPT ![s] = ring]
    /\ live' = [live EXCEPT ![s] = Len(ring)]
    /\ during' = [during EXCEPT ![s] = IF alive THEN run ELSE None]
    /\ UNCHANGED <<runVars, ring, readVars, subs, queue, full>>

Subscribe(s) ==
    /\ spc[s] = "replayed"
    /\ subs' = subs \cup {s}
    /\ spc' = [spc EXCEPT ![s] = "live"]
    /\ UNCHANGED <<runVars, ring, readVars, queue, shown, during, live, full>>

\* Mutant: the last item in is the first out.
DeliverLast(s) ==
    /\ spc[s] = "live"
    /\ queue[s] # <<>>
    /\ LET last == queue[s][Len(queue[s])]
       IN  IF last = End
           THEN spc' = [spc EXCEPT ![s] = "leaving"] /\ UNCHANGED shown
           ELSE shown' = [shown EXCEPT ![s] = Append(@, last)] /\ UNCHANGED spc
    /\ queue' = [queue EXCEPT ![s] = SubSeq(@, 1, Len(@) - 1)]
    /\ UNCHANGED <<runVars, ring, readVars, subs, during, live, full>>

Deliver(s) ==
    /\ spc[s] = "live"
    /\ queue[s] # <<>>
    /\ IF Head(queue[s]) = End
       THEN spc' = [spc EXCEPT ![s] = "leaving"] /\ UNCHANGED shown
       ELSE shown' = [shown EXCEPT ![s] = Append(@, Head(queue[s]))] /\ UNCHANGED spc
    /\ queue' = [queue EXCEPT ![s] = Tail(@)]
    /\ UNCHANGED <<runVars, ring, readVars, subs, during, live, full>>

\* The client left: a write raises, of a line, or of a keepalive at the latest.
ClientLeft(s) ==
    /\ spc[s] \in {"replayed", "live"}
    /\ spc' = [spc EXCEPT ![s] = IF @ = "live" THEN "leaving" ELSE "closed"]
    /\ UNCHANGED <<runVars, ring, readVars, subs, queue, shown, during, live, full>>

\* Mutant: the queue stays subscribed.
LeaveSubscribed(s) ==
    /\ spc[s] = "leaving"
    /\ spc' = [spc EXCEPT ![s] = "closed"]
    /\ UNCHANGED <<runVars, ring, readVars, subs, queue, shown, during, live, full>>

Leave(s) ==
    /\ spc[s] = "leaving"
    /\ subs' = subs \ {s}
    /\ spc' = [spc EXCEPT ![s] = "closed"]
    /\ UNCHANGED <<runVars, ring, readVars, queue, shown, during, live, full>>

-----------------------------------------------------------------------------

Reader(r) ==
    \/ ReadLine(r) \/ ReadEnd(r) \/ ReadFails(r) \/ CopySubscribers(r) \/ PutEnds(r)
    \/ \E s \in Streams : Put(r, s)

Serve(s) == Subscribe(s) \/ Deliver(s) \/ Leave(s)

Next ==
    \/ Spawn \/ Exit \/ StopDetached
    \/ \E r \in Runs : Reader(r)
    \/ \E s \in Streams : Open(s) \/ Serve(s) \/ ClientLeft(s)

Spec == Init /\ [][Next]_vars

\* The threads of the server run; runtimes, users and clients do as they like.
FairSpec ==
    /\ Spec
    /\ \A r \in Runs : WF_vars(Reader(r))
    /\ \A s \in Streams : WF_vars(Serve(s))

-----------------------------------------------------------------------------
(* Properties.                                                             *)

\* A client sees the lines of a runtime in their order, over the seam between the
\* replay and the live lines and over a restart, during which two readers are at
\* work. Only the line at the seam can come twice.
InOrder ==
    \A s \in Streams : \A i, k \in 1..Len(shown[s]) :
        i < k /\ shown[s][i].run = shown[s][k].run =>
            \/ shown[s][i].number < shown[s][k].number
            \/ shown[s][i] = shown[s][k] /\ i <= live[s] /\ k > live[s]

\* Once subscribed, a client misses no line of a runtime between two it sees, unless
\* its queue was full.
NoGap ==
    \A s \in Streams \ full : \A i \in (live[s] + 1)..Len(shown[s]) :
        \/ \A k \in (live[s] + 1)..(i - 1) : shown[s][k].run # shown[s][i].run
        \/ \E k \in (live[s] + 1)..(i - 1) :
              shown[s][k] = Line(shown[s][i].run, shown[s][i].number - 1)

\* No queue of a closed stream stays subscribed, however the stream ended.
ClosedUnsubscribed == \A s \in subs : spc[s] \in {"live", "leaving"}

\* A stream that was opened while a runtime ran closes once the reader of that
\* runtime has come to its end ("The connection stays open until the runtime
\* process exits or the client disconnects").
ClosesAtExit ==
    \A s \in Streams, r \in Runs : during[s] = r /\ reader[r] = "end" ~> spc[s] = "closed"
=============================================================================
