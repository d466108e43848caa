----------------------------- MODULE RuntimeSlot -----------------------------
(***************************************************************************)
(* What the launcher promises its callers, with no locks, files or         *)
(* processes in sight: the workbench has one slot for a runtime. A runtime *)
(* enters the empty slot only on a launch or restart in service that names *)
(* its project; it leaves the slot before another one enters, and whatever *)
(* a failing request started is out of the slot when the request ends or   *)
(* stays in it, tracked. A restart of the workbench forgets the slot.      *)
(* One runtime is never replaced by another in one step.                   *)
(***************************************************************************)
CONSTANTS Projects, Threads, Processes, None

VARIABLES
    run,       \* what is in the slot: at most one runtime, its project and process
    want       \* want[t]: the operation and the project t serves, or None

slotVars == <<run, want>>

Wishes == {"launch", "stop", "restart"} \X Projects

TypeOK ==
    /\ run \in {{}} \cup {{r} : r \in Projects \X Processes}
    /\ want \in [Threads -> Wishes \cup {None}]

Init ==
    /\ run = {}
    /\ want = [t \in Threads |-> None]

Ask(t, w) ==
    /\ want[t] = None
    /\ want' = [want EXCEPT ![t] = w]
    /\ UNCHANGED run

Enter(t, p, x) ==
    /\ run = {}
    /\ want[t] \in {"launch", "restart"} \X {p}
    /\ run' = {<<p, x>>}
    /\ UNCHANGED want

\* The runtime exits, or is ended.
Leave ==
    /\ run' = {}
    /\ UNCHANGED want

\* A request is answered; stop's last step, and a failing launch's, also ends
\* the runtime.
Finish(t) ==
    /\ want' = [want EXCEPT ![t] = None]
    /\ run' \in {run, {}}

Forget ==
    /\ run' = {}
    /\ want' = [t \in Threads |-> None]

Next ==
    \/ \E t \in Threads : \/ \E w \in Wishes : Ask(t, w)
                          \/ \E p \in Projects, x \in Processes : Enter(t, p, x)
                          \/ Finish(t)
    \/ Leave
    \/ Forget

Spec == Init /\ [][Next]_slotVars
=============================================================================
