----------------------------- MODULE OperateProxy -----------------------------
(***************************************************************************)
(* Operate's proxy to the one runtime: server/routes/operate.py, with the  *)
(* status it asks core/launcher.py for and the token copy of               *)
(* core/workbench_service.py. Every request runs on a thread of its own.   *)
(* Three things are remembered between requests, with no lock: the ports   *)
(* at which an external runtime is looked for (_candidates), the resolved  *)
(* target and token (_resolved), each under a key of file stamps, and the  *)
(* last target, which a software stop goes straight to (_last_target).     *)
(*                                                                         *)
(* One action is one file, key or global read or written, or one request   *)
(* sent on. The runtime is launched by the workbench, at the port its      *)
(* project's document then had, or is the installed one, at the port of    *)
(* its runtime.yaml; Launcher allows one at a time. A document that is     *)
(* saved later moves the target, and not the runtime.                      *)
(***************************************************************************)
EXTENDS Naturals

CONSTANTS
    Threads,       \* the server's request threads
    Projects,      \* the workbench's own projects
    Ports,         \* where runtimes listen
    MaxSaves,      \* bounds the saves of the projects' documents
    MaxLaunches,   \* bounds the launches
    MaxRewrites,   \* bounds the rewrites of runtime.yaml
    MaxTokens,     \* bounds the rotations of the API token
    None           \* Python's None

ASSUME ProxyAssumption ==
    /\ None \notin Threads \cup Projects \cup Ports \cup [project : Projects, port : Ports]
    /\ MaxSaves \in Nat /\ MaxLaunches \in Nat /\ MaxRewrites \in Nat /\ MaxTokens \in Nat

VARIABLES
    launched,    \* the runtime the workbench launched: its project and port, or None
    saved,       \* saved[j]: the http.port of project j's launch variant, None if the
                 \* document gives no usable one
    docs,        \* the stamp of the projects' documents
    external,    \* the port the installed runtime was started on, or None
    conf,        \* runtime.yaml: its stamp and its http.port
    files,       \* the stamp of running.json and of the launcher's own process
    secret,      \* the runtime's API token
    token,       \* the workbench's copy of it
    candidates,  \* _candidates: the key it is kept under and the port, or None
    watched,     \* _resolved_prefixes: whether the installed prefix is in it
    resolved,    \* _resolved: key, target and token, or None
    last,        \* _last_target
    pc,          \* pc[t]: where request thread t is
    at,          \* at[t]: what it has read: a key, the project that runs, the port of an
                 \* external runtime, the target and the token it sends, the target that
                 \* refused it
    \* History:
    steady,      \* steady[t]: one runtime with a fresh token copy has run since t came
    misfiled     \* whether something stale was filed under a key read after it

world == <<launched, saved, docs, external, conf, files, secret, token>>
memory == <<candidates, watched, resolved, last>>
threads == <<pc, at>>
vars == <<world, memory, threads, steady, misfiled>>

Stamps == 0..(2 * MaxLaunches)
Launches == [project : Projects, port : Ports]
Confs == [stamp : 0..MaxRewrites, port : Ports]
Tokens == 0..MaxTokens
Keys == [files : Stamps, docs : 0..MaxSaves, conf : 0..MaxRewrites, watched : BOOLEAN,
         token : Tokens]
NoKey == [files |-> 0, docs |-> 0, conf |-> 0, watched |-> FALSE, token |-> 0]
Readings == [key : Keys, project : Projects \cup {None}, port : Ports \cup {None},
             base : Ports \cup {None}, sends : Tokens, tried : Ports \cup {None}]
Nothing == [key |-> NoKey, project |-> None, port |-> None, base |-> None, sends |-> 0,
            tried |-> None]

TypeOK ==
    /\ launched \in Launches \cup {None} /\ external \in Ports \cup {None}
    /\ saved \in [Projects -> Ports \cup {None}] /\ docs \in 0..MaxSaves
    /\ conf \in Confs /\ files \in Stamps
    /\ secret \in Tokens /\ token \in Tokens
    /\ candidates \in [files : Stamps, docs : 0..MaxSaves, conf : 0..MaxRewrites,
                       port : Ports] \cup {None}
    /\ watched \in BOOLEAN
    /\ resolved \in [key : Keys, base : Ports, token : Tokens] \cup {None}
    /\ last \in Ports \cup {None}
    /\ pc \in [Threads -> {"idle", "key", "status", "document", "find", "keep", "probe",
                           "config", "token", "rekey", "file", "send"}]
    /\ at \in [Threads -> Readings]
    /\ steady \in [Threads -> BOOLEAN]
    /\ misfiled \in BOOLEAN

Init ==
    /\ launched = None
    /\ saved \in [Projects -> Ports]
    /\ conf \in [stamp : {0}, port : Ports]
    /\ external \in {None, conf.port}
    /\ files = 0 /\ docs = 0 /\ secret = 0 /\ token = 0
    /\ candidates = None /\ watched = FALSE /\ resolved = None /\ last = None
    /\ pc = [t \in Threads |-> "idle"]
    /\ at = [t \in Threads |-> Nothing]
    /\ steady = [t \in Threads |-> FALSE]
    /\ misfiled = FALSE

-----------------------------------------------------------------------------
(* The world: none of it is told to the proxy.                             *)

Running == launched # None \/ external # None
Address == IF launched # None THEN launched.port ELSE external

\* What resolving would find now, and whether that is where a runtime listens. For a
\* launched runtime it is what is saved of its project, and None is an error.
Target == IF launched # None THEN saved[launched.project] ELSE conf.port
Settled == Running /\ Target = Address /\ token = secret

Changed == steady' = [t \in Threads |-> FALSE]

\* The launcher starts a runtime only if none runs, at the port the document gives
\* then, and writes running.json.
Launch(j) ==
    /\ ~Running /\ files < 2 * MaxLaunches /\ files % 2 = 0
    /\ saved[j] # None
    /\ launched' = [project |-> j, port |-> saved[j]]
    /\ files' = files + 1
    /\ Changed
    /\ UNCHANGED <<saved, docs, external, conf, secret, token, memory, threads, misfiled>>

LaunchedExits ==
    /\ launched # None
    /\ launched' = None
    /\ files' = files + 1
    /\ Changed
    /\ UNCHANGED <<saved, docs, external, conf, secret, token, memory, threads, misfiled>>

\* A document is saved, with another port or launch variant or with the same, or is
\* changed by hand so that it gives no usable port. What runs is not told of it.
SaveDocument(j, p) ==
    /\ docs < MaxSaves
    /\ docs' = docs + 1
    /\ saved' = [saved EXCEPT ![j] = p]
    /\ IF launched # None /\ launched.project = j /\ p # saved[j] THEN Changed ELSE UNCHANGED steady
    /\ UNCHANGED <<launched, external, conf, files, secret, token, memory, threads, misfiled>>

\* systemd starts and stops the installed runtime; it reads runtime.yaml as it starts.
ExternalStarts ==
    /\ ~Running
    /\ external' = conf.port
    /\ Changed
    /\ UNCHANGED <<launched, saved, docs, conf, files, secret, token, memory, threads, misfiled>>

ExternalStops ==
    /\ external # None
    /\ external' = None
    /\ Changed
    /\ UNCHANGED <<launched, saved, docs, conf, files, secret, token, memory, threads, misfiled>>

\* An install replaces runtime.yaml, and restarts the service after it.
Rewrite(p) ==
    /\ conf.stamp < MaxRewrites
    /\ conf' = [stamp |-> conf.stamp + 1, port |-> p]
    /\ Changed
    /\ UNCHANGED <<launched, saved, docs, external, files, secret, token, memory, threads, misfiled>>

\* The token is rotated; sync_runtime_token renames a fresh copy into place.
Rotate ==
    /\ secret < MaxTokens
    /\ secret' = secret + 1
    /\ Changed
    /\ UNCHANGED <<launched, saved, docs, external, conf, files, token, memory, threads, misfiled>>

SyncToken ==
    /\ token # secret
    /\ token' = secret
    /\ UNCHANGED <<launched, saved, docs, external, conf, files, secret, memory, threads, steady,
                   misfiled>>

World ==
    \/ \E j \in Projects : Launch(j) \/ \E p \in Ports \cup {None} : SaveDocument(j, p)
    \/ \E p \in Ports : Rewrite(p)
    \/ LaunchedExits \/ ExternalStarts \/ ExternalStops \/ Rotate \/ SyncToken

-----------------------------------------------------------------------------
(* A request.                                                              *)

Goto(t, label) == pc' = [pc EXCEPT ![t] = label]

\* A stop goes to the remembered target with the token as it now is; anything else
\* is resolved.
Request(t, stop) ==
    /\ pc[t] = "idle"
    /\ steady' = [steady EXCEPT ![t] = Settled]
    /\ IF stop /\ last # None
       THEN /\ at' = [at EXCEPT ![t].base = last, ![t].sends = token]
            /\ Goto(t, "send")
       ELSE Goto(t, "key") /\ UNCHANGED at
    /\ UNCHANGED <<world, memory, misfiled>>

\* The request is answered, with what the runtime said or with an error.
Answer(t) ==
    /\ Goto(t, "idle")
    /\ at' = [at EXCEPT ![t] = Nothing]
    /\ steady' = [steady EXCEPT ![t] = FALSE]

\* Mutant: the token's copy is left out of the key.
KeyNoToken(w) == [files |-> files, docs |-> docs, conf |-> IF w THEN conf.stamp ELSE 0,
                  watched |-> w, token |-> 0]

\* _resolution_key: stamps only. runtime.yaml is stamped if its prefix is watched.
Key(w) == [files |-> files, docs |-> docs, conf |-> IF w THEN conf.stamp ELSE 0,
           watched |-> w, token |-> token]

\* _resolve's answer, given or kept: the second try ends at the target of the first.
SendTo(t, b, k) ==
    IF at[t].tried = b
    THEN Answer(t)
    ELSE /\ at' = [at EXCEPT ![t] = [Nothing EXCEPT !.base = b, !.sends = k, !.tried = at[t].tried]]
         /\ Goto(t, "send")
         /\ UNCHANGED steady

\* The key is taken and looked up; a look up a moment later could only miss more.
LookUp(t) ==
    /\ pc[t] = "key"
    /\ IF resolved # None /\ resolved.key = Key(watched)
       THEN SendTo(t, resolved.base, resolved.token)
       ELSE /\ at' = [at EXCEPT ![t].key = Key(watched)]
            /\ Goto(t, "status")
            /\ UNCHANGED steady
    /\ UNCHANGED <<world, memory, misfiled>>

\* Whether the ports are kept under what their files now say.
KeyHolds == /\ candidates # None
            /\ candidates.files = files /\ candidates.docs = docs /\ candidates.conf = conf.stamp

\* get_status: the project of the launched runtime, or the ports kept for an external
\* one while their key holds.
ReadStatus(t) ==
    /\ pc[t] = "status"
    /\ \/ /\ launched # None
          /\ at' = [at EXCEPT ![t].project = launched.project]
          /\ Goto(t, "document")
       \/ /\ launched = None /\ KeyHolds
          /\ at' = [at EXCEPT ![t].port = candidates.port]
          /\ Goto(t, "probe")
       \/ launched = None /\ ~KeyHolds /\ Goto(t, "find") /\ UNCHANGED at
    /\ UNCHANGED <<world, memory, steady, misfiled>>

\* _runtime_base reads that project's document as it is by now, and remembers the
\* target; a document without a usable port is an error.
ReadDocument(t) ==
    LET p == saved[at[t].project]
    IN  /\ pc[t] = "document"
        /\ \/ p = None /\ resolved' = None /\ Answer(t) /\ UNCHANGED last
           \/ /\ p # None
              /\ at' = [at EXCEPT ![t].base = p, ![t].project = None]
              /\ last' = p
              /\ Goto(t, "token")
              /\ UNCHANGED <<resolved, steady>>
        /\ UNCHANGED <<world, candidates, watched, misfiled>>

\* _external_candidates reads the ports, and stamps what it read them from afterwards.
FindPorts(t) ==
    /\ pc[t] = "find"
    /\ at' = [at EXCEPT ![t].port = conf.port]
    /\ Goto(t, "keep")
    /\ UNCHANGED <<world, memory, steady, misfiled>>

KeepPorts(t) ==
    /\ pc[t] = "keep"
    /\ candidates' = [files |-> files, docs |-> docs, conf |-> conf.stamp,
                    port |-> at[t].port]
    /\ misfiled' = (misfiled \/ at[t].port # conf.port)
    /\ Goto(t, "probe")
    /\ UNCHANGED <<world, watched, resolved, last, at, steady>>

\* Whatever answers at the port is taken for the installed runtime.
Probe(t) ==
    /\ pc[t] = "probe"
    /\ IF Running /\ Address = at[t].port
       THEN Goto(t, "config") /\ UNCHANGED <<resolved, at, steady>>
       ELSE resolved' = None /\ Answer(t)
    /\ UNCHANGED <<world, candidates, watched, last, misfiled>>

\* _runtime_base reads the installed runtime's port, and remembers the target.
ReadConfig(t) ==
    /\ pc[t] = "config"
    /\ at' = [at EXCEPT ![t].base = conf.port, ![t].port = None]
    /\ last' = conf.port
    /\ Goto(t, "token")
    /\ UNCHANGED <<world, candidates, watched, resolved, steady, misfiled>>

\* The token is read. The first resolution finds the installed prefix and watches it.
ReadToken(t) ==
    /\ pc[t] = "token"
    /\ at' = [at EXCEPT ![t].sends = token]
    /\ Goto(t, IF watched THEN "file" ELSE "rekey")
    /\ UNCHANGED <<world, memory, steady, misfiled>>

\* The key is then computed again, after what it stands for was read.
Rekey(t) ==
    /\ pc[t] = "rekey"
    /\ watched' = TRUE
    /\ at' = [at EXCEPT ![t].key = Key(TRUE)]
    /\ misfiled' = (misfiled \/ at[t].sends # token \/ at[t].base # Target)
    /\ Goto(t, "file")
    /\ UNCHANGED <<world, candidates, resolved, last, steady>>

File(t) ==
    /\ pc[t] = "file"
    /\ resolved' = [key |-> at[t].key, base |-> at[t].base, token |-> at[t].sends]
    /\ SendTo(t, at[t].base, at[t].sends)
    /\ UNCHANGED <<world, candidates, watched, last, misfiled>>

Reaches(t) == Running /\ Address = at[t].base

\* Mutant: a target that nothing answers at is an error at once.
SendOnce(t) ==
    /\ pc[t] = "send"
    /\ Answer(t)
    /\ UNCHANGED <<world, memory, misfiled>>

\* The request is sent on. A target that nothing answers at is resolved afresh, once.
Send(t) ==
    /\ pc[t] = "send"
    /\ IF Reaches(t) \/ at[t].tried # None
       THEN Answer(t) /\ UNCHANGED resolved
       ELSE /\ at' = [at EXCEPT ![t] = [Nothing EXCEPT !.tried = at[t].base]]
            /\ resolved' = None
            /\ Goto(t, "key")
            /\ UNCHANGED steady
    /\ UNCHANGED <<world, candidates, watched, last, misfiled>>

Proxy(t) ==
    \/ \E s \in BOOLEAN : Request(t, s)
    \/ LookUp(t) \/ ReadStatus(t) \/ ReadDocument(t) \/ FindPorts(t) \/ KeepPorts(t) \/ Probe(t)
    \/ ReadConfig(t) \/ ReadToken(t) \/ Rekey(t) \/ File(t) \/ Send(t)

Next == World \/ \E t \in Threads : Proxy(t)

Spec == Init /\ [][Next]_vars

-----------------------------------------------------------------------------
\* What is kept under the current key is what resolving would find now, although
\* the threads read, key and file at different times; misfiled is the exception.
CacheTrue ==
    ~misfiled /\ resolved # None /\ resolved.key = Key(watched) =>
        resolved.base = Target /\ resolved.token = token

\* A request reaches the runtime and is let in if from its start to its end one runtime
\* ran at the port that is on disk for it (its project's document, or runtime.yaml) with
\* its token copied: a stop too, which skips the resolution, and whatever was remembered
\* of earlier runtimes or saved of any project meanwhile.
Served(t) == pc[t] = "send" /\ Reaches(t) /\ at[t].sends = secret
SteadyServed ==
    [][\A t \in Threads : steady[t] /\ pc'[t] = "idle" /\ ~misfiled => Served(t)]_vars

\* The same without the exception: what the comments on both caches say of them.
AlwaysServed == [][\A t \in Threads : steady[t] /\ pc'[t] = "idle" => Served(t)]_vars
=============================================================================
