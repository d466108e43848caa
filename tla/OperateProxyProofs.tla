-------------------------- MODULE OperateProxyProofs --------------------------
(***************************************************************************)
(* Proofs about OperateProxy for any number of threads, projects, ports,   *)
(* saves, launches, rewrites and tokens.                                   *)
(*                                                                         *)
(* The argument: every stamp a key is made of only grows, so a key that is *)
(* not current never is again (Past), and what a thread reads after it     *)
(* took a key is right for as long as that key is current. A key taken     *)
(* again after the reading, and the ports' stamp, are the exception that   *)
(* misfiled marks. A request that found the world settled reads nothing    *)
(* else while the world stays so (Steady).                                 *)
(***************************************************************************)
EXTENDS OperateProxy, TLAPS

Current(k) == k = Key(TRUE)
Past(k) == k.files <= files /\ k.docs <= docs /\ k.conf <= conf.stamp /\ k.token <= token

\* The stamp of running.json says whether there is a launched runtime.
WorldInv ==
    /\ launched # None <=> files % 2 = 1
    /\ token <= secret

\* What is remembered under a current key is right.
CacheInv ==
    /\ resolved # None => watched /\ Past(resolved.key)
    /\ candidates # None => candidates.conf <= conf.stamp
    /\ ~misfiled /\ resolved # None /\ Current(resolved.key) =>
           resolved.base = Target /\ resolved.token = token
    /\ ~misfiled /\ candidates # None /\ candidates.conf = conf.stamp =>
           candidates.port = conf.port

\* What a thread has read by the time it is where it is, and what it still says.
Reading(t) ==
    /\ pc[t] = "idle" => at[t].tried = None
    /\ pc[t] \in {"keep", "probe"} => at[t].port # None
    /\ pc[t] \in {"token", "rekey", "file", "send"} => at[t].base # None
    /\ pc[t] = "file" => watched
    /\ pc[t] \notin {"idle", "key", "send"} => Past(at[t].key)
    /\ pc[t] \in {"find", "keep", "probe", "config"} /\ at[t].key.files = files => launched = None
    /\ pc[t] = "document" => at[t].project # None
    /\ pc[t] = "document" /\ at[t].key.files = files =>
           launched # None /\ launched.project = at[t].project
    /\ pc[t] \in {"token", "file"} /\ ~misfiled /\ Current(at[t].key) => at[t].base = Target
    /\ pc[t] = "file" /\ ~misfiled /\ Current(at[t].key) => at[t].sends = token

\* A request that runs while one runtime does, with its token copied, is on its way to it.
OnItsWay(t) ==
    /\ Settled
    /\ pc[t] # "idle"
    /\ pc[t] \in {"find", "keep", "probe", "config"} => launched = None
    /\ pc[t] = "document" => launched # None /\ launched.project = at[t].project
    /\ pc[t] \in {"keep", "probe"} => at[t].port = conf.port
    /\ pc[t] \in {"token", "rekey", "file"} => at[t].base = Target
    /\ pc[t] \in {"rekey", "file"} => at[t].sends = token
    /\ pc[t] = "send" => at[t].sends = token /\ (at[t].base = Target \/ at[t].tried = None)
    /\ at[t].tried # None => at[t].tried # Target

Steady(t) == steady[t] /\ ~misfiled => OnItsWay(t)

Inv == TypeOK /\ WorldInv /\ CacheInv /\ \A t \in Threads : Reading(t) /\ Steady(t)

OthersStay(t) ==
    \A u \in Threads \ {t} : pc'[u] = pc[u] /\ at'[u] = at[u] /\ steady'[u] = steady[u]

ThreadTypes ==
    /\ pc \in [Threads -> {"idle", "key", "status", "document", "find", "keep", "probe",
                           "config", "token", "rekey", "file", "send"}]
    /\ at \in [Threads -> Readings]
    /\ steady \in [Threads -> BOOLEAN]

\* A step of one thread: the world and the other threads stay.
ThreadStep(t) ==
    /\ UNCHANGED world
    /\ misfiled' \in BOOLEAN /\ (misfiled => misfiled')
    /\ watched' \in BOOLEAN /\ (watched => watched')
    /\ OthersStay(t)

-----------------------------------------------------------------------------

\* The types of what the world and the threads hold.
LEMMA Facts ==
    ASSUME TypeOK
    PROVE  /\ conf.stamp \in 0..MaxRewrites /\ conf.port \in Ports /\ conf.port # None
           /\ files \in Nat /\ docs \in Nat /\ token \in Nat /\ secret \in Nat
           /\ conf.stamp \in Nat /\ files \in Stamps /\ docs \in 0..MaxSaves
           /\ token \in Tokens /\ secret \in Tokens
           /\ external \in Ports \cup {None}
           /\ launched # None => launched.project \in Projects /\ launched.port \in Ports
           /\ \A j \in Projects : saved[j] \in Ports \cup {None}
           /\ Running => Address \in Ports
           /\ Settled => Target \in Ports
<1> USE ProxyAssumption DEF TypeOK
<1>1. conf.stamp \in 0..MaxRewrites /\ conf.port \in Ports /\ conf.port # None
  BY DEF Confs
<1>2. files \in Stamps /\ token \in Tokens /\ secret \in Tokens
  OBVIOUS
<1>3. /\ files \in Nat /\ token \in Nat /\ secret \in Nat /\ conf.stamp \in Nat
      /\ docs \in 0..MaxSaves /\ docs \in Nat
  BY <1>1, <1>2 DEF Stamps, Tokens
<1>4. /\ external \in Ports \cup {None}
      /\ launched # None => launched.project \in Projects /\ launched.port \in Ports
      /\ \A j \in Projects : saved[j] \in Ports \cup {None}
  BY DEF Launches
<1>5. Running => Address \in Ports
  BY <1>4 DEF Running, Address
<1>6. Settled => Target \in Ports
  BY <1>5 DEF Settled
<1> QED
  BY <1>1, <1>2, <1>3, <1>4, <1>5, <1>6

\* A key is of stamps as they now are.
LEMMA KeyFacts ==
    ASSUME TypeOK, NEW w \in BOOLEAN
    PROVE  Key(w) \in Keys /\ Past(Key(w)) /\ Key(w).watched = w
<1>1. (IF w THEN conf.stamp ELSE 0) \in 0..MaxRewrites /\ (IF w THEN conf.stamp ELSE 0) <= conf.stamp
  BY Facts, ProxyAssumption
<1>2. files <= files /\ docs <= docs /\ token <= token
  BY Facts
<1> QED
  BY <1>1, <1>2, Facts DEF Key, Keys, Past

\* The fields of what a thread has read.
LEMMA AtFacts ==
    ASSUME TypeOK, NEW t \in Threads
    PROVE  /\ at \in [Threads -> Readings] /\ at[t] \in Readings
           /\ at[t].key \in Keys /\ at[t].project \in Projects \cup {None} /\ at[t].port \in Ports \cup {None}
           /\ at[t].base \in Ports \cup {None} /\ at[t].sends \in Tokens
           /\ at[t].tried \in Ports \cup {None}
           /\ steady \in [Threads -> BOOLEAN]
BY DEF TypeOK, Readings

\* What a thread knows when it starts over.
LEMMA NothingFacts ==
    /\ Nothing \in Readings /\ Nothing.tried = None /\ Nothing.base = None /\ Nothing.port = None
    /\ Nothing.project = None /\ Nothing.key = NoKey /\ Nothing.sends = 0 /\ NoKey \in Keys
<1>1. 0 \in Stamps /\ 0 \in Tokens /\ 0 \in 0..MaxRewrites /\ 0 \in 0..MaxSaves
  BY ProxyAssumption DEF Stamps, Tokens
<1>2. NoKey \in Keys
  BY <1>1 DEF NoKey, Keys
<1> QED
  BY <1>1, <1>2 DEF Nothing, Readings

\* Another thread's step leaves what a thread has read as right as it was.
LEMMA OthersKeep ==
    ASSUME Inv, NEW t \in Threads, ThreadStep(t), NEW u \in Threads \ {t}
    PROVE  Reading(u)' /\ Steady(u)'
<1>1. /\ pc'[u] = pc[u] /\ at'[u] = at[u] /\ steady'[u] = steady[u]
      /\ UNCHANGED <<launched, saved, docs, external, conf, files, secret, token>>
      /\ misfiled => misfiled'
      /\ watched => watched'
      /\ Reading(u) /\ Steady(u)
  BY DEF ThreadStep, OthersStay, world, Inv
<1>6. /\ misfiled \in BOOLEAN /\ misfiled' \in BOOLEAN /\ watched \in BOOLEAN /\ watched' \in BOOLEAN
      /\ steady[u] \in BOOLEAN
  BY DEF ThreadStep, Inv, TypeOK
<1>2. Target' = Target /\ Settled' = Settled
  BY <1>1 DEF Target, Settled, Running, Address
<1>3. Key(TRUE)' = Key(TRUE)
  BY <1>1 DEF Key
<1>4. Reading(u)'
  <2>1. /\ (pc[u] = "idle" => at[u].tried = None)'
        /\ (pc[u] \in {"keep", "probe"} => at[u].port # None)'
        /\ (pc[u] \in {"token", "rekey", "file", "send"} => at[u].base # None)'
        /\ (pc[u] \in {"find", "keep", "probe", "config"} /\ at[u].key.files = files
                => launched = None)'
        /\ (pc[u] = "document" => at[u].project # None)'
        /\ (pc[u] = "document" /\ at[u].key.files = files
                => launched # None /\ launched.project = at[u].project)'
    BY <1>1, <1>6 DEF Reading
  <2>2. (pc[u] \notin {"idle", "key", "send"} => Past(at[u].key))'
    BY <1>1 DEF Reading, Past
  <2>3. (pc[u] = "file" => watched)'
    BY <1>1, <1>6 DEF Reading
  <2>4. /\ (pc[u] \in {"token", "file"} /\ ~misfiled /\ Current(at[u].key) => at[u].base = Target)'
        /\ (pc[u] = "file" /\ ~misfiled /\ Current(at[u].key) => at[u].sends = token)'
    BY <1>1, <1>6, <1>2, <1>3 DEF Reading, Current
  <2> QED
    BY <2>1, <2>2, <2>3, <2>4 DEF Reading
<1>5. Steady(u)'
  <2> SUFFICES ASSUME steady'[u], ~misfiled'
               PROVE  Steady(u)'
    BY DEF Steady, OnItsWay
  <2>1. steady[u] /\ ~misfiled
    BY <1>1, <1>6
  <2> QED
    BY <1>1, <1>2, <2>1 DEF Steady, OnItsWay
<1> QED
  BY <1>4, <1>5

\* A thread that keeps its own part of the invariant, and what is remembered, keeps all.
LEMMA ThreadKeeps ==
    ASSUME Inv, NEW t \in Threads, ThreadStep(t), TypeOK', CacheInv', Reading(t)', Steady(t)'
    PROVE  Inv'
<1>1. WorldInv'
  BY DEF Inv, WorldInv, ThreadStep, world
<1>2. \A u \in Threads : Reading(u)' /\ Steady(u)'
  BY OthersKeep
<1> QED
  BY <1>1, <1>2 DEF Inv

\* What is remembered stays right while the world stays, and when it is dropped.
LEMMA CacheStays ==
    ASSUME Inv, NEW t \in Threads, ThreadStep(t), UNCHANGED candidates,
           resolved' = resolved \/ resolved' = None
    PROVE  CacheInv'
<1>1. /\ UNCHANGED <<launched, saved, docs, external, conf, files, secret, token>>
      /\ misfiled => misfiled'
      /\ watched => watched'
      /\ CacheInv
  BY DEF ThreadStep, world, Inv
<1>2. /\ misfiled \in BOOLEAN /\ misfiled' \in BOOLEAN /\ watched \in BOOLEAN /\ watched' \in BOOLEAN
  BY DEF ThreadStep, Inv, TypeOK
<1>3. Target' = Target /\ Key(TRUE)' = Key(TRUE)
  BY <1>1 DEF Target, Key
<1> QED
  BY <1>1, <1>2, <1>3 DEF CacheInv, Current, Past

\* What follows for a thread that goes to label with r in its hands, and changes nothing
\* that others share but what may be dropped.
LEMMA Goes ==
    ASSUME Inv, NEW t \in Threads, NEW r \in Readings,
           NEW label \in {"idle", "key", "status", "document", "find", "keep", "probe",
                          "config", "token", "rekey", "file", "send"},
           NEW st \in BOOLEAN,
           pc' = [pc EXCEPT ![t] = label], at' = [at EXCEPT ![t] = r],
           steady' = [steady EXCEPT ![t] = st]
    PROVE  /\ pc'[t] = label /\ at'[t] = r /\ steady'[t] = st
           /\ OthersStay(t) /\ ThreadTypes'
BY DEF Inv, TypeOK, OthersStay, ThreadTypes

\* A thread that answers has nothing in its hands and no one to serve.
LEMMA AnswerFacts ==
    ASSUME Inv, NEW t \in Threads, Answer(t)
    PROVE  /\ pc'[t] = "idle" /\ at'[t] = Nothing /\ steady'[t] = FALSE
           /\ OthersStay(t) /\ ThreadTypes'
           /\ Reading(t)' /\ Steady(t)'
<1>1. /\ pc' = [pc EXCEPT ![t] = "idle"] /\ at' = [at EXCEPT ![t] = Nothing]
      /\ steady' = [steady EXCEPT ![t] = FALSE]
  BY DEF Answer, Goto
<1>2. Nothing \in Readings
  BY NothingFacts
<1>3. /\ pc'[t] = "idle" /\ at'[t] = Nothing /\ steady'[t] = FALSE
      /\ OthersStay(t) /\ ThreadTypes'
  BY <1>1, <1>2, Goes
<1>4. Reading(t)'
  BY <1>3, NothingFacts DEF Reading
<1>5. Steady(t)'
  BY <1>3 DEF Steady, OnItsWay
<1> QED
  BY <1>3, <1>4, <1>5

\* A target that is sent to is the right one if the request has been steady, and then the
\* request is not answered with the target that refused it.
LEMMA SendToFacts ==
    ASSUME Inv, NEW t \in Threads, NEW b \in Ports, NEW k \in Tokens, SendTo(t, b, k),
           pc[t] # "idle", UNCHANGED world, misfiled' = misfiled,
           steady[t] /\ ~misfiled => b = Target /\ k = token
    PROVE  /\ OthersStay(t) /\ ThreadTypes'
           /\ Reading(t)' /\ Steady(t)'
           /\ steady[t] /\ ~misfiled => pc'[t] # "idle"
<1>1. CASE at[t].tried = b
  <2>1. ~(steady[t] /\ ~misfiled)
    <3>1. b # None /\ Steady(t)
      BY ProxyAssumption DEF Inv
    <3> QED
      BY <1>1, <3>1 DEF Steady, OnItsWay
  <2> QED
    BY <1>1, <2>1, AnswerFacts DEF SendTo
<1>2. CASE at[t].tried # b
  <2> DEFINE r == [Nothing EXCEPT !.base = b, !.sends = k, !.tried = at[t].tried]
  <2>1. /\ pc' = [pc EXCEPT ![t] = "send"] /\ at' = [at EXCEPT ![t] = r] /\ steady' = steady
    BY <1>2 DEF SendTo, Goto
  <2>2. at[t].tried \in Ports \cup {None}
    BY AtFacts DEF Inv
  <2>3. /\ r \in Readings /\ r.base = b /\ r.sends = k /\ r.tried = at[t].tried
    BY <2>2, NothingFacts DEF Nothing, Readings
  <2> HIDE DEF r
  <2>4. steady[t] \in BOOLEAN /\ steady' = [steady EXCEPT ![t] = steady[t]]
    BY <2>1 DEF Inv, TypeOK
  <2>5. /\ pc'[t] = "send" /\ at'[t] = r /\ steady'[t] = steady[t]
        /\ OthersStay(t) /\ ThreadTypes'
    BY <2>1, <2>3, <2>4, Goes
  <2>6. Reading(t)'
    BY <2>3, <2>5, ProxyAssumption DEF Reading
  <2>7. Steady(t)'
    <3> SUFFICES ASSUME steady'[t], ~misfiled' PROVE Steady(t)'
      BY DEF Steady, OnItsWay
    <3>1. steady[t] /\ ~misfiled
      BY <2>4, <2>5
    <3>2. Steady(t) /\ Target' = Target /\ Settled' = Settled /\ token' = token
      BY DEF Inv, world, Target, Settled, Running, Address
    <3>3. Settled /\ (at[t].tried # None => at[t].tried # Target) /\ b = Target /\ k = token
      BY <3>1, <3>2 DEF Steady, OnItsWay
    <3> QED
      BY <2>3, <2>5, <3>2, <3>3 DEF Steady, OnItsWay
  <2> QED
    BY <2>5, <2>6, <2>7
<1> QED
  BY <1>1, <1>2

\* What a step that answers a steady request shows.
ServedIf(t) == steady[t] /\ pc'[t] = "idle" /\ ~misfiled => Served(t)

\* What a thread's step must show where only the threads' part and what may be dropped
\* of the memory change.
LEMMA PlainStep ==
    ASSUME Inv, NEW t \in Threads, UNCHANGED <<world, candidates, watched, misfiled>>,
           last' \in Ports \cup {None}, resolved' = resolved \/ resolved' = None,
           OthersStay(t), ThreadTypes', Reading(t)', Steady(t)'
    PROVE  Inv'
<1>1. ThreadStep(t)
  BY DEF ThreadStep, Inv, TypeOK
<1>2. TypeOK'
  BY DEF Inv, TypeOK, ThreadTypes, world
<1>3. CacheInv'
  BY <1>1, CacheStays
<1> QED
  BY <1>1, <1>2, <1>3, ThreadKeeps

\* What stays of a steady request while its thread reads on.
LEMMA SteadyFacts ==
    ASSUME Inv, NEW t \in Threads, UNCHANGED world
    PROVE  /\ Target' = Target /\ Settled' = Settled /\ Key(TRUE)' = Key(TRUE)
           /\ UNCHANGED <<launched, saved, docs, external, conf, files, secret, token>>
           /\ steady[t] \in BOOLEAN /\ misfiled \in BOOLEAN /\ watched \in BOOLEAN
           /\ steady = [steady EXCEPT ![t] = steady[t]] /\ at = [at EXCEPT ![t] = at[t]]
           /\ at[t] \in Readings
           /\ Reading(t) /\ Steady(t) /\ TypeOK /\ WorldInv /\ CacheInv
BY DEF Inv, TypeOK, ThreadTypes, world, Target, Settled, Running, Address, Key

\* A steady request stays one if its thread is still on its way.
LEMMA SteadyGoes ==
    ASSUME Inv, NEW t \in Threads, misfiled' = misfiled, steady'[t] = steady[t],
           steady[t] /\ ~misfiled => (OnItsWay(t) => OnItsWay(t)')
    PROVE  Steady(t)'
<1>1. misfiled \in BOOLEAN /\ steady[t] \in BOOLEAN /\ Steady(t)
  BY DEF Inv, TypeOK
<1> QED
  BY <1>1 DEF Steady

\* A request begins with nothing tried, and a stop with the token as it now is.
LEMMA RequestStep ==
    ASSUME Inv, NEW t \in Threads, NEW stop \in BOOLEAN, Request(t, stop)
    PROVE  Inv' /\ ServedIf(t)
<1>1. /\ pc[t] = "idle" /\ steady' = [steady EXCEPT ![t] = Settled] /\ Settled \in BOOLEAN
      /\ UNCHANGED <<world, candidates, watched, resolved, last, misfiled>>
  BY DEF Request, memory, Settled, Running
<1>2. at[t].tried = None
  BY <1>1, SteadyFacts DEF Reading
<1>3. last \in Ports \cup {None} /\ token \in Tokens
  BY DEF Inv, TypeOK
<1>4. CASE stop /\ last # None
  <2> DEFINE r == [at[t] EXCEPT !.base = last, !.sends = token]
  <2>1. pc' = [pc EXCEPT ![t] = "send"]
    BY <1>4 DEF Request, Goto
  <2>2. at' = [at EXCEPT ![t] = r]
    BY <1>4 DEF Request
  <2>3. r \in Readings /\ r.base = last /\ r.sends = token /\ r.tried = at[t].tried
    BY <1>1, <1>3, <1>4, SteadyFacts DEF Readings
  <2> HIDE DEF r
  <2>4. /\ pc'[t] = "send" /\ at'[t] = r /\ steady'[t] = Settled
        /\ OthersStay(t) /\ ThreadTypes'
    BY <1>1, <2>1, <2>2, <2>3, Goes
  <2>5. Reading(t)'
    BY <1>4, <2>3, <2>4 DEF Reading
  <2>6. Steady(t)'
    BY <1>1, <1>2, <2>3, <2>4, SteadyFacts DEF Steady, OnItsWay
  <2> QED
    BY <1>1, <1>3, <2>4, <2>5, <2>6, PlainStep DEF ServedIf
<1>5. CASE ~(stop /\ last # None)
  <2>1. pc' = [pc EXCEPT ![t] = "key"] /\ at' = at
    BY <1>5 DEF Request, Goto
  <2>2. /\ pc'[t] = "key" /\ at'[t] = at[t] /\ steady'[t] = Settled
        /\ OthersStay(t) /\ ThreadTypes'
    BY <1>1, <2>1, SteadyFacts, Goes
  <2>3. Reading(t)'
    BY <2>2 DEF Reading
  <2>4. Steady(t)'
    BY <1>1, <1>2, <2>2, SteadyFacts DEF Steady, OnItsWay
  <2> QED
    BY <1>1, <1>3, <2>2, <2>3, <2>4, PlainStep DEF ServedIf
<1> QED
  BY <1>4, <1>5

\* A hit is what resolving would find now; a miss takes the key to file under.
LEMMA LookUpStep == ASSUME Inv, NEW t \in Threads, LookUp(t) PROVE Inv' /\ ServedIf(t)
<1>1. /\ pc[t] = "key"
      /\ UNCHANGED <<world, candidates, watched, resolved, last, misfiled>>
  BY DEF LookUp, memory
<1>2. last \in Ports \cup {None}
  BY DEF Inv, TypeOK
<1>3. CASE resolved # None /\ resolved.key = Key(watched)
  <2>1. SendTo(t, resolved.base, resolved.token)
    BY <1>3 DEF LookUp
  <2>2. resolved.base \in Ports /\ resolved.token \in Tokens
    BY <1>3 DEF Inv, TypeOK
  <2>3. ~misfiled => resolved.base = Target /\ resolved.token = token
    <3>1. watched = TRUE
      BY <1>1, <1>3, SteadyFacts DEF CacheInv
    <3> QED
      BY <1>1, <1>3, <3>1, SteadyFacts DEF CacheInv, Current
  <2>4. /\ OthersStay(t) /\ ThreadTypes' /\ Reading(t)' /\ Steady(t)'
        /\ steady[t] /\ ~misfiled => pc'[t] # "idle"
    BY <1>1, <2>1, <2>2, <2>3, SendToFacts
  <2> QED
    BY <1>1, <1>2, <2>4, PlainStep DEF ServedIf
<1>4. CASE ~(resolved # None /\ resolved.key = Key(watched))
  <2> DEFINE r == [at[t] EXCEPT !.key = Key(watched)]
  <2>1. pc' = [pc EXCEPT ![t] = "status"] /\ at' = [at EXCEPT ![t] = r] /\ steady' = steady
    BY <1>4 DEF LookUp, Goto
  <2>2. Key(watched) \in Keys /\ Past(Key(watched))
    BY KeyFacts DEF Inv, TypeOK
  <2>3. r \in Readings /\ r.key = Key(watched) /\ r.tried = at[t].tried
    BY <1>1, <2>2, SteadyFacts DEF Readings
  <2> HIDE DEF r
  <2>4. /\ pc'[t] = "status" /\ at'[t] = r /\ steady'[t] = steady[t]
        /\ OthersStay(t) /\ ThreadTypes'
    BY <1>1, <2>1, <2>3, SteadyFacts, Goes
  <2>5. Reading(t)'
    BY <1>1, <2>2, <2>3, <2>4, SteadyFacts DEF Reading, Past
  <2>6. OnItsWay(t) => OnItsWay(t)'
    BY <1>1, <2>3, <2>4, SteadyFacts DEF OnItsWay
  <2>7. Steady(t)'
    BY <1>1, <2>4, <2>6, SteadyGoes
  <2> QED
    BY <1>1, <1>2, <2>4, <2>5, <2>7, PlainStep DEF ServedIf
<1> QED
  BY <1>3, <1>4

\* The launched runtime is known by its project; an external one is looked for at the
\* ports that are kept, if their key holds.
LEMMA ReadStatusStep == ASSUME Inv, NEW t \in Threads, ReadStatus(t) PROVE Inv' /\ ServedIf(t)
<1>1. /\ pc[t] = "status"
      /\ steady' = steady
      /\ UNCHANGED <<world, candidates, watched, resolved, last, misfiled>>
  BY DEF ReadStatus, memory
<1>2. last' \in Ports \cup {None} /\ launched' = launched
  BY <1>1 DEF Inv, TypeOK, world
<1>3. CASE launched # None
  <2> DEFINE r == [at[t] EXCEPT !.project = launched.project]
  <2>1. pc' = [pc EXCEPT ![t] = "document"] /\ at' = [at EXCEPT ![t] = r]
    BY <1>3 DEF ReadStatus, Goto
  <2>2. launched.project \in Projects /\ launched.project # None
    BY <1>3, Facts, ProxyAssumption DEF Inv
  <2>3. /\ r \in Readings /\ r.project = launched.project /\ r.key = at[t].key
        /\ r.tried = at[t].tried
    BY <1>1, <2>2, SteadyFacts DEF Readings
  <2> HIDE DEF r
  <2>4. /\ pc'[t] = "document" /\ at'[t] = r /\ steady'[t] = steady[t]
        /\ OthersStay(t) /\ ThreadTypes'
    BY <1>1, <2>1, <2>3, SteadyFacts, Goes
  <2>5. Reading(t)'
    BY <1>1, <1>2, <1>3, <2>2, <2>3, <2>4, SteadyFacts DEF Reading, Past
  <2>6. OnItsWay(t) => OnItsWay(t)'
    BY <1>1, <1>3, <2>3, <2>4, SteadyFacts DEF OnItsWay
  <2>7. Steady(t)'
    BY <1>1, <2>4, <2>6, SteadyGoes
  <2> QED
    BY <1>1, <1>2, <2>4, <2>5, <2>7, PlainStep DEF ServedIf
<1>4. CASE launched = None /\ KeyHolds
  <2> DEFINE r == [at[t] EXCEPT !.port = candidates.port]
  <2>1. pc' = [pc EXCEPT ![t] = "probe"] /\ at' = [at EXCEPT ![t] = r]
    BY <1>4 DEF ReadStatus, Goto
  <2>2. candidates.port \in Ports
    BY <1>4 DEF Inv, TypeOK, KeyHolds
  <2>3. r \in Readings /\ r.port = candidates.port /\ r.key = at[t].key /\ r.tried = at[t].tried
    BY <1>1, <2>2, SteadyFacts DEF Readings
  <2> HIDE DEF r
  <2>4. /\ pc'[t] = "probe" /\ at'[t] = r /\ steady'[t] = steady[t]
        /\ OthersStay(t) /\ ThreadTypes'
    BY <1>1, <2>1, <2>3, SteadyFacts, Goes
  <2>5. Reading(t)'
    BY <1>1, <1>2, <1>4, <2>2, <2>3, <2>4, SteadyFacts, ProxyAssumption DEF Reading, Past
  <2>6. ~misfiled => candidates.port = conf.port
    BY <1>1, <1>4, SteadyFacts DEF CacheInv, KeyHolds
  <2>7. ~misfiled => (OnItsWay(t) => OnItsWay(t)')
    BY <1>1, <1>4, <2>3, <2>4, <2>6, SteadyFacts DEF OnItsWay
  <2>8. Steady(t)'
    BY <1>1, <2>4, <2>7, SteadyGoes
  <2> QED
    BY <1>1, <1>2, <2>4, <2>5, <2>8, PlainStep DEF ServedIf
<1>5. CASE launched = None /\ ~KeyHolds
  <2>1. pc' = [pc EXCEPT ![t] = "find"] /\ at' = at
    BY <1>5 DEF ReadStatus, Goto
  <2>2. /\ pc'[t] = "find" /\ at'[t] = at[t] /\ steady'[t] = steady[t]
        /\ OthersStay(t) /\ ThreadTypes'
    BY <1>1, <2>1, SteadyFacts, Goes
  <2>3. Reading(t)'
    BY <1>1, <1>2, <1>5, <2>2, SteadyFacts DEF Reading, Past
  <2>4. OnItsWay(t) => OnItsWay(t)'
    BY <1>1, <1>5, <2>2, SteadyFacts DEF OnItsWay
  <2>5. Steady(t)'
    BY <1>1, <2>2, <2>4, SteadyGoes
  <2> QED
    BY <1>1, <1>2, <2>2, <2>3, <2>5, PlainStep DEF ServedIf
<1> QED
  BY <1>3, <1>4, <1>5

\* The document that is read is the target, if the project it is of still runs.
LEMMA ReadDocumentStep == ASSUME Inv, NEW t \in Threads, ReadDocument(t) PROVE Inv' /\ ServedIf(t)
<1> DEFINE p == saved[at[t].project]
<1>1. pc[t] = "document" /\ UNCHANGED <<world, candidates, watched, misfiled>>
  BY DEF ReadDocument
<1>2. at[t].project \in Projects /\ p \in Ports \cup {None}
  BY <1>1, SteadyFacts, AtFacts, Facts DEF Reading
<1>3. launched # None /\ launched.project = at[t].project => Target = p
  BY DEF Target
<1>4. CASE p = None
  <2>1. resolved' = None /\ Answer(t) /\ last' = last
    BY <1>4 DEF ReadDocument
  <2>2. ~(steady[t] /\ ~misfiled)
    BY <1>1, <1>3, <1>4, SteadyFacts, Facts, ProxyAssumption DEF Steady, OnItsWay
  <2>3. last' \in Ports \cup {None}
    BY <2>1 DEF Inv, TypeOK
  <2> QED
    BY <1>1, <2>1, <2>2, <2>3, AnswerFacts, PlainStep DEF ServedIf
<1>5. CASE p # None
  <2> DEFINE r == [at[t] EXCEPT !.base = p, !.project = None]
  <2>1. /\ last' = p /\ steady' = steady /\ resolved' = resolved
        /\ pc' = [pc EXCEPT ![t] = "token"]
    BY <1>5 DEF ReadDocument, Goto
  <2>2. at' = [at EXCEPT ![t] = r]
    BY <1>5 DEF ReadDocument
  <2>3. p \in Ports
    BY <1>2, <1>5
  <2>4. r \in Readings /\ r.base = p /\ r.key = at[t].key /\ r.tried = at[t].tried
    BY <1>1, <2>3, SteadyFacts DEF Readings
  <2> HIDE DEF r
  <2>5. /\ pc'[t] = "token" /\ at'[t] = r /\ steady'[t] = steady[t]
        /\ OthersStay(t) /\ ThreadTypes'
    BY <1>1, <2>1, <2>2, <2>4, SteadyFacts, Goes
  <2>6. Reading(t)'
    <3>1. Past(at[t].key) /\ (at[t].key.files = files
              => launched # None /\ launched.project = at[t].project)
      BY <1>1, SteadyFacts DEF Reading
    <3>2. Current(at[t].key) => at[t].key.files = files
      BY DEF Current, Key
    <3>3. Past(at[t].key)'
      BY <1>1, <2>4, <2>5, <3>1, SteadyFacts DEF Past
    <3>4. (Current(at[t].key) => at[t].base = Target)'
      BY <1>1, <1>3, <2>4, <2>5, <3>1, <3>2, SteadyFacts DEF Current
    <3>5. pc'[t] = "token" /\ at'[t].base # None
      BY <1>5, <2>4, <2>5
    <3> QED
      BY <3>3, <3>4, <3>5 DEF Reading
  <2>7. OnItsWay(t) => OnItsWay(t)'
    BY <1>1, <1>3, <2>4, <2>5, SteadyFacts DEF OnItsWay
  <2>8. Steady(t)'
    BY <1>1, <2>1, <2>5, <2>7, SteadyGoes
  <2> QED
    BY <1>1, <2>1, <2>3, <2>5, <2>6, <2>8, PlainStep DEF ServedIf
<1> QED
  BY <1>4, <1>5

\* The port is read from runtime.yaml.
LEMMA FindPortsStep == ASSUME Inv, NEW t \in Threads, FindPorts(t) PROVE Inv' /\ ServedIf(t)
<1> DEFINE r == [at[t] EXCEPT !.port = conf.port]
<1>1. /\ pc[t] = "find"
      /\ steady' = steady /\ pc' = [pc EXCEPT ![t] = "keep"] /\ at' = [at EXCEPT ![t] = r]
      /\ UNCHANGED <<world, candidates, watched, resolved, last, misfiled>>
  BY DEF FindPorts, memory, Goto
<1>2. last \in Ports \cup {None} /\ conf.port \in Ports /\ conf.port # None
  BY Facts DEF Inv, TypeOK
<1>3. r \in Readings /\ r.port = conf.port /\ r.key = at[t].key /\ r.tried = at[t].tried
  BY <1>1, <1>2, SteadyFacts DEF Readings
<1> HIDE DEF r
<1>4. /\ pc'[t] = "keep" /\ at'[t] = r /\ steady'[t] = steady[t]
      /\ OthersStay(t) /\ ThreadTypes'
  BY <1>1, <1>3, SteadyFacts, Goes
<1>5. Reading(t)'
  <2>1. Past(at[t].key) /\ (at[t].key.files = files => launched = None)
    BY <1>1, SteadyFacts DEF Reading
  <2>2. Past(at[t].key)' /\ ((at[t].key.files = files => launched = None)')
    BY <1>1, <1>3, <1>4, <2>1, SteadyFacts DEF Past
  <2>3. pc'[t] = "keep" /\ at'[t].port # None
    BY <1>2, <1>3, <1>4
  <2> QED
    BY <2>2, <2>3 DEF Reading
<1>6. OnItsWay(t) => OnItsWay(t)'
  BY <1>1, <1>3, <1>4, SteadyFacts DEF OnItsWay
<1>7. Steady(t)'
  BY <1>1, <1>4, <1>6, SteadyGoes
<1> QED
  BY <1>1, <1>2, <1>4, <1>5, <1>7, PlainStep DEF ServedIf

\* The ports are kept under stamps read after them: right, or marked.
LEMMA KeepPortsStep == ASSUME Inv, NEW t \in Threads, KeepPorts(t) PROVE Inv' /\ ServedIf(t)
<1>1. /\ pc[t] = "keep"
      /\ candidates' = [files |-> files, docs |-> docs, conf |-> conf.stamp,
                        port |-> at[t].port]
      /\ steady' = steady /\ pc' = [pc EXCEPT ![t] = "probe"] /\ at' = at
      /\ UNCHANGED <<world, watched, resolved, last>>
  BY DEF KeepPorts, Goto
<1>2. misfiled' = (misfiled \/ at[t].port # conf.port)
  BY DEF KeepPorts
<1>3. /\ pc'[t] = "probe" /\ at'[t] = at[t] /\ steady'[t] = steady[t]
      /\ OthersStay(t) /\ ThreadTypes'
  BY <1>1, SteadyFacts, Goes
<1>4. misfiled' \in BOOLEAN /\ (misfiled => misfiled') /\ (~misfiled' => at[t].port = conf.port)
  BY <1>2
<1>5. ThreadStep(t)
  BY <1>1, <1>3, <1>4, SteadyFacts DEF ThreadStep
<1>6. at[t].port \in Ports
  BY <1>1, SteadyFacts DEF Reading, Readings
<1>7. candidates' \in [files : Stamps, docs : 0..MaxSaves, conf : 0..MaxRewrites, port : Ports]
  BY <1>1, <1>6, Facts DEF Inv
<1>8. TypeOK'
  BY <1>1, <1>3, <1>4, <1>7 DEF Inv, TypeOK, ThreadTypes, world
<1>9. CacheInv'
  <2>1. candidates'.conf = conf.stamp /\ candidates'.port = at[t].port /\ conf.stamp <= conf.stamp
    BY <1>1, Facts DEF Inv
  <2>2. (~misfiled /\ resolved # None /\ Current(resolved.key) =>
           resolved.base = Target /\ resolved.token = token)'
    BY <1>1, <1>4, SteadyFacts DEF CacheInv, Current
  <2>3. (resolved # None => watched /\ Past(resolved.key))'
    BY <1>1, SteadyFacts DEF CacheInv, Past
  <2>4. (~misfiled /\ candidates # None /\ candidates.conf = conf.stamp =>
           candidates.port = conf.port)'
    BY <1>1, <1>4, <2>1, SteadyFacts
  <2>5. (candidates # None => candidates.conf <= conf.stamp)'
    BY <1>1, <2>1, SteadyFacts
  <2> QED
    BY <2>2, <2>3, <2>4, <2>5 DEF CacheInv
<1>10. Reading(t)'
  BY <1>1, <1>3, <1>6, SteadyFacts, ProxyAssumption DEF Reading, Past
<1>11. Steady(t)'
  <2>1. OnItsWay(t) => OnItsWay(t)'
    BY <1>1, <1>3, SteadyFacts DEF OnItsWay
  <2>2. Steady(t) /\ steady[t] \in BOOLEAN /\ misfiled \in BOOLEAN
    BY <1>1, SteadyFacts
  <2> QED
    BY <1>3, <1>4, <2>1, <2>2 DEF Steady
<1> QED
  BY <1>3, <1>5, <1>8, <1>9, <1>10, <1>11, ThreadKeeps DEF ServedIf

\* What answers at the port is the runtime, which a steady request finds.
LEMMA ProbeStep == ASSUME Inv, NEW t \in Threads, Probe(t) PROVE Inv' /\ ServedIf(t)
<1>1. /\ pc[t] = "probe"
      /\ UNCHANGED <<world, candidates, watched, last, misfiled>>
  BY DEF Probe
<1>2. last \in Ports \cup {None}
  BY DEF Inv, TypeOK
<1>3. CASE Running /\ Address = at[t].port
  <2>1. pc' = [pc EXCEPT ![t] = "config"] /\ UNCHANGED <<resolved, at, steady>>
    BY <1>3 DEF Probe, Goto
  <2>2. /\ pc'[t] = "config" /\ at'[t] = at[t] /\ steady'[t] = steady[t]
        /\ OthersStay(t) /\ ThreadTypes'
    BY <1>1, <2>1, SteadyFacts, Goes
  <2>3. Reading(t)'
    BY <1>1, <2>2, SteadyFacts DEF Reading, Past
  <2>4. OnItsWay(t) => OnItsWay(t)'
    BY <1>1, <2>2, SteadyFacts DEF OnItsWay
  <2>5. Steady(t)'
    BY <1>1, <2>2, <2>4, SteadyGoes
  <2> QED
    BY <1>1, <1>2, <2>1, <2>2, <2>3, <2>5, PlainStep DEF ServedIf
<1>4. CASE ~(Running /\ Address = at[t].port)
  <2>1. resolved' = None /\ Answer(t)
    BY <1>4 DEF Probe
  <2>2. ~(steady[t] /\ ~misfiled)
    BY <1>1, <1>4, SteadyFacts DEF Steady, OnItsWay, Settled, Target
  <2> QED
    BY <1>1, <1>2, <2>1, <2>2, AnswerFacts, PlainStep DEF ServedIf
<1> QED
  BY <1>3, <1>4

\* The target of an external runtime is its port, while no runtime is launched.
LEMMA ReadConfigStep == ASSUME Inv, NEW t \in Threads, ReadConfig(t) PROVE Inv' /\ ServedIf(t)
<1> DEFINE r == [at[t] EXCEPT !.base = conf.port, !.port = None]
<1>1. /\ pc[t] = "config" /\ last' = conf.port
      /\ steady' = steady /\ pc' = [pc EXCEPT ![t] = "token"]
      /\ UNCHANGED <<world, candidates, watched, resolved, misfiled>>
  BY DEF ReadConfig, Goto
<1>2. at' = [at EXCEPT ![t] = r]
  BY DEF ReadConfig
<1>3. conf.port \in Ports /\ conf.port # None
  BY Facts DEF Inv
<1>4. r \in Readings /\ r.base = conf.port /\ r.key = at[t].key /\ r.tried = at[t].tried
  BY <1>1, <1>3, SteadyFacts DEF Readings
<1> HIDE DEF r
<1>5. /\ pc'[t] = "token" /\ at'[t] = r /\ steady'[t] = steady[t]
      /\ OthersStay(t) /\ ThreadTypes'
  BY <1>1, <1>2, <1>4, SteadyFacts, Goes
<1>6. launched = None => Target = conf.port
  BY DEF Target
<1>7. Reading(t)'
  <2>1. Past(at[t].key) /\ (at[t].key.files = files => launched = None)
    BY <1>1, SteadyFacts DEF Reading
  <2>2. Current(at[t].key) => at[t].key.files = files
    BY DEF Current, Key
  <2>3. Past(at[t].key)'
    BY <1>1, <1>4, <1>5, <2>1, SteadyFacts DEF Past
  <2>4. (Current(at[t].key) => at[t].base = Target)'
    BY <1>1, <1>4, <1>5, <1>6, <2>1, <2>2, SteadyFacts DEF Current
  <2>5. pc'[t] = "token" /\ at'[t].base # None
    BY <1>3, <1>4, <1>5
  <2> QED
    BY <2>3, <2>4, <2>5 DEF Reading
<1>8. OnItsWay(t) => OnItsWay(t)'
  BY <1>1, <1>4, <1>5, <1>6, SteadyFacts DEF OnItsWay
<1>9. Steady(t)'
  BY <1>1, <1>5, <1>8, SteadyGoes
<1> QED
  BY <1>1, <1>3, <1>5, <1>7, <1>9, PlainStep DEF ServedIf

\* The token is read as it is under the key, if the key is current.
LEMMA ReadTokenStep == ASSUME Inv, NEW t \in Threads, ReadToken(t) PROVE Inv' /\ ServedIf(t)
<1> DEFINE r == [at[t] EXCEPT !.sends = token]
           label == IF watched THEN "file" ELSE "rekey"
<1>1. /\ pc[t] = "token"
      /\ steady' = steady /\ pc' = [pc EXCEPT ![t] = label] /\ at' = [at EXCEPT ![t] = r]
      /\ UNCHANGED <<world, candidates, watched, resolved, last, misfiled>>
  BY DEF ReadToken, Goto, memory
<1>2. last \in Ports \cup {None} /\ token \in Tokens
  BY DEF Inv, TypeOK
<1>3. r \in Readings /\ r.sends = token /\ r.base = at[t].base /\ r.key = at[t].key
      /\ r.tried = at[t].tried
  BY <1>1, <1>2, SteadyFacts DEF Readings
<1>4. label \in {"file", "rekey"} /\ (label = "file" => watched)
  OBVIOUS
<1> HIDE DEF r, label
<1>5. /\ pc'[t] = label /\ at'[t] = r /\ steady'[t] = steady[t]
      /\ OthersStay(t) /\ ThreadTypes'
  BY <1>1, <1>3, <1>4, SteadyFacts, Goes
<1>6. Reading(t)'
  <2>1. Past(at[t].key) /\ at[t].base # None
        /\ (~misfiled /\ Current(at[t].key) => at[t].base = Target)
    BY <1>1, SteadyFacts DEF Reading
  <2>2. Past(at[t].key)' /\ at'[t].base # None
    BY <1>1, <1>3, <1>5, <2>1, SteadyFacts DEF Past
  <2>3. (~misfiled /\ Current(at[t].key) => at[t].base = Target)'
    BY <1>1, <1>3, <1>5, <2>1, SteadyFacts DEF Current
  <2>4. at'[t].sends = token'
    BY <1>1, <1>3, <1>5, SteadyFacts
  <2>5. watched' = watched /\ watched \in BOOLEAN
    BY <1>1, SteadyFacts
  <2> QED
    BY <1>4, <1>5, <2>2, <2>3, <2>4, <2>5 DEF Reading
<1>7. OnItsWay(t) => OnItsWay(t)'
  BY <1>1, <1>3, <1>4, <1>5, SteadyFacts DEF OnItsWay
<1>8. Steady(t)'
  BY <1>1, <1>5, <1>7, SteadyGoes
<1> QED
  BY <1>1, <1>2, <1>4, <1>5, <1>6, <1>8, PlainStep DEF ServedIf

\* The key is taken again: what was read before it is right, or marked.
LEMMA RekeyStep == ASSUME Inv, NEW t \in Threads, Rekey(t) PROVE Inv' /\ ServedIf(t)
<1> DEFINE r == [at[t] EXCEPT !.key = Key(TRUE)]
<1>1. /\ pc[t] = "rekey" /\ watched' = TRUE
      /\ steady' = steady /\ pc' = [pc EXCEPT ![t] = "file"] /\ at' = [at EXCEPT ![t] = r]
      /\ UNCHANGED <<world, candidates, resolved, last>>
  BY DEF Rekey, Goto
<1>2. misfiled' = (misfiled \/ at[t].sends # token \/ at[t].base # Target)
  BY DEF Rekey
<1>3. /\ misfiled' \in BOOLEAN /\ (misfiled => misfiled')
      /\ ~misfiled' => at[t].sends = token /\ at[t].base = Target
  BY <1>2
<1>4. Key(TRUE) \in Keys /\ Past(Key(TRUE))
  BY KeyFacts DEF Inv
<1>5. r \in Readings /\ r.sends = at[t].sends /\ r.base = at[t].base /\ r.key = Key(TRUE)
      /\ r.tried = at[t].tried
  BY <1>1, <1>4, SteadyFacts DEF Readings
<1> HIDE DEF r
<1>6. /\ pc'[t] = "file" /\ at'[t] = r /\ steady'[t] = steady[t]
      /\ OthersStay(t) /\ ThreadTypes'
  BY <1>1, <1>5, SteadyFacts, Goes
<1>7. ThreadStep(t)
  BY <1>1, <1>3, <1>6 DEF ThreadStep
<1>8. TypeOK'
  BY <1>1, <1>3, <1>6 DEF Inv, TypeOK, ThreadTypes, world
<1>9. CacheInv'
  BY <1>1, <1>7, CacheStays
<1>10. Reading(t)'
  <2>1. at[t].base # None
    BY <1>1, SteadyFacts DEF Reading
  <2>2. Past(at[t].key)' /\ at'[t].base # None /\ watched'
    BY <1>1, <1>4, <1>5, <1>6, <2>1, SteadyFacts DEF Past
  <2>3. ~misfiled' => at'[t].base = Target' /\ at'[t].sends = token'
    BY <1>1, <1>3, <1>5, <1>6, SteadyFacts
  <2> QED
    BY <1>6, <2>2, <2>3 DEF Reading
<1>11. Steady(t)'
  <2>1. OnItsWay(t) => OnItsWay(t)'
    BY <1>1, <1>5, <1>6, SteadyFacts DEF OnItsWay
  <2>2. Steady(t) /\ steady[t] \in BOOLEAN /\ misfiled \in BOOLEAN
    BY <1>1, SteadyFacts
  <2> QED
    BY <1>3, <1>6, <2>1, <2>2 DEF Steady
<1> QED
  BY <1>6, <1>7, <1>8, <1>9, <1>10, <1>11, ThreadKeeps DEF ServedIf

\* What is filed is right for as long as the key it is filed under is current.
LEMMA FileStep == ASSUME Inv, NEW t \in Threads, File(t) PROVE Inv' /\ ServedIf(t)
<1>1. /\ pc[t] = "file"
      /\ resolved' = [key |-> at[t].key, base |-> at[t].base, token |-> at[t].sends]
      /\ SendTo(t, at[t].base, at[t].sends)
      /\ UNCHANGED <<world, candidates, watched, last, misfiled>>
  BY DEF File
<1>2. at[t].base \in Ports /\ at[t].sends \in Tokens /\ at[t].key \in Keys
  BY <1>1, SteadyFacts DEF Reading, Readings
<1>3. steady[t] /\ ~misfiled => at[t].base = Target /\ at[t].sends = token
  BY <1>1, SteadyFacts DEF Steady, OnItsWay
<1>4. /\ OthersStay(t) /\ ThreadTypes' /\ Reading(t)' /\ Steady(t)'
      /\ steady[t] /\ ~misfiled => pc'[t] # "idle"
  BY <1>1, <1>2, <1>3, SendToFacts
<1>5. ThreadStep(t)
  BY <1>1, <1>4, SteadyFacts DEF ThreadStep
<1>6. resolved' \in [key : Keys, base : Ports, token : Tokens]
  BY <1>1, <1>2
<1>7. TypeOK'
  BY <1>1, <1>4, <1>6 DEF Inv, TypeOK, ThreadTypes, world
<1>8. CacheInv'
  <2>1. /\ resolved'.key = at[t].key /\ resolved'.base = at[t].base
        /\ resolved'.token = at[t].sends
    BY <1>1
  <2>2. Past(at[t].key) /\ watched
    BY <1>1, SteadyFacts DEF Reading
  <2>3. ~misfiled /\ Current(at[t].key) => at[t].base = Target /\ at[t].sends = token
    BY <1>1, SteadyFacts DEF Reading
  <2>4. (resolved # None => watched /\ Past(resolved.key))'
    BY <1>1, <2>1, <2>2, SteadyFacts DEF Past
  <2>5. (~misfiled /\ resolved # None /\ Current(resolved.key) =>
           resolved.base = Target /\ resolved.token = token)'
    BY <1>1, <2>1, <2>3, SteadyFacts DEF Current
  <2>6. /\ (candidates # None => candidates.conf <= conf.stamp)'
        /\ (~misfiled /\ candidates # None /\ candidates.conf = conf.stamp =>
               candidates.port = conf.port)'
    BY <1>1, SteadyFacts DEF CacheInv
  <2> QED
    BY <2>4, <2>5, <2>6 DEF CacheInv
<1> QED
  BY <1>4, <1>5, <1>7, <1>8, ThreadKeeps DEF ServedIf

\* A target that refuses is not the one a steady request is on its way to.
LEMMA SendStep == ASSUME Inv, NEW t \in Threads, Send(t) PROVE Inv' /\ ServedIf(t)
<1>1. /\ pc[t] = "send"
      /\ UNCHANGED <<world, candidates, watched, last, misfiled>>
  BY DEF Send
<1>2. last \in Ports \cup {None}
  BY DEF Inv, TypeOK
<1>3. CASE Reaches(t) \/ at[t].tried # None
  <2>1. Answer(t) /\ resolved' = resolved
    BY <1>3 DEF Send
  <2>2. Inv'
    BY <1>1, <1>2, <2>1, AnswerFacts, PlainStep
  <2>3. OnItsWay(t) => Served(t)
    BY <1>1, <1>3 DEF OnItsWay, Served, Reaches, Settled
  <2>4. ServedIf(t)
    BY <1>1, <2>3, SteadyFacts DEF Steady, ServedIf
  <2> QED
    BY <2>2, <2>4
<1>4. CASE ~(Reaches(t) \/ at[t].tried # None)
  <2> DEFINE r == [Nothing EXCEPT !.tried = at[t].base]
  <2>1. /\ pc' = [pc EXCEPT ![t] = "key"] /\ at' = [at EXCEPT ![t] = r]
        /\ steady' = steady /\ resolved' = None
    BY <1>4 DEF Send, Goto
  <2>2. at[t].base \in Ports
    BY <1>1, SteadyFacts DEF Reading, Readings
  <2>3. r \in Readings /\ r.tried = at[t].base
    BY <2>2, NothingFacts DEF Nothing, Readings
  <2> HIDE DEF r
  <2>4. /\ pc'[t] = "key" /\ at'[t] = r /\ steady'[t] = steady[t]
        /\ OthersStay(t) /\ ThreadTypes'
    BY <1>1, <2>1, <2>3, SteadyFacts, Goes
  <2>5. Reading(t)'
    BY <2>4 DEF Reading
  <2>6. OnItsWay(t) => OnItsWay(t)'
    <3>1. Settled => at[t].base # Target
      BY <1>4 DEF Settled, Reaches
    <3> QED
      BY <1>1, <2>3, <2>4, <3>1, SteadyFacts DEF OnItsWay
  <2>7. Steady(t)'
    BY <1>1, <2>4, <2>6, SteadyGoes
  <2> QED
    BY <1>1, <1>2, <2>1, <2>4, <2>5, <2>7, PlainStep DEF ServedIf
<1> QED
  BY <1>3, <1>4

-----------------------------------------------------------------------------

\* A key of the past that is current is one that was: no stamp has changed since.
LEMMA PastKeys ==
    ASSUME Inv, TypeOK', files <= files', docs <= docs', conf.stamp <= conf.stamp', token <= token',
           files' = files => launched' = launched,
           docs' = docs => saved' = saved,
           conf'.stamp = conf.stamp => conf' = conf,
           NEW k \in Keys, Past(k)
    PROVE  /\ k.files <= files' /\ k.docs <= docs' /\ k.conf <= conf'.stamp /\ k.token <= token'
           /\ k = Key(TRUE)' => k = Key(TRUE) /\ Target' = Target /\ token' = token
           /\ k.files = files' => files' = files
<1>1. /\ k.files \in Nat /\ k.docs \in Nat /\ k.conf \in Nat /\ k.token \in Nat
      /\ files \in Nat /\ docs \in Nat /\ conf.stamp \in Nat /\ token \in Nat
  BY Facts, ProxyAssumption DEF Inv, Keys, Stamps, Tokens
<1>2. files' \in Nat /\ docs' \in Nat /\ conf'.stamp \in Nat /\ token' \in Nat
  BY ProxyAssumption DEF TypeOK, Confs, Stamps, Tokens
<1>3. k.files <= files /\ k.docs <= docs /\ k.conf <= conf.stamp /\ k.token <= token
  BY DEF Past
<1>4. k = Key(TRUE)' => k.files = files' /\ k.docs = docs' /\ k.conf = conf'.stamp /\ k.token = token'
  BY DEF Key
<1>5. /\ k.files = files' => files' = files
      /\ k.docs = docs' => docs' = docs
      /\ k.conf = conf'.stamp => conf'.stamp = conf.stamp
      /\ k.token = token' => token' = token
  BY <1>1, <1>2, <1>3
<1>6. k = Key(TRUE)' => /\ files' = files /\ docs' = docs /\ conf' = conf /\ token' = token
                        /\ launched' = launched /\ saved' = saved
  BY <1>4, <1>5
<1>7. k = Key(TRUE)' => Key(TRUE)' = Key(TRUE) /\ Target' = Target
  BY <1>6 DEF Key, Target
<1>8. k.files <= files' /\ k.docs <= docs' /\ k.conf <= conf'.stamp /\ k.token <= token'
  BY <1>1, <1>2, <1>3
<1> QED
  BY <1>5, <1>6, <1>7, <1>8

\* The world may move if its stamps say so and no request is taken for steady.
LEMMA WorldKeeps ==
    ASSUME Inv, TypeOK', WorldInv', UNCHANGED <<memory, threads, misfiled>>,
           files <= files', docs <= docs', conf.stamp <= conf.stamp', token <= token',
           files' = files => launched' = launched,
           docs' = docs => saved' = saved,
           conf'.stamp = conf.stamp => conf' = conf,
           \A t \in Threads : Steady(t)'
    PROVE  Inv'
<1>1. UNCHANGED <<candidates, watched, resolved, last, pc, at, misfiled>>
  BY DEF memory, threads
<1>2. watched \in BOOLEAN /\ misfiled \in BOOLEAN
  BY DEF Inv, TypeOK
<1>3. CacheInv'
  <2>1. ASSUME resolved # None
        PROVE  /\ watched /\ Past(resolved.key)' /\ resolved'.key = resolved.key
               /\ Current(resolved.key)' => Current(resolved.key) /\ Target' = Target /\ token' = token
    <3>1. resolved.key \in Keys /\ Past(resolved.key) /\ watched
      BY <2>1 DEF Inv, TypeOK, CacheInv
    <3>2. resolved'.key = resolved.key
      BY <1>1
    <3> QED
      BY <3>1, <3>2, PastKeys DEF Past, Current
  <2>2. ASSUME candidates # None
        PROVE  /\ candidates.conf <= conf'.stamp
               /\ candidates.conf = conf'.stamp => candidates.conf = conf.stamp /\ conf' = conf
    <3>1. candidates.conf \in Nat /\ conf.stamp \in Nat /\ candidates.conf <= conf.stamp
      BY <2>2, Facts, ProxyAssumption DEF Inv, TypeOK, CacheInv
    <3>2. conf'.stamp \in Nat
      BY ProxyAssumption DEF TypeOK, Confs
    <3>3. candidates.conf <= conf'.stamp
      BY <3>1, <3>2
    <3>4. candidates.conf = conf'.stamp => conf'.stamp = conf.stamp
      BY <3>1, <3>2
    <3> QED
      BY <3>3, <3>4
  <2>3. CacheInv
    BY DEF Inv
  <2>4. (resolved # None => watched /\ Past(resolved.key))'
    BY <1>1, <2>1
  <2>5. (candidates # None => candidates.conf <= conf.stamp)'
    BY <1>1, <2>2
  <2>6. (~misfiled /\ resolved # None /\ Current(resolved.key) =>
           resolved.base = Target /\ resolved.token = token)'
    BY <1>1, <1>2, <2>1, <2>3 DEF CacheInv
  <2>7. (~misfiled /\ candidates # None /\ candidates.conf = conf.stamp =>
           candidates.port = conf.port)'
    BY <1>1, <1>2, <2>2, <2>3 DEF CacheInv
  <2> QED
    BY <2>4, <2>5, <2>6, <2>7 DEF CacheInv
<1>4. ASSUME NEW t \in Threads PROVE Reading(t)'
  <2>1. Reading(t) /\ at[t].key \in Keys /\ pc'[t] = pc[t] /\ at'[t] = at[t]
    BY <1>1, AtFacts DEF Inv, Readings
  <2>2. ASSUME Past(at[t].key)
        PROVE  /\ Past(at[t].key)'
               /\ Current(at[t].key)' => Current(at[t].key) /\ Target' = Target /\ token' = token
               /\ at[t].key.files = files' => files' = files
    BY <2>1, <2>2, PastKeys DEF Past, Current
  <2>3. /\ (pc[t] = "idle" => at[t].tried = None)'
        /\ (pc[t] \in {"keep", "probe"} => at[t].port # None)'
        /\ (pc[t] \in {"token", "rekey", "file", "send"} => at[t].base # None)'
    BY <2>1 DEF Reading
  <2>4. (pc[t] = "file" => watched)'
    BY <1>1, <1>2, <2>1 DEF Reading
  <2>5. (pc[t] \notin {"idle", "key", "send"} => Past(at[t].key))'
    BY <2>1, <2>2 DEF Reading
  <2>6. /\ (pc[t] \in {"find", "keep", "probe", "config"} /\ at[t].key.files = files
                => launched = None)'
        /\ (pc[t] = "document" => at[t].project # None)'
        /\ (pc[t] = "document" /\ at[t].key.files = files
                => launched # None /\ launched.project = at[t].project)'
    BY <2>1, <2>2 DEF Reading
  <2>7. /\ (pc[t] \in {"token", "file"} /\ ~misfiled /\ Current(at[t].key) => at[t].base = Target)'
        /\ (pc[t] = "file" /\ ~misfiled /\ Current(at[t].key) => at[t].sends = token)'
    BY <1>1, <1>2, <2>1, <2>2 DEF Reading
  <2> QED
    BY <2>3, <2>4, <2>5, <2>6, <2>7 DEF Reading
<1> QED
  BY <1>3, <1>4 DEF Inv

\* Whatever the world does shows in a stamp, where it changes what resolving would find.
LEMMA WorldStep == ASSUME Inv, World PROVE Inv' /\ UNCHANGED threads
<1>1. /\ TypeOK /\ WorldInv
      /\ files \in Nat /\ docs \in Nat /\ conf.stamp \in Nat /\ token \in Nat /\ secret \in Nat
      /\ files <= 2 * MaxLaunches /\ conf.stamp <= MaxRewrites
      /\ token <= MaxTokens /\ secret <= MaxTokens
      /\ docs <= docs /\ MaxSaves \in Nat /\ MaxLaunches \in Nat /\ MaxRewrites \in Nat /\ MaxTokens \in Nat
  BY Facts, ProxyAssumption DEF Inv, Stamps, Tokens
<1>2. ASSUME Changed PROVE \A t \in Threads : Steady(t)'
  BY <1>2 DEF Changed, Steady
<1>3. UNCHANGED <<memory, threads, misfiled>>
  BY DEF World, Launch, SaveDocument, Rewrite, LaunchedExits, ExternalStarts, ExternalStops, Rotate, SyncToken
<1>4. UNCHANGED <<candidates, watched, resolved, last, pc, at, misfiled>>
  BY <1>3 DEF memory, threads
<1>5. ASSUME Changed PROVE steady' \in [Threads -> BOOLEAN]
  BY <1>5 DEF Changed
<1>6. ASSUME NEW j \in Projects, Launch(j) PROVE Inv'
  <2>1. /\ launched' = [project |-> j, port |-> saved[j]] /\ files' = files + 1 /\ Changed
        /\ saved[j] # None /\ files < 2 * MaxLaunches /\ files % 2 = 0
        /\ UNCHANGED <<saved, docs, external, conf, secret, token>>
    BY <1>6 DEF Launch
  <2>5. launched' \in Launches /\ launched' # None
    <3>1. saved[j] \in Ports
      BY <1>1, <2>1 DEF TypeOK
    <3> QED
      BY <2>1, <3>1, ProxyAssumption DEF Launches
  <2>2. files' \in Stamps /\ files' # files /\ files <= files' /\ files' % 2 = 1
    BY <1>1, <2>1 DEF Stamps
  <2>3. TypeOK'
    BY <1>1, <1>4, <1>5, <2>1, <2>2, <2>5 DEF TypeOK
  <2>4. WorldInv'
    BY <1>1, <2>1, <2>2, <2>5 DEF WorldInv
  <2> QED
    BY <1>1, <1>2, <1>3, <2>1, <2>2, <2>3, <2>4, WorldKeeps
<1>7. ASSUME LaunchedExits PROVE Inv'
  <2>1. /\ launched # None /\ launched' = None /\ files' = files + 1 /\ Changed
        /\ UNCHANGED <<saved, docs, external, conf, secret, token>>
    BY <1>7 DEF LaunchedExits
  <2>2. files % 2 = 1
    BY <1>1, <2>1 DEF WorldInv
  <2>3. files' \in Stamps /\ files' # files /\ files <= files' /\ files' % 2 # 1
    BY <1>1, <2>1, <2>2 DEF Stamps
  <2>4. TypeOK'
    BY <1>1, <1>4, <1>5, <2>1, <2>3 DEF TypeOK
  <2>5. WorldInv'
    BY <1>1, <2>1, <2>3 DEF WorldInv
  <2> QED
    BY <1>1, <1>2, <1>3, <2>1, <2>3, <2>4, <2>5, WorldKeeps
<1>8. ASSUME ExternalStarts \/ ExternalStops PROVE Inv'
  <2>1. /\ external' \in {conf.port, None} /\ Changed
        /\ UNCHANGED <<launched, saved, docs, conf, files, secret, token>>
    BY <1>8 DEF ExternalStarts, ExternalStops
  <2>2. conf.port \in Ports
    BY <1>1, Facts
  <2>3. TypeOK'
    BY <1>1, <1>4, <1>5, <2>1, <2>2 DEF TypeOK
  <2>4. WorldInv'
    BY <1>1, <2>1 DEF WorldInv
  <2> QED
    BY <1>1, <1>2, <1>3, <2>1, <2>3, <2>4, WorldKeeps
<1>9. ASSUME NEW p \in Ports, Rewrite(p) PROVE Inv'
  <2>1. /\ conf.stamp < MaxRewrites /\ conf' = [stamp |-> conf.stamp + 1, port |-> p] /\ Changed
        /\ UNCHANGED <<launched, saved, docs, external, files, secret, token>>
    BY <1>9 DEF Rewrite
  <2>2. conf'.stamp = conf.stamp + 1
    BY <2>1
  <2>3. conf' \in Confs /\ conf'.stamp # conf.stamp /\ conf.stamp <= conf'.stamp
    BY <1>1, <2>1, <2>2 DEF Confs
  <2>4. TypeOK'
    BY <1>1, <1>4, <1>5, <2>1, <2>3 DEF TypeOK
  <2>5. WorldInv'
    BY <1>1, <2>1 DEF WorldInv
  <2> QED
    BY <1>1, <1>2, <1>3, <2>1, <2>3, <2>4, <2>5, WorldKeeps
<1>10. ASSUME Rotate PROVE Inv'
  <2>1. /\ secret < MaxTokens /\ secret' = secret + 1 /\ Changed
        /\ UNCHANGED <<launched, saved, docs, external, conf, files, token>>
    BY <1>10 DEF Rotate
  <2>2. secret' \in Tokens /\ token <= secret'
    BY <1>1, <2>1 DEF Tokens, WorldInv
  <2>3. TypeOK'
    BY <1>1, <1>4, <1>5, <2>1, <2>2 DEF TypeOK
  <2>4. WorldInv'
    BY <1>1, <2>1, <2>2 DEF WorldInv
  <2> QED
    BY <1>1, <1>2, <1>3, <2>1, <2>3, <2>4, WorldKeeps
<1>11. ASSUME SyncToken PROVE Inv'
  <2>1. /\ token # secret /\ token' = secret
        /\ UNCHANGED <<launched, saved, docs, external, conf, files, secret, steady>>
    BY <1>11 DEF SyncToken
  <2>2. token' \in Tokens /\ token <= token'
    BY <1>1, <2>1 DEF TypeOK, WorldInv
  <2>3. TypeOK'
    BY <1>1, <1>4, <2>1, <2>2 DEF TypeOK
  <2>4. WorldInv'
    BY <1>1, <2>1 DEF WorldInv
  <2>5. ASSUME NEW t \in Threads PROVE Steady(t)'
    <3>1. Steady(t) /\ ~OnItsWay(t)
      BY <2>1 DEF Inv, OnItsWay, Settled
    <3>2. steady[t] \in BOOLEAN /\ misfiled \in BOOLEAN
      BY <1>1 DEF TypeOK
    <3> QED
      BY <1>4, <2>1, <3>1, <3>2 DEF Steady
  <2> QED
    BY <1>1, <1>3, <2>1, <2>2, <2>3, <2>4, <2>5, WorldKeeps
<1>12. ASSUME NEW j \in Projects, NEW p \in Ports \cup {None}, SaveDocument(j, p) PROVE Inv'
  <2>1. /\ docs < MaxSaves /\ docs' = docs + 1 /\ saved' = [saved EXCEPT ![j] = p]
        /\ UNCHANGED <<launched, external, conf, files, secret, token>>
    BY <1>12 DEF SaveDocument
  <2>2. docs' \in 0..MaxSaves /\ docs' # docs /\ docs <= docs'
    BY <1>1, <2>1 DEF TypeOK
  <2>3. Changed \/ (steady' = steady /\ (launched # None => launched.project # j \/ p = saved[j]))
    BY <1>12 DEF SaveDocument
  <2>4. steady' \in [Threads -> BOOLEAN]
    BY <1>1, <1>5, <2>3 DEF TypeOK
  <2>5. saved' \in [Projects -> Ports \cup {None}]
    BY <1>1, <2>1 DEF TypeOK
  <2>6. TypeOK'
    BY <1>1, <1>4, <2>1, <2>2, <2>4, <2>5 DEF TypeOK
  <2>7. WorldInv'
    BY <1>1, <2>1 DEF WorldInv
  <2>8. ASSUME NEW t \in Threads PROVE Steady(t)'
    <3>1. CASE Changed
      BY <1>2, <3>1
    <3>2. CASE steady' = steady /\ (launched # None => launched.project # j \/ p = saved[j])
      <4>1. launched # None => launched.project \in Projects
        BY <1>1, Facts
      <4>2. Target' = Target
        BY <1>1, <2>1, <3>2, <4>1 DEF Target, TypeOK
      <4>3. Settled' = Settled
        BY <2>1, <4>2 DEF Settled, Running, Address
      <4>4. Steady(t)
        BY DEF Inv
      <4> QED
        BY <1>4, <2>1, <3>2, <4>2, <4>3, <4>4 DEF Steady, OnItsWay
    <3> QED
      BY <2>3, <3>1, <3>2
  <2> QED
    BY <1>1, <1>3, <2>1, <2>2, <2>6, <2>7, <2>8, WorldKeeps
<1> QED
  BY <1>3, <1>6, <1>7, <1>8, <1>9, <1>10, <1>11, <1>12 DEF World

\* A step of a thread keeps the invariant, and answers no steady request but by serving it.
LEMMA ProxyStep == ASSUME Inv, NEW t \in Threads, Proxy(t) PROVE Inv' /\ ServedIf(t)
BY RequestStep, LookUpStep, ReadStatusStep, ReadDocumentStep, FindPortsStep, KeepPortsStep, ProbeStep,
   ReadConfigStep, ReadTokenStep, RekeyStep, FileStep, SendStep DEF Proxy

\* A thread that answers a steady request in a step of the whole was its own.
LEMMA OnlyItsOwn ==
    ASSUME Inv, NEW t \in Threads, NEW u \in Threads \ {t}, Proxy(t)
    PROVE  pc'[u] = pc[u]
BY DEF Proxy, Request, LookUp, ReadStatus, ReadDocument, FindPorts, KeepPorts, Probe, ReadConfig,
       ReadToken, Rekey, File, Send, SendTo, Answer, Goto, Inv, TypeOK

\* The invariant is inductive.
LEMMA InvStep == Inv /\ [Next]_vars => Inv'
<1> SUFFICES ASSUME Inv, [Next]_vars PROVE Inv'
  OBVIOUS
<1>1. CASE UNCHANGED vars
  <2>1. /\ UNCHANGED <<launched, saved, docs, external, conf, files, secret, token, candidates,
                       watched, resolved, last, pc, at, steady, misfiled>>
    BY <1>1 DEF vars, world, memory, threads
  <2>2. TypeOK' /\ WorldInv' /\ CacheInv'
    BY <2>1 DEF Inv, TypeOK, WorldInv, CacheInv, Past, Current, Key, Target
  <2>3. ASSUME NEW t \in Threads PROVE Reading(t)' /\ Steady(t)'
    <3>1. Reading(t) /\ Steady(t)
      BY DEF Inv
    <3>2. Reading(t)'
      BY <2>1, <3>1 DEF Reading, Past, Current, Key, Target
    <3>3. Steady(t)'
      BY <2>1, <3>1 DEF Steady, OnItsWay, Settled, Running, Target, Address
    <3> QED
      BY <3>2, <3>3
  <2> QED
    BY <2>2, <2>3 DEF Inv
<1>2. CASE Next
  BY <1>2, WorldStep, ProxyStep DEF Next
<1> QED
  BY <1>1, <1>2

\* It holds before the first request.
LEMMA InvInit == Init => Inv
<1> SUFFICES ASSUME Init PROVE Inv
  OBVIOUS
<1>1. /\ conf \in Confs /\ conf.port \in Ports /\ conf.stamp = 0
  BY ProxyAssumption DEF Init, Confs
<1>2. 0 \in Stamps /\ 0 \in Tokens /\ 0 \in 0..MaxSaves /\ 0 % 2 # 1 /\ 0 <= 0
  BY ProxyAssumption DEF Stamps, Tokens
<1>3. TypeOK
  <2>1. /\ external \in Ports \cup {None} /\ launched \in Launches \cup {None}
        /\ saved \in [Projects -> Ports \cup {None}]
    BY <1>1 DEF Init
  <2> QED
    BY <1>1, <1>2, <2>1, NothingFacts DEF Init, TypeOK
<1>4. WorldInv /\ CacheInv
  BY <1>2 DEF Init, WorldInv, CacheInv
<1>5. ASSUME NEW t \in Threads PROVE Reading(t) /\ Steady(t)
  BY NothingFacts DEF Init, Reading, Steady
<1> QED
  BY <1>3, <1>4, <1>5 DEF Inv

\* The invariant of the world, the memory and the threads holds in every reachable state.
THEOREM ProxyInvariant == Spec => []Inv
BY InvInit, InvStep, PTL DEF Spec

\* The world, what is remembered and what the threads hold keep their types.
THEOREM ProxyTypeOK == Spec => []TypeOK
<1>1. Inv => TypeOK
  BY DEF Inv
<1> QED
  BY <1>1, ProxyInvariant, PTL

\* What is kept under the current key is what resolving would find now, for any number
\* of threads that read, key and file it, and of changes in between.
THEOREM ProxyCacheTrue == Spec => []CacheTrue
<1>1. Inv => CacheTrue
  <2> SUFFICES ASSUME Inv, ~misfiled, resolved # None, resolved.key = Key(watched)
               PROVE  resolved.base = Target /\ resolved.token = token
    BY DEF CacheTrue
  <2>1. CacheInv /\ watched \in BOOLEAN
    BY DEF Inv, TypeOK
  <2>2. watched = TRUE
    BY <2>1 DEF CacheInv
  <2> QED
    BY <2>1, <2>2 DEF CacheInv, Current
<1> QED
  BY <1>1, ProxyInvariant, PTL

\* A request that finds one runtime at the port on disk for it, and a fresh token copy, is let
\* in by it, if that stays so until it is answered: a stop too, whatever was remembered of
\* earlier runtimes and whatever else is saved meanwhile.
THEOREM ProxySteadyServed == Spec => SteadyServed
<1> DEFINE A == \A t \in Threads : steady[t] /\ pc'[t] = "idle" /\ ~misfiled => Served(t)
<1>1. Inv /\ [Next]_vars => A
  <2> SUFFICES ASSUME Inv, [Next]_vars, NEW t \in Threads,
                      steady[t], pc'[t] = "idle", ~misfiled
               PROVE  Served(t)
    OBVIOUS
  <2>1. pc[t] # "idle"
    BY DEF Inv, Steady, OnItsWay
  <2>2. CASE UNCHANGED vars \/ World
    <3>1. UNCHANGED threads
      BY <2>2, WorldStep DEF vars
    <3> QED
      BY <2>1, <3>1 DEF threads
  <2>3. ASSUME NEW u \in Threads, Proxy(u) PROVE Served(t)
    <3>1. CASE u = t
      BY <2>3, <3>1, ProxyStep DEF ServedIf
    <3>2. CASE u # t
      BY <2>1, <2>3, <3>2, OnlyItsOwn
    <3> QED
      BY <3>1, <3>2
  <2> QED
    BY <2>2, <2>3 DEF Next
<1>2. [A]_vars <=> A \/ UNCHANGED vars
  OBVIOUS
<1> QED
  BY <1>1, ProxyInvariant, PTL DEF Spec, SteadyServed
=============================================================================
