--------------------------- MODULE LogStreamProofs ---------------------------
(***************************************************************************)
(* The proofs about LogStream, for any number of runtimes, lines and       *)
(* streams and any ring and queue: what a client is sent is in order and   *)
(* has no gap but where its queue was full.                                *)
(***************************************************************************)
EXTENDS LogStream, SequenceTheorems, TLAPS

Items == Lines \cup {End}

(***************************************************************************)
(* What is in order, and what has no gap: a sequence of items of which the *)
(* first n were replayed.                                                  *)
(***************************************************************************)
Ordered(seq, n) ==
    \A i, k \in 1..Len(seq) :
        i < k /\ seq[i].run = seq[k].run /\ seq[i].run \in Runs =>
            \/ seq[i].number < seq[k].number
            \/ seq[i] = seq[k] /\ i <= n /\ k > n

Gapless(seq, n) ==
    \A i \in (n + 1)..Len(seq) :
        seq[i].run \in Runs =>
            \/ \A k \in (n + 1)..(i - 1) : seq[k].run # seq[i].run
            \/ \E k \in (n + 1)..(i - 1) : seq[k] = Line(seq[i].run, seq[i].number - 1)

\* A sequence holds no line of r beyond m, and after the first n none that is due.
Reach(seq, n, r, m, due) ==
    \A i \in 1..Len(seq) : seq[i].run = r =>
        seq[i].number <= m /\ (i > n /\ due => seq[i].number < m)

\* If it holds a line of r after the first n, it holds the last one that was due.
LastGiven(seq, n, r, m, due) ==
    (\E i \in (n + 1)..Len(seq) : seq[i].run = r) =>
        \E i \in (n + 1)..Len(seq) : seq[i] = Line(r, IF due THEN m - 1 ELSE m)

LEMMA EndIsNoLine == End.run \notin Runs /\ End \notin Lines
<1>1. End.run = MaxRuns + 1
  BY DEF End, Line, None
<1>2. End.run \notin Runs
  BY <1>1, LogAssumption DEF Runs
<1> QED
  BY <1>2 DEF Lines

LEMMA LineFields == \A r, i : Line(r, i).run = r /\ Line(r, i).number = i
BY DEF Line

LEMMA LinesAreItems ==
    /\ End \in Items
    /\ \A x \in Lines : x \in Items /\ x.run \in Runs /\ x.number \in 1..MaxLines
                        /\ x = Line(x.run, x.number)
BY DEF Items, Lines, Line

LEMMA LineIsLine == ASSUME NEW r \in Runs, NEW i \in 1..MaxLines PROVE Line(r, i) \in Lines
BY DEF Lines, Line

\* The start of a sequence that is in order, or has no gap, is so too.
LEMMA OrderedStart ==
    ASSUME NEW seq \in Seq(Items), NEW rest \in Seq(Items), NEW n \in Nat, Ordered(seq \o rest, n)
    PROVE  Ordered(seq, n)
<1>1. /\ Len(seq) \in Nat /\ Len(rest) \in Nat /\ Len(seq \o rest) = Len(seq) + Len(rest)
      /\ \A i \in 1..Len(seq) : (seq \o rest)[i] = seq[i]
  BY ConcatProperties, LenProperties
<1>2. ASSUME NEW i \in 1..Len(seq), NEW k \in 1..Len(seq)
      PROVE  i \in 1..Len(seq \o rest) /\ k \in 1..Len(seq \o rest)
  BY <1>1
<1> QED
  BY <1>1, <1>2 DEF Ordered

LEMMA GaplessStart ==
    ASSUME NEW seq \in Seq(Items), NEW rest \in Seq(Items), NEW n \in Nat, Gapless(seq \o rest, n)
    PROVE  Gapless(seq, n)
<1>1. /\ Len(seq) \in Nat /\ Len(rest) \in Nat /\ Len(seq \o rest) = Len(seq) + Len(rest)
      /\ \A i \in 1..Len(seq) : (seq \o rest)[i] = seq[i]
  BY ConcatProperties, LenProperties
<1> SUFFICES ASSUME NEW i \in (n + 1)..Len(seq), seq[i].run \in Runs
             PROVE  \/ \A k \in (n + 1)..(i - 1) : seq[k].run # seq[i].run
                    \/ \E k \in (n + 1)..(i - 1) : seq[k] = Line(seq[i].run, seq[i].number - 1)
  BY DEF Gapless
<1>2. i \in (n + 1)..Len(seq \o rest) /\ (seq \o rest)[i] = seq[i]
  BY <1>1
<1>3. \A k \in (n + 1)..(i - 1) : (seq \o rest)[k] = seq[k]
  BY <1>1
<1> QED
  BY <1>2, <1>3 DEF Gapless

\* One item more at the end.
LEMMA OrderedAppend ==
    ASSUME NEW seq \in Seq(Items), NEW x \in Items, NEW n \in 0..Len(seq), Ordered(seq, n),
           \A i \in 1..Len(seq) : seq[i].run = x.run /\ x.run \in Runs =>
              seq[i].number < x.number \/ (seq[i] = x /\ i <= n)
    PROVE  Ordered(Append(seq, x), n)
<1>1. /\ Len(seq) \in Nat /\ Len(Append(seq, x)) = Len(seq) + 1
      /\ \A i \in 1..Len(seq) : Append(seq, x)[i] = seq[i]
      /\ Append(seq, x)[Len(seq) + 1] = x
  BY AppendProperties, LenProperties
<1> DEFINE a == Append(seq, x)
<1> SUFFICES ASSUME NEW i \in 1..Len(a), NEW k \in 1..Len(a), i < k, a[i].run = a[k].run, a[i].run \in Runs
             PROVE  \/ a[i].number < a[k].number
                    \/ a[i] = a[k] /\ i <= n /\ k > n
  BY DEF Ordered
<1>2. i \in 1..Len(seq) /\ a[i] = seq[i]
  BY <1>1
<1>3. CASE k \in 1..Len(seq)
  BY <1>1, <1>2, <1>3 DEF Ordered
<1>4. CASE k = Len(seq) + 1
  BY <1>1, <1>2, <1>4
<1> QED
  BY <1>1, <1>3, <1>4

LEMMA GaplessAppend ==
    ASSUME NEW seq \in Seq(Items), NEW x \in Items, NEW n \in 0..Len(seq), Gapless(seq, n),
           x.run \in Runs =>
              \/ \A i \in (n + 1)..Len(seq) : seq[i].run # x.run
              \/ \E i \in (n + 1)..Len(seq) : seq[i] = Line(x.run, x.number - 1)
    PROVE  Gapless(Append(seq, x), n)
<1>1. /\ Len(seq) \in Nat /\ Len(Append(seq, x)) = Len(seq) + 1
      /\ \A i \in 1..Len(seq) : Append(seq, x)[i] = seq[i]
      /\ Append(seq, x)[Len(seq) + 1] = x
  BY AppendProperties, LenProperties
<1> DEFINE a == Append(seq, x)
<1> SUFFICES ASSUME NEW i \in (n + 1)..Len(a), a[i].run \in Runs
             PROVE  \/ \A k \in (n + 1)..(i - 1) : a[k].run # a[i].run
                    \/ \E k \in (n + 1)..(i - 1) : a[k] = Line(a[i].run, a[i].number - 1)
  BY DEF Gapless
<1>2. \A k \in (n + 1)..(i - 1) : a[k] = seq[k]
  BY <1>1
<1>3. CASE i \in (n + 1)..Len(seq)
  <2>1. a[i] = seq[i]
    BY <1>1, <1>3
  <2> QED
    BY <1>2, <1>3, <2>1 DEF Gapless
<1>4. CASE i = Len(seq) + 1
  <2>1. a[i] = x /\ (n + 1)..(i - 1) = (n + 1)..Len(seq)
    BY <1>1, <1>4
  <2> QED
    BY <1>2, <2>1
<1> QED
  BY <1>1, <1>3, <1>4

LEMMA ReachAppend ==
    ASSUME NEW seq \in Seq(Items), NEW x \in Items, NEW n \in 0..Len(seq), NEW r, NEW m \in Nat,
           NEW due \in BOOLEAN, NEW still \in BOOLEAN, Reach(seq, n, r, m, due),
           still => due, x.run = r => x.number <= m /\ ~still
    PROVE  Reach(Append(seq, x), n, r, m, still)
<1>1. /\ Len(seq) \in Nat /\ Len(Append(seq, x)) = Len(seq) + 1
      /\ \A i \in 1..Len(seq) : Append(seq, x)[i] = seq[i]
      /\ Append(seq, x)[Len(seq) + 1] = x
  BY AppendProperties, LenProperties
<1> SUFFICES ASSUME NEW i \in 1..Len(Append(seq, x)), Append(seq, x)[i].run = r
             PROVE  /\ Append(seq, x)[i].number <= m
                    /\ i > n /\ still => Append(seq, x)[i].number < m
  BY DEF Reach
<1>2. CASE i \in 1..Len(seq)
  BY <1>1, <1>2 DEF Reach
<1>3. CASE i = Len(seq) + 1
  BY <1>1, <1>3
<1> QED
  BY <1>1, <1>2, <1>3

LEMMA LastAppend ==
    ASSUME NEW seq \in Seq(Items), NEW x \in Items, NEW n \in 0..Len(seq), NEW r, NEW m \in Nat,
           NEW due \in BOOLEAN, NEW still \in BOOLEAN,
           \/ LastGiven(seq, n, r, m, due) /\ due = still /\ x.run # r
           \/ ~still /\ x = Line(r, m)
    PROVE  LastGiven(Append(seq, x), n, r, m, still)
<1>1. /\ Len(seq) \in Nat /\ Len(Append(seq, x)) = Len(seq) + 1
      /\ \A i \in 1..Len(seq) : Append(seq, x)[i] = seq[i]
      /\ Append(seq, x)[Len(seq) + 1] = x
  BY AppendProperties, LenProperties
<1>2. CASE ~still /\ x = Line(r, m)
  <2>1. Len(seq) + 1 \in (n + 1)..Len(Append(seq, x))
    BY <1>1
  <2> QED
    BY <1>1, <1>2, <2>1 DEF LastGiven
<1>3. CASE LastGiven(seq, n, r, m, due) /\ due = still /\ x.run # r
  <2> SUFFICES ASSUME NEW i \in (n + 1)..Len(Append(seq, x)), Append(seq, x)[i].run = r
               PROVE  \E k \in (n + 1)..Len(Append(seq, x)) :
                          Append(seq, x)[k] = Line(r, IF still THEN m - 1 ELSE m)
    BY DEF LastGiven
  <2>1. i \in (n + 1)..Len(seq) /\ seq[i].run = r
    BY <1>1, <1>3
  <2>2. PICK k \in (n + 1)..Len(seq) : seq[k] = Line(r, IF still THEN m - 1 ELSE m)
    BY <1>3, <2>1 DEF LastGiven
  <2> QED
    BY <1>1, <2>2
<1> QED
  BY <1>2, <1>3

LEMMA ConcatAppend ==
    ASSUME NEW s \in Seq(Items), NEW q \in Seq(Items), NEW x \in Items
    PROVE  s \o Append(q, x) = Append(s \o q, x)
<1>1. s \o Append(q, x) = s \o (q \o <<x>>)
  BY AppendIsConcat
<1>2. Append(s \o q, x) = (s \o q) \o <<x>>
  BY ConcatProperties, AppendIsConcat
<1> QED
  BY <1>1, <1>2, ConcatAssociative

LEMMA ConcatMove ==
    ASSUME NEW s \in Seq(Items), NEW q \in Seq(Items), q # <<>>
    PROVE  Append(s, Head(q)) \o Tail(q) = s \o q
<1>1. Head(q) \in Items /\ Tail(q) \in Seq(Items) /\ q = <<Head(q)>> \o Tail(q)
  OBVIOUS
<1>2. Append(s, Head(q)) = s \o <<Head(q)>>
  BY <1>1, AppendIsConcat
<1> QED
  BY <1>1, <1>2, ConcatAssociative

(***************************************************************************)
(* The inductive invariant.                                                *)
(***************************************************************************)
\* A runtime that is yet to start has no reader, and a detached one's is not here.
RunOK ==
    /\ \A r \in Runs : r > run => reader[r] = "off"
    /\ alive /\ run = 0 => reader[0] = "detached"

\* A reader hands on the line it has read last, or its end.
ItemOK(r) == reader[r] \in {"copy", "put"} => item[r] = End \/ item[r] = Line(r, read[r])

RingOK ==
    /\ Ordered(ring, 0)
    /\ \A i \in 1..Len(ring) : ring[i].number <= read[ring[i].run]

StreamOK(s) ==
    /\ spc[s] \in {"free", "replayed"} =>
          queue[s] = <<>> /\ live[s] = Len(shown[s]) /\ \A r \in Runs : s \notin todo[r]
    /\ live[s] <= Len(shown[s])
    /\ s \in subs => spc[s] \in {"live", "leaving"}
    /\ spc[s] = "live" => s \in subs

\* What the client of s was sent and, as long as it is served, will be.
Seen(s) == IF spc[s] \in {"leaving", "closed"} THEN shown[s] ELSE shown[s] \o queue[s]

\* Whether s is yet to be given the line the reader of r has read last.
Due(s, r) ==
    item[r] # End /\ (reader[r] = "copy" \/ (reader[r] = "put" /\ s \in todo[r]))

\* s has seen no line of r that is not read, and none that it is due to be given.
ReachOK(s, r) == Reach(Seen(s), live[s], r, read[r], Due(s, r))

\* If s was given a line of r live, it was given the last one that it was due.
LastOK(s, r) ==
    spc[s] = "live" /\ s \notin full => LastGiven(Seen(s), live[s], r, read[r], Due(s, r))

SeenOK(s) ==
    /\ Ordered(Seen(s), live[s])
    /\ s \notin full => Gapless(Seen(s), live[s])
    /\ \A r \in Runs : ReachOK(s, r) /\ LastOK(s, r)

Inv ==
    /\ TypeOK
    /\ RunOK
    /\ \A r \in Runs : ItemOK(r)
    /\ RingOK
    /\ \A s \in Streams : StreamOK(s) /\ SeenOK(s)

LEMMA Types ==
    ASSUME TypeOK
    PROVE  /\ run \in Runs /\ alive \in BOOLEAN /\ ring \in Seq(Lines)
           /\ read \in [Runs -> 0..MaxLines]
           /\ reader \in [Runs -> {"off", "detached", "read", "copy", "put", "end", "failed"}]
           /\ item \in [Runs -> Items] /\ todo \in [Runs -> SUBSET Streams]
           /\ queue \in [Streams -> Seq(Items)] /\ shown \in [Streams -> Seq(Lines)]
           /\ \A s \in Streams : Len(queue[s]) <= QueueMax
           /\ live \in [Streams -> Nat] /\ subs \in SUBSET Streams /\ full \in SUBSET Streams
           /\ spc \in [Streams -> {"free", "replayed", "live", "leaving", "closed"}]
BY DEF TypeOK, Items

LEMMA ConcatFacts ==
    ASSUME NEW a \in Seq(Items), NEW b \in Seq(Items)
    PROVE  /\ Len(a) \in Nat /\ Len(b) \in Nat /\ a \o b \in Seq(Items)
           /\ Len(a \o b) = Len(a) + Len(b) /\ Len(a) <= Len(a \o b)
           /\ \A i \in 1..Len(a) : (a \o b)[i] = a[i]
BY ConcatProperties, LenProperties

LEMMA SeenType ==
    ASSUME TypeOK, NEW s \in Streams
    PROVE  /\ shown[s] \in Seq(Items) /\ queue[s] \in Seq(Items) /\ Seen(s) \in Seq(Items)
           /\ Len(shown[s]) \in Nat /\ Len(Seen(s)) \in Nat /\ live[s] \in Nat
           /\ Len(shown[s]) <= Len(Seen(s))
           /\ \A i \in 1..Len(shown[s]) : Seen(s)[i] = shown[s][i]
<1>1. shown[s] \in Seq(Lines) /\ queue[s] \in Seq(Items) /\ live[s] \in Nat
  BY Types
<1>2. shown[s] \in Seq(Items)
  BY <1>1, SeqMonotonic DEF Items
<1>3. /\ Len(shown[s]) \in Nat /\ shown[s] \o queue[s] \in Seq(Items)
      /\ Len(shown[s] \o queue[s]) \in Nat /\ Len(shown[s]) <= Len(shown[s] \o queue[s])
      /\ \A i \in 1..Len(shown[s]) : (shown[s] \o queue[s])[i] = shown[s][i]
  BY <1>1, <1>2, ConcatFacts
<1>4. CASE Seen(s) = shown[s]
  BY <1>1, <1>2, <1>3, <1>4
<1>5. CASE Seen(s) = shown[s] \o queue[s]
  BY <1>1, <1>2, <1>3, <1>5
<1> QED
  BY <1>4, <1>5 DEF Seen

LEMMA EmptyOrdered == \A n \in Nat : Ordered(<<>>, n) /\ Gapless(<<>>, n)
BY DEF Ordered, Gapless

LEMMA InitInv == Init => Inv
<1> SUFFICES ASSUME Init PROVE Inv
  OBVIOUS
<1> USE LogAssumption DEF Init
<1>1. TypeOK
  <2>1. 0 \in Runs /\ None \in Runs \cup {None}
    BY DEF Runs
  <2>2. ring \in Seq(Lines) /\ Len(ring) <= Ring
    OBVIOUS
  <2>3. read \in [Runs -> 0..MaxLines] /\ live \in [Streams -> Nat]
    OBVIOUS
  <2>4. /\ reader \in [Runs -> {"off", "detached", "read", "copy", "put", "end", "failed"}]
        /\ spc \in [Streams -> {"free", "replayed", "live", "leaving", "closed"}]
    OBVIOUS
  <2>5. /\ item \in [Runs -> Lines \cup {End}] /\ todo \in [Runs -> SUBSET Streams]
        /\ subs \in SUBSET Streams /\ full \in SUBSET Streams
        /\ during \in [Streams -> Runs \cup {None}]
    OBVIOUS
  <2>6. queue \in [Streams -> Seq(Lines \cup {End})] /\ shown \in [Streams -> Seq(Lines)]
    OBVIOUS
  <2>7. \A s \in Streams : Len(queue[s]) <= QueueMax
    OBVIOUS
  <2> QED
    BY <2>1, <2>2, <2>3, <2>4, <2>5, <2>6, <2>7 DEF TypeOK
<1>2. RunOK
  BY DEF RunOK, Runs
<1>3. ASSUME NEW r \in Runs PROVE ItemOK(r)
  BY DEF ItemOK
<1>4. RingOK
  BY EmptyOrdered DEF RingOK
<1>5. ASSUME NEW s \in Streams PROVE StreamOK(s) /\ SeenOK(s)
  <2>1. shown[s] = <<>> /\ queue[s] = <<>> /\ live[s] = 0 /\ spc[s] = "free" /\ s \notin subs
    OBVIOUS
  <2>2. Seen(s) = <<>>
    BY <2>1 DEF Seen
  <2>3. StreamOK(s)
    BY <2>1 DEF StreamOK
  <2>4. ASSUME NEW r \in Runs PROVE ReachOK(s, r) /\ LastOK(s, r)
    BY <2>1, <2>2 DEF ReachOK, LastOK, Reach, LastGiven
  <2> QED
    BY <2>1, <2>2, <2>3, <2>4, EmptyOrdered DEF SeenOK
<1> QED
  BY <1>1, <1>2, <1>3, <1>4, <1>5 DEF Inv

(***************************************************************************)
(* A stream whose client saw nothing new.                                  *)
(***************************************************************************)
\* The reader of r went nowhere, or read the next line, or s, which is left or had no
\* room, is no longer to be given one.
Tick(s, r) ==
    \/ read'[r] = read[r] /\ (Due(s, r)' <=> Due(s, r))
    \/ read'[r] = read[r] /\ ~Due(s, r)' /\ (spc'[s] # "live" \/ s \in full')
    \/ read'[r] = read[r] + 1 /\ ~Due(s, r) /\ Due(s, r)'

LEMMA SeenKept ==
    ASSUME Inv, NEW s \in Streams, Seen(s)' = Seen(s), live'[s] = live[s], s \in full => s \in full',
           spc'[s] = "live" => spc[s] = "live", \A r \in Runs : Tick(s, r)
    PROVE  SeenOK(s)'
<1>1. TypeOK /\ SeenOK(s)
  BY DEF Inv
<1>2. Ordered(Seen(s), live[s])' /\ (s \notin full' => Gapless(Seen(s), live[s])')
  <2>1. Ordered(Seen(s)', live'[s]) /\ (s \notin full' => Gapless(Seen(s)', live'[s]))
    BY <1>1 DEF SeenOK
  <2> QED
    BY <2>1 DEF Ordered, Gapless
<1>3. ASSUME NEW r \in Runs PROVE ReachOK(s, r)' /\ LastOK(s, r)'
  <2>1. ReachOK(s, r) /\ LastOK(s, r) /\ Tick(s, r) /\ read[r] \in Nat
    BY <1>1, <1>3, Types DEF SeenOK
  <2>2. \A i \in 1..Len(Seen(s)) : Seen(s)[i].run = r => Seen(s)[i].number \in Nat
    <3>1. ASSUME NEW i \in 1..Len(Seen(s)) PROVE Seen(s)[i] \in Items
      BY <1>1, SeenType, ElementOfSeq
    <3>2. \A x \in Items : x.number \in Nat
      BY LineFields, LogAssumption DEF Items, Lines, End
    <3> QED
      BY <3>1, <3>2
  <2>3. ReachOK(s, r)'
    BY <2>1, <2>2 DEF ReachOK, Reach, Tick
  <2>4. LastOK(s, r)'
    BY <2>1 DEF LastOK, LastGiven, Tick
  <2> QED
    BY <2>3, <2>4
<1> QED
  BY <1>2, <1>3 DEF SeenOK

\* A stream that is left: what its queue still held is not sent.
LEMMA SeenCut ==
    ASSUME Inv, NEW s \in Streams, spc'[s] \in {"leaving", "closed"}, UNCHANGED <<shown, live, readVars>>,
           full' = full
    PROVE  SeenOK(s)'
<1>1. TypeOK /\ SeenOK(s)
  BY DEF Inv
<1>2. Seen(s)' = shown[s]
  BY DEF Seen
<1>3. PICK rest \in Seq(Items) : Seen(s) = shown[s] \o rest
  <2>1. shown[s] = shown[s] \o <<>> /\ <<>> \in Seq(Items)
    BY <1>1, SeenType, ConcatEmptySeq
  <2> QED
    BY <1>1, <2>1, SeenType DEF Seen
<1>4. Ordered(shown[s], live[s]) /\ (s \notin full => Gapless(shown[s], live[s]))
  BY <1>1, <1>3, SeenType, OrderedStart, GaplessStart DEF SeenOK
<1>5. ASSUME NEW r \in Runs PROVE ReachOK(s, r)' /\ LastOK(s, r)'
  <2>1. ReachOK(s, r) /\ Due(s, r)' = Due(s, r) /\ read' = read
    BY <1>1 DEF SeenOK, Due, readVars
  <2>2. ReachOK(s, r)'
    BY <1>1, <1>2, <2>1, SeenType DEF ReachOK, Reach
  <2>3. LastOK(s, r)'
    BY DEF LastOK
  <2> QED
    BY <2>2, <2>3
<1> QED
  BY <1>2, <1>4, <1>5 DEF SeenOK

\* A step of a reader or of a runtime, which touches no stream and no queue.
LEMMA ReaderStep ==
    ASSUME Inv, UNCHANGED <<queue, streamVars, full>>,
           \A s \in Streams, r \in Runs : Tick(s, r),
           \A s \in Streams, r \in Runs : s \in todo'[r] => s \in todo[r] \/ s \in subs
    PROVE  \A s \in Streams : StreamOK(s)' /\ SeenOK(s)'
<1> SUFFICES ASSUME NEW s \in Streams PROVE StreamOK(s)' /\ SeenOK(s)'
  OBVIOUS
<1>1. StreamOK(s) /\ UNCHANGED <<queue, subs, spc, shown, live, full>>
  BY DEF Inv, streamVars
<1>2. StreamOK(s)'
  BY <1>1 DEF StreamOK
<1>3. Seen(s)' = Seen(s)
  BY <1>1 DEF Seen
<1>4. SeenOK(s)'
  BY <1>1, <1>3, SeenKept
<1> QED
  BY <1>2, <1>4

\* A step of the stream t, which touches no runtime and no reader.
LEMMA StreamStep ==
    ASSUME Inv, TypeOK', NEW t \in Streams, UNCHANGED <<runVars, ring, readVars, full>>,
           StreamOK(t)', SeenOK(t)',
           \A s \in Streams \ {t} : /\ UNCHANGED <<queue[s], spc[s], shown[s], live[s]>>
                                    /\ s \in subs' <=> s \in subs
    PROVE  Inv'
<1>1. RunOK' /\ RingOK' /\ \A r \in Runs : ItemOK(r)'
  BY DEF Inv, RunOK, RingOK, ItemOK, runVars, readVars
<1>2. ASSUME NEW s \in Streams, s # t PROVE StreamOK(s)' /\ SeenOK(s)'
  <2>1. StreamOK(s) /\ UNCHANGED <<queue[s], spc[s], shown[s], live[s], todo, read, reader, item, full>>
    BY <1>2 DEF Inv, readVars
  <2>2. StreamOK(s)'
    BY <1>2, <2>1 DEF StreamOK
  <2>3. Seen(s)' = Seen(s)
    BY <2>1 DEF Seen
  <2>4. \A r \in Runs : Tick(s, r)
    BY <2>1 DEF Tick, Due
  <2> QED
    BY <2>1, <2>2, <2>3, <2>4, SeenKept
<1> QED
  BY <1>1, <1>2 DEF Inv

(***************************************************************************)
(* The runtimes.                                                           *)
(***************************************************************************)
LEMMA SpawnInv == ASSUME Inv, Spawn PROVE Inv'
<1> USE DEF Spawn
<1>1. TypeOK /\ RunOK /\ run \in Nat /\ run + 1 \in Runs
  <2>1. TypeOK /\ RunOK /\ run \in Runs
    BY DEF Inv, TypeOK
  <2> QED
    BY <2>1, LogAssumption DEF Runs
<1>2. TypeOK'
  BY <1>1, LogAssumption DEF TypeOK, readVars, streamVars
<1>3. RunOK'
  BY <1>1, LogAssumption DEF RunOK, Runs, TypeOK
<1>4. ASSUME NEW r \in Runs PROVE ItemOK(r)'
  BY <1>1, <1>4 DEF Inv, ItemOK, TypeOK
<1>5. RingOK'
  BY EmptyOrdered DEF RingOK
<1>6. ASSUME NEW s \in Streams, NEW r \in Runs PROVE Tick(s, r)
  <2>1. CASE r = run + 1
    BY <1>1, <2>1 DEF Tick, Due, RunOK, TypeOK
  <2>2. CASE r # run + 1
    BY <1>1, <2>2 DEF Tick, Due, TypeOK
  <2> QED
    BY <2>1, <2>2
<1> QED
  BY <1>2, <1>3, <1>4, <1>5, <1>6, ReaderStep DEF Inv

LEMMA ExitInv == ASSUME Inv, Exit PROVE Inv'
<1> USE DEF Exit, readVars
<1>1. TypeOK'
  BY DEF Inv, TypeOK, streamVars
<1>2. RunOK' /\ RingOK' /\ \A r \in Runs : ItemOK(r)'
  BY DEF Inv, RunOK, RingOK, ItemOK
<1>3. \A s \in Streams, r \in Runs : Tick(s, r)
  BY DEF Tick, Due
<1> QED
  BY <1>1, <1>2, <1>3, ReaderStep DEF Inv

LEMMA StopDetachedInv == ASSUME Inv, StopDetached PROVE Inv'
<1> USE DEF StopDetached
<1>1. TypeOK /\ RunOK /\ 0 \in Runs /\ reader[0] = "detached"
  BY LogAssumption DEF Inv, RunOK, Runs
<1>2. TypeOK'
  BY <1>1 DEF TypeOK, streamVars
<1>3. RunOK'
  BY <1>1 DEF RunOK, TypeOK, Runs
<1>4. RingOK' /\ \A r \in Runs : ItemOK(r)'
  BY <1>1 DEF Inv, RingOK, ItemOK, TypeOK
<1>5. ASSUME NEW s \in Streams, NEW r \in Runs PROVE Tick(s, r)
  BY <1>1 DEF Tick, Due, TypeOK
<1> QED
  BY <1>2, <1>3, <1>4, <1>5, ReaderStep DEF Inv

(***************************************************************************)
(* The reader threads.                                                     *)
(***************************************************************************)
LEMMA ReadEndInv == ASSUME Inv, NEW r \in Runs, ReadEnd(r) PROVE Inv'
<1> USE DEF ReadEnd, runVars
<1>1. TypeOK /\ RunOK
  BY DEF Inv
<1>2. TypeOK'
  BY <1>1 DEF TypeOK, streamVars
<1>3. RunOK'
  BY <1>1 DEF RunOK, TypeOK
<1>4. RingOK' /\ \A q \in Runs : ItemOK(q)'
  BY <1>1 DEF Inv, RingOK, ItemOK, TypeOK
<1>5. \A s \in Streams, q \in Runs : Tick(s, q)
  BY <1>1 DEF Tick, Due, TypeOK
<1> QED
  BY <1>2, <1>3, <1>4, <1>5, ReaderStep DEF Inv

LEMMA ReadFailsInv == ASSUME Inv, NEW r \in Runs, ReadFails(r) PROVE Inv'
<1> USE DEF ReadFails, runVars
<1>1. TypeOK /\ RunOK
  BY DEF Inv
<1>2. TypeOK'
  BY <1>1 DEF TypeOK, streamVars
<1>3. RunOK'
  BY <1>1 DEF RunOK, TypeOK
<1>4. RingOK' /\ \A q \in Runs : ItemOK(q)'
  BY <1>1 DEF Inv, RingOK, ItemOK, TypeOK
<1>5. \A s \in Streams, q \in Runs : Tick(s, q)
  BY <1>1 DEF Tick, Due, TypeOK
<1> QED
  BY <1>2, <1>3, <1>4, <1>5, ReaderStep DEF Inv

LEMMA CopySubscribersInv == ASSUME Inv, NEW r \in Runs, CopySubscribers(r) PROVE Inv'
<1> USE DEF CopySubscribers, runVars
<1>1. TypeOK /\ RunOK /\ \A s \in Streams : StreamOK(s)
  BY DEF Inv
<1>2. TypeOK'
  BY <1>1 DEF TypeOK, streamVars
<1>3. RunOK'
  BY <1>1 DEF RunOK, TypeOK
<1>4. RingOK' /\ \A q \in Runs : ItemOK(q)'
  BY <1>1 DEF Inv, RingOK, ItemOK, TypeOK
<1>5. ASSUME NEW s \in Streams, NEW q \in Runs PROVE Tick(s, q)
  <2>1. CASE q # r
    BY <1>1, <2>1 DEF Tick, Due, TypeOK
  <2>2. CASE q = r /\ s \in subs
    BY <1>1, <2>2 DEF Tick, Due, TypeOK
  <2>3. CASE q = r /\ s \notin subs
    BY <1>1, <2>3 DEF Tick, Due, TypeOK, StreamOK, streamVars
  <2> QED
    BY <2>1, <2>2, <2>3
<1>6. \A s \in Streams, q \in Runs : s \in todo'[q] => s \in todo[q] \/ s \in subs
  BY <1>1 DEF TypeOK
<1> QED
  BY <1>2, <1>3, <1>4, <1>5, <1>6, ReaderStep DEF Inv

LEMMA PutEndsInv == ASSUME Inv, NEW r \in Runs, PutEnds(r) PROVE Inv'
<1> USE DEF PutEnds, runVars
<1>1. TypeOK /\ RunOK
  BY DEF Inv
<1>2. TypeOK'
  BY <1>1 DEF TypeOK, streamVars
<1>3. RunOK'
  BY <1>1 DEF RunOK, TypeOK
<1>4. RingOK' /\ \A q \in Runs : ItemOK(q)'
  BY <1>1 DEF Inv, RingOK, ItemOK, TypeOK
<1>5. \A s \in Streams, q \in Runs : Tick(s, q)
  BY <1>1 DEF Tick, Due, TypeOK
<1> QED
  BY <1>2, <1>3, <1>4, <1>5, ReaderStep DEF Inv

\* A ring in order stays so without its oldest line, and with the next one of r.
LEMMA OrderedTail ==
    ASSUME NEW seq \in Seq(Lines), Ordered(seq, 0), seq # <<>>
    PROVE  /\ Ordered(Tail(seq), 0) /\ Tail(seq) \in Seq(Lines) /\ Len(Tail(seq)) = Len(seq) - 1
           /\ \A i \in 1..Len(Tail(seq)) : i + 1 \in 1..Len(seq) /\ Tail(seq)[i] = seq[i + 1]
<1>1. /\ Tail(seq) \in Seq(Lines) /\ Len(Tail(seq)) = Len(seq) - 1 /\ Len(seq) \in Nat
      /\ \A i \in 1..Len(Tail(seq)) : i + 1 \in 1..Len(seq) /\ Tail(seq)[i] = seq[i + 1]
  OBVIOUS
<1> SUFFICES ASSUME NEW i \in 1..Len(Tail(seq)), NEW k \in 1..Len(Tail(seq)), i < k,
                    seq[i + 1].run = seq[k + 1].run, seq[i + 1].run \in Runs
             PROVE  seq[i + 1].number < seq[k + 1].number
  BY <1>1 DEF Ordered
<1> QED
  BY <1>1 DEF Ordered

LEMMA RingGrows ==
    ASSUME NEW seq \in Seq(Lines), Ordered(seq, 0), NEW f \in [Runs -> 0..MaxLines], NEW r \in Runs,
           f[r] < MaxLines, \A i \in 1..Len(seq) : seq[i].number <= f[seq[i].run]
    PROVE  LET new == Append(seq, Line(r, f[r] + 1))
               g   == [f EXCEPT ![r] = @ + 1]
           IN  /\ new \in Seq(Lines) /\ Ordered(new, 0)
               /\ \A i \in 1..Len(new) : new[i].number <= g[new[i].run]
<1> DEFINE line == Line(r, f[r] + 1)
           g    == [f EXCEPT ![r] = @ + 1]
<1>1. f[r] \in Nat /\ f[r] + 1 \in 1..MaxLines /\ line.run = r /\ line.number = f[r] + 1
  BY LogAssumption, LineFields
<1>2. line \in Lines /\ line \in Items
  BY <1>1, LineIsLine DEF Items
<1>3. /\ Append(seq, line) \in Seq(Lines) /\ Len(seq) \in Nat /\ Len(Append(seq, line)) = Len(seq) + 1
      /\ \A i \in 1..Len(seq) : Append(seq, line)[i] = seq[i] /\ seq[i] \in Lines
      /\ Append(seq, line)[Len(seq) + 1] = line
  BY <1>2, AppendProperties, ElementOfSeq, LenProperties
<1>4. \A i \in 1..Len(seq) : seq[i].run \in Runs /\ seq[i].number \in Nat /\ f[seq[i].run] \in Nat
  BY <1>3, LinesAreItems, LogAssumption
<1>5. Ordered(Append(seq, line), 0)
  <2>1. seq \in Seq(Items) /\ 0 \in 0..Len(seq)
    BY <1>3, SeqMonotonic DEF Items
  <2>2. \A i \in 1..Len(seq) : seq[i].run = line.run => seq[i].number < line.number
    BY <1>1, <1>4
  <2> HIDE DEF line
  <2> QED
    BY <1>2, <2>1, <2>2, OrderedAppend
<1>6. ASSUME NEW i \in 1..Len(Append(seq, line))
      PROVE  Append(seq, line)[i].number <= g[Append(seq, line)[i].run]
  <2>1. CASE i \in 1..Len(seq)
    BY <1>1, <1>3, <1>4, <2>1
  <2>2. CASE i = Len(seq) + 1
    <3>1. Append(seq, line)[i].run = r /\ Append(seq, line)[i].number = f[r] + 1
      BY <1>1, <1>3, <2>2
    <3>2. g[r] = f[r] + 1
      OBVIOUS
    <3> HIDE DEF line, g
    <3> QED
      BY <1>1, <3>1, <3>2
  <2> QED
    BY <1>3, <2>1, <2>2
<1> QED
  BY <1>3, <1>5, <1>6

LEMMA ReadLineInv == ASSUME Inv, NEW r \in Runs, ReadLine(r) PROVE Inv'
<1> DEFINE line == Line(r, read[r] + 1)
<1>1. /\ TypeOK /\ RunOK /\ RingOK /\ reader[r] = "read" /\ read[r] < MaxLines
      /\ ring' = IF Len(ring) < Ring THEN Append(ring, line) ELSE Append(Tail(ring), line)
      /\ item' = [item EXCEPT ![r] = line]
      /\ read' = [read EXCEPT ![r] = @ + 1]
      /\ reader' = [reader EXCEPT ![r] = "copy"]
      /\ UNCHANGED <<run, alive, todo, queue, streamVars, full>>
  BY DEF Inv, ReadLine, runVars
<1>2. /\ ring \in Seq(Lines) /\ Len(ring) \in Nat /\ Len(ring) <= Ring /\ read \in [Runs -> 0..MaxLines]
      /\ \A i \in 1..Len(ring) : ring[i] \in Lines
  BY <1>1, ElementOfSeq, LenProperties DEF TypeOK
<1>3. line \in Lines /\ line # End
  <2>1. read[r] + 1 \in 1..MaxLines
    BY <1>1, <1>2, LogAssumption
  <2> QED
    BY <2>1, LineIsLine, EndIsNoLine
<1>4. RingOK' /\ ring' \in Seq(Lines) /\ Len(ring') <= Ring
  <2>1. CASE Len(ring) < Ring
    <3>1. ring' = Append(ring, line)
      BY <1>1, <2>1
    <3>2. ring' \in Seq(Lines) /\ Ordered(ring', 0) /\ \A i \in 1..Len(ring') : ring'[i].number <= read'[ring'[i].run]
      BY <1>1, <1>2, <3>1, RingGrows DEF RingOK
    <3>3. Len(ring') = Len(ring) + 1
      BY <1>2, <1>3, <3>1, AppendProperties
    <3> QED
      BY <1>2, <2>1, <3>2, <3>3, LogAssumption DEF RingOK, Ordered
  <2>2. CASE ~(Len(ring) < Ring)
    <3>1. ring' = Append(Tail(ring), line) /\ ring # <<>>
      BY <1>1, <1>2, <2>2, LogAssumption
    <3>2. /\ Ordered(Tail(ring), 0) /\ Tail(ring) \in Seq(Lines) /\ Len(Tail(ring)) = Len(ring) - 1
          /\ \A i \in 1..Len(Tail(ring)) : i + 1 \in 1..Len(ring) /\ Tail(ring)[i] = ring[i + 1]
      BY <1>1, <1>2, <3>1, OrderedTail DEF RingOK
    <3>3. ASSUME NEW i \in 1..Len(Tail(ring)) PROVE Tail(ring)[i].number <= read[Tail(ring)[i].run]
      <4>1. i + 1 \in 1..Len(ring) /\ Tail(ring)[i] = ring[i + 1]
        BY <3>2
      <4>2. ring[i + 1].number <= read[ring[i + 1].run]
        BY <1>1, <4>1 DEF RingOK
      <4> QED
        BY <4>1, <4>2
    <3>4. /\ Append(Tail(ring), line) \in Seq(Lines) /\ Ordered(Append(Tail(ring), line), 0)
          /\ \A i \in 1..Len(Append(Tail(ring), line)) :
                Append(Tail(ring), line)[i].number <= [read EXCEPT ![r] = @ + 1][Append(Tail(ring), line)[i].run]
      BY <1>1, <1>2, <3>2, <3>3, RingGrows
    <3>5. Len(ring') = Len(ring)
      BY <1>2, <1>3, <3>1, <3>2, AppendProperties
    <3>6. read' = [read EXCEPT ![r] = @ + 1]
      BY <1>1
    <3>7. Ordered(ring', 0) /\ \A i \in 1..Len(ring') : ring'[i].number <= read'[ring'[i].run]
      BY <3>1, <3>4, <3>6, Zenon
    <3>8. RingOK'
      BY <3>7 DEF RingOK, Ordered
    <3> QED
      BY <1>2, <3>1, <3>4, <3>5, <3>8
  <2> QED
    BY <2>1, <2>2
<1> HIDE DEF line
<1>5. TypeOK'
  <2>1. read' \in [Runs -> 0..MaxLines]
    BY <1>1, <1>2, LogAssumption
  <2>2. item' \in [Runs -> Lines \cup {End}]
    BY <1>1, <1>3 DEF TypeOK
  <2> QED
    BY <1>1, <1>4, <2>1, <2>2 DEF TypeOK, streamVars
<1>6. RunOK'
  BY <1>1 DEF RunOK, TypeOK
<1>7. ASSUME NEW q \in Runs PROVE ItemOK(q)'
  <2>1. CASE q = r
    BY <1>1, <1>2, <2>1 DEF ItemOK, TypeOK, line
  <2>2. CASE q # r
    BY <1>1, <1>2, <2>2 DEF Inv, ItemOK, TypeOK
  <2> QED
    BY <2>1, <2>2
<1>8. ASSUME NEW s \in Streams, NEW q \in Runs PROVE Tick(s, q)
  <2>1. CASE q = r
    BY <1>1, <1>2, <1>3, <2>1 DEF Tick, Due, TypeOK
  <2>2. CASE q # r
    BY <1>1, <2>2 DEF Tick, Due, TypeOK
  <2> QED
    BY <2>1, <2>2
<1> QED
  BY <1>1, <1>4, <1>5, <1>6, <1>7, <1>8, ReaderStep DEF Inv

\* A put on the queue of a stream that is served and has room.
LEMMA PutLive ==
    ASSUME Inv, NEW r \in Runs, NEW s \in Streams, Put(r, s), spc[s] = "live", Len(queue[s]) < QueueMax
    PROVE  SeenOK(s)'
<1>1. PICK x \in Items : x = item[r]
  BY Types DEF Inv
<1>2. /\ TypeOK /\ StreamOK(s) /\ SeenOK(s) /\ ItemOK(r) /\ reader[r] = "put" /\ s \in todo[r]
      /\ queue' = [queue EXCEPT ![s] = Append(@, x)] /\ todo' = [todo EXCEPT ![r] = @ \ {s}]
      /\ UNCHANGED <<run, alive, ring, read, reader, item, subs, spc, shown, during, live, full>>
  BY <1>1 DEF Inv, Put, runVars, streamVars
<1>3. /\ read[r] \in Nat /\ queue[s] \in Seq(Items) /\ shown[s] \in Seq(Items) /\ Seen(s) \in Seq(Items)
      /\ Len(Seen(s)) \in Nat /\ live[s] \in 0..Len(Seen(s)) /\ live[s] \in Nat
      /\ \A q \in Runs : read[q] \in Nat
  BY <1>2, Types, SeenType, LogAssumption DEF StreamOK
<1>4. \/ x = End /\ x.run \notin Runs
      \/ x = Line(r, read[r]) /\ x.run = r /\ x.number = read[r] /\ Due(s, r) /\ ~Due(s, r)'
  <2>1. CASE x = End
    BY <2>1, EndIsNoLine
  <2>2. CASE x # End
    <3>1. x = Line(r, read[r])
      BY <1>1, <1>2, <2>2 DEF ItemOK
    <3>2. Due(s, r) /\ ~Due(s, r)'
      BY <1>1, <1>2, <2>2 DEF Due, TypeOK
    <3> QED
      BY <3>1, <3>2, LineFields
  <2> QED
    BY <2>1, <2>2
<1>5. Seen(s)' = Append(Seen(s), x)
  <2>1. Seen(s)' = shown[s] \o Append(queue[s], x)
    BY <1>2 DEF Seen, TypeOK
  <2>2. Seen(s) = shown[s] \o queue[s]
    BY DEF Seen
  <2>3. shown[s] \o Append(queue[s], x) = Append(shown[s] \o queue[s], x)
    BY <1>3, ConcatAppend
  <2> QED
    BY <2>1, <2>2, <2>3, Zenon
<1>6. \A i \in 1..Len(Seen(s)) : Seen(s)[i].run = r =>
          Seen(s)[i] = Line(r, Seen(s)[i].number) /\ Seen(s)[i].number \in Nat
  <2>1. ASSUME NEW i \in 1..Len(Seen(s)), Seen(s)[i].run = r PROVE Seen(s)[i] \in Lines
    BY <1>3, <2>1, ElementOfSeq, EndIsNoLine DEF Items
  <2>2. \A y \in Lines : y = Line(y.run, y.number) /\ y.number \in Nat
    BY LinesAreItems, LogAssumption
  <2> QED
    BY <2>1, <2>2
<1>7. Ordered(Append(Seen(s), x), live[s])
  <2>1. ASSUME NEW i \in 1..Len(Seen(s)), Seen(s)[i].run = x.run, x.run \in Runs
        PROVE  Seen(s)[i].number < x.number \/ (Seen(s)[i] = x /\ i <= live[s])
    <3>1. x = Line(r, read[r]) /\ x.number = read[r] /\ Due(s, r) /\ Seen(s)[i].run = r
      BY <1>4, <2>1
    <3>2. Seen(s)[i].number <= read[r] /\ (i > live[s] => Seen(s)[i].number < read[r])
      BY <1>2, <3>1 DEF SeenOK, ReachOK, Reach
    <3> QED
      BY <1>3, <1>6, <3>1, <3>2
  <2>2. Ordered(Seen(s), live[s])
    BY <1>2 DEF SeenOK
  <2> QED
    BY <1>3, <2>1, <2>2, OrderedAppend
<1>8. ASSUME s \notin full PROVE Gapless(Append(Seen(s), x), live[s])
  <2>1. LastOK(s, r) /\ Gapless(Seen(s), live[s])
    BY <1>2, <1>8 DEF SeenOK
  <2>2. ASSUME x.run \in Runs
        PROVE  \/ \A i \in (live[s] + 1)..Len(Seen(s)) : Seen(s)[i].run # x.run
               \/ \E i \in (live[s] + 1)..Len(Seen(s)) : Seen(s)[i] = Line(x.run, x.number - 1)
    BY <1>4, <1>8, <2>1, <2>2 DEF LastOK, LastGiven
  <2> QED
    BY <1>3, <2>1, <2>2, GaplessAppend
<1>9. ASSUME NEW q \in Runs
      PROVE  \/ q # r /\ Due(s, q)' = Due(s, q) /\ x.run # q
             \/ q = r /\ x = End /\ Due(s, q)' = Due(s, q) /\ x.run # q
             \/ q = r /\ x = Line(r, read[r]) /\ x.number = read[r] /\ ~Due(s, q)'
  <2>1. CASE q # r
    <3>1. Due(s, q)' = Due(s, q)
      BY <1>2, <2>1 DEF Due, TypeOK
    <3> QED
      BY <1>4, <2>1, <3>1
  <2>2. CASE q = r /\ x = End
    <3>1. Due(s, q)' = Due(s, q)
      BY <1>1, <1>2, <2>2 DEF Due, TypeOK
    <3> QED
      BY <2>2, <3>1, EndIsNoLine
  <2>3. CASE q = r /\ x # End
    BY <1>4, <2>3
  <2> QED
    BY <2>1, <2>2, <2>3
<1>10. ASSUME NEW q \in Runs PROVE ReachOK(s, q)'
  <2>1. Reach(Seen(s), live[s], q, read[q], Due(s, q))
    BY <1>2 DEF SeenOK, ReachOK
  <2>2. Due(s, q) \in BOOLEAN /\ Due(s, q)' \in BOOLEAN
    BY DEF Due
  <2>3. (Due(s, q)' => Due(s, q)) /\ (x.run = q => x.number <= read[q] /\ ~Due(s, q)')
    BY <1>3, <1>9
  <2>4. Reach(Append(Seen(s), x), live[s], q, read[q], Due(s, q)')
    BY <1>3, <2>1, <2>2, <2>3, ReachAppend
  <2> QED
    BY <1>2, <1>5, <2>4 DEF ReachOK
<1>11. ASSUME NEW q \in Runs, s \notin full PROVE LastOK(s, q)'
  <2>1. LastGiven(Seen(s), live[s], q, read[q], Due(s, q))
    BY <1>2, <1>11 DEF SeenOK, LastOK
  <2>2. Due(s, q) \in BOOLEAN /\ Due(s, q)' \in BOOLEAN
    BY DEF Due
  <2>3. \/ Due(s, q) = Due(s, q)' /\ x.run # q
        \/ ~Due(s, q)' /\ x = Line(q, read[q])
    BY <1>9
  <2>4. LastGiven(Append(Seen(s), x), live[s], q, read[q], Due(s, q)')
    BY <1>3, <2>1, <2>2, <2>3, LastAppend
  <2> QED
    BY <1>2, <1>5, <2>4 DEF LastOK
<1>12. s \in full => \A q \in Runs : LastOK(s, q)'
  BY <1>2 DEF LastOK
<1>13. Ordered(Seen(s), live[s])' /\ (s \notin full => Gapless(Seen(s), live[s]))'
  <2>1. live' = live /\ full' = full
    BY <1>2
  <2> QED
    BY <1>5, <1>7, <1>8, <2>1 DEF Ordered, Gapless
<1> QED
  BY <1>10, <1>11, <1>12, <1>13 DEF SeenOK

LEMMA PutInv == ASSUME Inv, NEW r \in Runs, NEW t \in Streams, Put(r, t) PROVE Inv'
<1>1. /\ TypeOK /\ RunOK /\ RingOK /\ reader[r] = "put" /\ t \in todo[r]
      /\ todo' = [todo EXCEPT ![r] = @ \ {t}]
      /\ UNCHANGED <<run, alive, ring, read, reader, item, subs, spc, shown, during, live>>
  BY DEF Inv, Put, runVars, streamVars
<1>2. \/ Len(queue[t]) < QueueMax /\ queue' = [queue EXCEPT ![t] = Append(@, item[r])] /\ full' = full
      \/ queue' = queue /\ full' = full \cup {t}
  BY DEF Put
<1>3. TypeOK'
  <2>1. /\ todo' \in [Runs -> SUBSET Streams] /\ full' \in SUBSET Streams
        /\ item[r] \in Lines \cup {End}
    BY <1>1, <1>2 DEF TypeOK
  <2>2. queue' \in [Streams -> Seq(Lines \cup {End})] /\ \A s \in Streams : Len(queue'[s]) <= QueueMax
    <3>1. CASE queue' = queue
      BY <1>1, <3>1 DEF TypeOK
    <3>2. CASE Len(queue[t]) < QueueMax /\ queue' = [queue EXCEPT ![t] = Append(@, item[r])]
      <4>1. queue[t] \in Seq(Lines \cup {End}) /\ Len(queue[t]) \in Nat
        BY <1>1, LenProperties DEF TypeOK
      <4>2. /\ Append(queue[t], item[r]) \in Seq(Lines \cup {End})
            /\ Len(Append(queue[t], item[r])) = Len(queue[t]) + 1
        BY <2>1, <4>1, AppendProperties
      <4>3. Len(Append(queue[t], item[r])) <= QueueMax
        BY <3>2, <4>1, <4>2, LogAssumption
      <4> QED
        BY <1>1, <3>2, <4>2, <4>3 DEF TypeOK
    <3> QED
      BY <1>2, <3>1, <3>2
  <2> QED
    BY <1>1, <2>1, <2>2 DEF TypeOK
<1>4. RunOK' /\ RingOK' /\ \A q \in Runs : ItemOK(q)'
  BY <1>1 DEF Inv, RunOK, RingOK, ItemOK
<1>5. ASSUME NEW s \in Streams PROVE StreamOK(s)'
  <2>1. StreamOK(s) /\ \A q \in Runs : todo'[q] \subseteq todo[q]
    BY <1>1 DEF Inv, TypeOK
  <2>2. CASE s = t
    BY <1>1, <2>1, <2>2 DEF StreamOK
  <2>3. CASE s # t
    <3>1. queue'[s] = queue[s]
      BY <1>1, <1>2, <2>3 DEF TypeOK
    <3> QED
      BY <1>1, <2>1, <3>1 DEF StreamOK
  <2> QED
    BY <2>2, <2>3
<1>6. ASSUME NEW s \in Streams PROVE SeenOK(s)'
  <2>1. CASE s # t
    <3>1. queue'[s] = queue[s] /\ (s \in full => s \in full')
      BY <1>1, <1>2, <2>1 DEF TypeOK
    <3>2. Seen(s)' = Seen(s)
      BY <1>1, <3>1 DEF Seen
    <3>3. \A q \in Runs : Tick(s, q)
      BY <1>1, <2>1 DEF Tick, Due, TypeOK
    <3> QED
      BY <1>1, <3>1, <3>2, <3>3, SeenKept
  <2>2. CASE s = t /\ queue' = queue /\ full' = full \cup {t}
    <3>1. Seen(s)' = Seen(s)
      BY <1>1, <2>2 DEF Seen
    <3>2. \A q \in Runs : Tick(s, q)
      BY <1>1, <2>2 DEF Tick, Due, TypeOK
    <3> QED
      BY <1>1, <2>2, <3>1, <3>2, SeenKept
  <2>3. CASE s = t /\ spc[s] # "live" /\ full' = full
    <3>1. spc[s] \in {"leaving", "closed"}
      BY <1>1, <2>3 DEF Inv, StreamOK, TypeOK
    <3>2. Seen(s)' = Seen(s)
      BY <1>1, <3>1 DEF Seen
    <3>3. \A q \in Runs : Tick(s, q)
      BY <1>1, <2>3 DEF Tick, Due, TypeOK
    <3> QED
      BY <1>1, <2>3, <3>2, <3>3, SeenKept
  <2>4. CASE s = t /\ spc[s] = "live" /\ Len(queue[s]) < QueueMax
    BY <2>4, PutLive
  <2> QED
    BY <1>2, <2>1, <2>2, <2>3, <2>4
<1> QED
  BY <1>3, <1>4, <1>5, <1>6 DEF Inv

(***************************************************************************)
(* The streams.                                                            *)
(***************************************************************************)
LEMMA OpenInv == ASSUME Inv, NEW t \in Streams, Open(t) PROVE Inv'
<1>1. /\ TypeOK /\ RingOK /\ StreamOK(t) /\ spc[t] = "free"
      /\ spc' = [spc EXCEPT ![t] = "replayed"] /\ shown' = [shown EXCEPT ![t] = ring]
      /\ live' = [live EXCEPT ![t] = Len(ring)]
      /\ during' = [during EXCEPT ![t] = IF alive THEN run ELSE None]
      /\ UNCHANGED <<runVars, ring, readVars, subs, queue, full>>
  BY DEF Inv, Open
<1>2. ring \in Seq(Lines) /\ ring \in Seq(Items) /\ Len(ring) \in Nat
  BY <1>1, SeqMonotonic, LenProperties DEF TypeOK, Items
<1>3. TypeOK'
  BY <1>1, <1>2 DEF TypeOK, runVars, readVars
<1>4. /\ spc'[t] = "replayed" /\ shown'[t] = ring /\ live'[t] = Len(ring) /\ queue'[t] = <<>> /\ queue[t] = <<>>
      /\ t \notin subs
  BY <1>1 DEF TypeOK, StreamOK
<1>5. StreamOK(t)'
  BY <1>1, <1>2, <1>4 DEF StreamOK, readVars
<1>6. Seen(t)' = ring
  <2>1. Seen(t)' = ring \o <<>>
    BY <1>4 DEF Seen
  <2> QED
    BY <1>2, <2>1, ConcatEmptySeq
<1>7. SeenOK(t)'
  <2>1. Ordered(ring, Len(ring)) /\ Gapless(ring, Len(ring))
    BY <1>1, <1>2 DEF RingOK, Ordered, Gapless
  <2>2. Ordered(Seen(t), live[t])' /\ Gapless(Seen(t), live[t])'
    BY <1>4, <1>6, <2>1 DEF Ordered, Gapless
  <2>3. ASSUME NEW r \in Runs PROVE ReachOK(t, r)' /\ LastOK(t, r)'
    <3>1. \A i \in 1..Len(ring) : ring[i].number <= read[ring[i].run] /\ ~(i > Len(ring))
      BY <1>1, <1>2 DEF RingOK
    <3>2. ReachOK(t, r)'
      BY <1>1, <1>4, <1>6, <3>1 DEF ReachOK, Reach, readVars
    <3>3. LastOK(t, r)'
      BY <1>4 DEF LastOK
    <3> QED
      BY <3>2, <3>3
  <2> QED
    BY <2>2, <2>3 DEF SeenOK
<1>8. \A s \in Streams \ {t} : /\ UNCHANGED <<queue[s], spc[s], shown[s], live[s]>>
                               /\ s \in subs' <=> s \in subs
  BY <1>1 DEF TypeOK
<1> QED
  BY <1>1, <1>3, <1>5, <1>7, <1>8, StreamStep

LEMMA SubscribeInv == ASSUME Inv, NEW t \in Streams, Subscribe(t) PROVE Inv'
<1>1. /\ TypeOK /\ StreamOK(t) /\ SeenOK(t) /\ spc[t] = "replayed"
      /\ subs' = subs \cup {t} /\ spc' = [spc EXCEPT ![t] = "live"]
      /\ UNCHANGED <<runVars, ring, readVars, queue, shown, during, live, full>>
  BY DEF Inv, Subscribe
<1>2. TypeOK'
  BY <1>1 DEF TypeOK, runVars, readVars
<1>3. /\ spc'[t] = "live" /\ queue[t] = <<>> /\ live[t] = Len(shown[t]) /\ live[t] \in Nat
      /\ shown[t] \in Seq(Items)
  BY <1>1, SeenType DEF TypeOK, StreamOK
<1>4. StreamOK(t)'
  BY <1>1, <1>3 DEF StreamOK, readVars
<1>5. Seen(t) = shown[t] \o queue[t] /\ Seen(t)' = Seen(t)
  BY <1>1, <1>3 DEF Seen
<1>6. Len(Seen(t)) = live[t]
  <2>1. Seen(t) = shown[t]
    BY <1>3, <1>5, ConcatEmptySeq
  <2> QED
    BY <1>3, <2>1
<1>7. SeenOK(t)'
  <2>1. Ordered(Seen(t), live[t])' /\ (t \notin full => Gapless(Seen(t), live[t]))'
    BY <1>1, <1>5 DEF SeenOK, Ordered, Gapless
  <2>2. ASSUME NEW r \in Runs PROVE ReachOK(t, r)' /\ LastOK(t, r)'
    <3>1. ReachOK(t, r) /\ Due(t, r)' = Due(t, r)
      BY <1>1 DEF SeenOK, Due, readVars
    <3>2. ReachOK(t, r)'
      BY <1>1, <1>5, <3>1 DEF ReachOK, Reach, readVars
    <3>3. LastOK(t, r)'
      BY <1>1, <1>3, <1>5, <1>6 DEF LastOK, LastGiven
    <3> QED
      BY <3>2, <3>3
  <2> QED
    BY <2>1, <2>2 DEF SeenOK
<1>8. \A s \in Streams \ {t} : /\ UNCHANGED <<queue[s], spc[s], shown[s], live[s]>>
                               /\ s \in subs' <=> s \in subs
  BY <1>1 DEF TypeOK
<1> QED
  BY <1>1, <1>2, <1>4, <1>7, <1>8, StreamStep

LEMMA DeliverInv == ASSUME Inv, NEW t \in Streams, Deliver(t) PROVE Inv'
<1>1. /\ TypeOK /\ StreamOK(t) /\ SeenOK(t) /\ spc[t] = "live" /\ queue[t] # <<>> /\ t \in subs
      /\ queue' = [queue EXCEPT ![t] = Tail(@)]
      /\ UNCHANGED <<run, alive, ring, read, reader, item, todo, subs, during, live, full>>
  BY DEF Inv, Deliver, StreamOK, runVars, readVars
<1>2. \/ Head(queue[t]) = End /\ spc' = [spc EXCEPT ![t] = "leaving"] /\ shown' = shown
      \/ /\ Head(queue[t]) # End /\ spc' = spc
         /\ shown' = [shown EXCEPT ![t] = Append(@, Head(queue[t]))]
  BY DEF Deliver
<1>3. /\ queue[t] \in Seq(Items) /\ Len(queue[t]) \in Nat /\ shown[t] \in Seq(Lines)
      /\ shown[t] \in Seq(Items) /\ Len(shown[t]) \in Nat /\ live[t] \in Nat
      /\ live[t] <= Len(shown[t]) /\ Len(queue[t]) <= QueueMax
  BY <1>1, Types, SeenType, LenProperties DEF StreamOK
<1>4. Head(queue[t]) \in Items /\ Tail(queue[t]) \in Seq(Items) /\ Len(Tail(queue[t])) = Len(queue[t]) - 1
  BY <1>1, <1>3
<1>5. TypeOK'
  <2>1. spc' \in [Streams -> {"free", "replayed", "live", "leaving", "closed"}]
    BY <1>1, <1>2 DEF TypeOK
  <2>2. shown' \in [Streams -> Seq(Lines)]
    <3>1. CASE shown' = shown
      BY <1>1, <3>1 DEF TypeOK
    <3>2. CASE Head(queue[t]) # End /\ shown' = [shown EXCEPT ![t] = Append(@, Head(queue[t]))]
      <4>1. Head(queue[t]) \in Lines
        BY <1>4, <3>2 DEF Items
      <4>2. Append(shown[t], Head(queue[t])) \in Seq(Lines)
        BY <1>3, <4>1, AppendProperties
      <4> QED
        BY <1>1, <3>2, <4>2 DEF TypeOK
    <3> QED
      BY <1>2, <3>1, <3>2
  <2>3. queue' \in [Streams -> Seq(Lines \cup {End})]
    BY <1>1, <1>4 DEF TypeOK, Items
  <2>4. \A s \in Streams : Len(queue'[s]) <= QueueMax
    <3>1. Len(Tail(queue[t])) <= QueueMax
      BY <1>3, <1>4, LogAssumption
    <3> QED
      BY <1>1, <3>1 DEF TypeOK
  <2> QED
    BY <1>1, <2>1, <2>2, <2>3, <2>4 DEF TypeOK
<1>6. StreamOK(t)' /\ SeenOK(t)'
  <2>1. CASE Head(queue[t]) = End
    <3>1. spc'[t] = "leaving" /\ shown' = shown
      BY <1>1, <1>2, <2>1 DEF TypeOK
    <3>2. StreamOK(t)'
      BY <1>1, <1>3, <3>1 DEF StreamOK
    <3>3. SeenOK(t)'
      BY <1>1, <3>1, SeenCut DEF readVars
    <3> QED
      BY <3>2, <3>3
  <2>2. CASE Head(queue[t]) # End
    <3>1. /\ spc' = spc /\ shown'[t] = Append(shown[t], Head(queue[t])) /\ queue'[t] = Tail(queue[t])
          /\ spc'[t] = "live"
      BY <1>1, <1>2, <2>2 DEF TypeOK
    <3>2. Len(shown'[t]) = Len(shown[t]) + 1
      BY <1>3, <1>4, <3>1, AppendProperties
    <3>3. StreamOK(t)'
      BY <1>1, <1>3, <3>1, <3>2 DEF StreamOK
    <3>4. Seen(t)' = Seen(t)
      <4>1. Seen(t)' = Append(shown[t], Head(queue[t])) \o Tail(queue[t])
        BY <1>1, <3>1 DEF Seen
      <4>2. Seen(t) = shown[t] \o queue[t]
        BY <1>1 DEF Seen
      <4>3. Append(shown[t], Head(queue[t])) \o Tail(queue[t]) = shown[t] \o queue[t]
        BY <1>1, <1>3, ConcatMove
      <4> QED
        BY <4>1, <4>2, <4>3, Zenon
    <3>5. \A r \in Runs : Tick(t, r)
      BY <1>1 DEF Tick, Due
    <3>6. SeenOK(t)'
      BY <1>1, <3>1, <3>4, <3>5, SeenKept
    <3> QED
      BY <3>3, <3>6
  <2> QED
    BY <2>1, <2>2
<1>7. \A s \in Streams \ {t} : /\ UNCHANGED <<queue[s], spc[s], shown[s], live[s]>>
                               /\ s \in subs' <=> s \in subs
  BY <1>1, <1>2 DEF TypeOK
<1> QED
  BY <1>1, <1>5, <1>6, <1>7, StreamStep DEF runVars, readVars

LEMMA ClientLeftInv == ASSUME Inv, NEW t \in Streams, ClientLeft(t) PROVE Inv'
<1>1. /\ TypeOK /\ StreamOK(t) /\ spc[t] \in {"replayed", "live"}
      /\ spc' = [spc EXCEPT ![t] = IF @ = "live" THEN "leaving" ELSE "closed"]
      /\ UNCHANGED <<runVars, ring, readVars, subs, queue, shown, during, live, full>>
  BY DEF Inv, ClientLeft
<1>2. TypeOK'
  BY <1>1 DEF TypeOK, runVars, readVars
<1>3. /\ spc'[t] = IF spc[t] = "live" THEN "leaving" ELSE "closed"
      /\ spc'[t] \in {"leaving", "closed"}
  BY <1>1 DEF TypeOK
<1>4. StreamOK(t)'
  BY <1>1, <1>3 DEF StreamOK
<1>5. SeenOK(t)'
  BY <1>1, <1>3, SeenCut
<1>6. \A s \in Streams \ {t} : /\ UNCHANGED <<queue[s], spc[s], shown[s], live[s]>>
                               /\ s \in subs' <=> s \in subs
  BY <1>1 DEF TypeOK
<1> QED
  BY <1>1, <1>2, <1>4, <1>5, <1>6, StreamStep

LEMMA LeaveInv == ASSUME Inv, NEW t \in Streams, Leave(t) PROVE Inv'
<1>1. /\ TypeOK /\ StreamOK(t) /\ spc[t] = "leaving" /\ subs' = subs \ {t}
      /\ spc' = [spc EXCEPT ![t] = "closed"]
      /\ UNCHANGED <<runVars, ring, readVars, queue, shown, during, live, full>>
  BY DEF Inv, Leave
<1>2. TypeOK'
  BY <1>1 DEF TypeOK, runVars, readVars
<1>3. spc'[t] = "closed"
  BY <1>1 DEF TypeOK
<1>4. StreamOK(t)'
  BY <1>1, <1>3 DEF StreamOK
<1>5. SeenOK(t)'
  BY <1>1, <1>3, SeenCut
<1>6. \A s \in Streams \ {t} : /\ UNCHANGED <<queue[s], spc[s], shown[s], live[s]>>
                               /\ s \in subs' <=> s \in subs
  BY <1>1 DEF TypeOK
<1> QED
  BY <1>1, <1>2, <1>4, <1>5, <1>6, StreamStep

(***************************************************************************)
(* The theorems.                                                           *)
(***************************************************************************)
LEMMA NextInv == Inv /\ [Next]_vars => Inv'
<1>1. ASSUME Inv, UNCHANGED vars PROVE Inv'
  <2>1. /\ UNCHANGED <<run, alive, ring, read, reader, item, todo, subs, queue, spc, shown, during, live, full>>
        /\ TypeOK' /\ RunOK' /\ RingOK' /\ \A r \in Runs : ItemOK(r)'
    BY <1>1 DEF Inv, vars, TypeOK, RunOK, RingOK, ItemOK
  <2>2. \A s \in Streams, r \in Runs : Tick(s, r)
    BY <2>1 DEF Tick, Due
  <2> QED
    BY <1>1, <2>1, <2>2, ReaderStep DEF Inv, streamVars
<1>2. ASSUME Inv, NEW r \in Runs, Reader(r) PROVE Inv'
  BY <1>2, ReadLineInv, ReadEndInv, ReadFailsInv, CopySubscribersInv, PutEndsInv, PutInv DEF Reader
<1>3. ASSUME Inv, NEW s \in Streams, Open(s) \/ Serve(s) \/ ClientLeft(s) PROVE Inv'
  BY <1>3, OpenInv, SubscribeInv, DeliverInv, LeaveInv, ClientLeftInv DEF Serve
<1> QED
  BY <1>1, <1>2, <1>3, SpawnInv, ExitInv, StopDetachedInv DEF Next

LEMMA SpecInv == Spec => []Inv
<1> QED
  BY InitInv, NextInv, PTL DEF Spec

\* Every state of the streams is of its type: in particular neither the ring nor a
\* subscriber's queue (deque(maxlen=200), Queue(maxsize=500)) grows beyond its bound.
THEOREM LogTypeOK == Spec => []TypeOK
<1>1. Inv => TypeOK
  BY DEF Inv
<1> QED
  BY <1>1, SpecInv, PTL

\* A client is sent the lines of a runtime in their order, over the replay and the live
\* lines of handle_log_stream and over any number of restarts.
THEOREM LogInOrder == Spec => []InOrder
<1>1. Inv => InOrder
  <2> SUFFICES ASSUME Inv, NEW s \in Streams, NEW i \in 1..Len(shown[s]), NEW k \in 1..Len(shown[s]),
                      i < k, shown[s][i].run = shown[s][k].run
               PROVE  \/ shown[s][i].number < shown[s][k].number
                      \/ shown[s][i] = shown[s][k] /\ i <= live[s] /\ k > live[s]
    BY DEF InOrder
  <2>1. TypeOK /\ Ordered(Seen(s), live[s])
    BY DEF Inv, SeenOK
  <2>2. /\ i \in 1..Len(Seen(s)) /\ Seen(s)[i] = shown[s][i]
        /\ k \in 1..Len(Seen(s)) /\ Seen(s)[k] = shown[s][k]
    BY <2>1, SeenType
  <2>3. shown[s][i].run \in Runs
    BY <2>1, ElementOfSeq, LinesAreItems DEF TypeOK
  <2> QED
    BY <2>1, <2>2, <2>3 DEF Ordered
<1> QED
  BY <1>1, SpecInv, PTL

\* Whoever subscribed misses no line of a runtime between two that he is sent, unless his
\* queue was full when _notify_sse_subscribers came to it.
THEOREM LogNoGap == Spec => []NoGap
<1>1. Inv => NoGap
  <2> SUFFICES ASSUME Inv, NEW s \in Streams \ full, NEW i \in (live[s] + 1)..Len(shown[s])
               PROVE  \/ \A k \in (live[s] + 1)..(i - 1) : shown[s][k].run # shown[s][i].run
                      \/ \E k \in (live[s] + 1)..(i - 1) :
                            shown[s][k] = Line(shown[s][i].run, shown[s][i].number - 1)
    BY DEF NoGap
  <2>1. TypeOK /\ Gapless(Seen(s), live[s])
    BY DEF Inv, SeenOK
  <2>2. /\ live[s] \in Nat /\ Len(shown[s]) \in Nat /\ Len(shown[s]) <= Len(Seen(s)) /\ Len(Seen(s)) \in Nat
        /\ \A k \in 1..Len(shown[s]) : Seen(s)[k] = shown[s][k]
    BY <2>1, SeenType
  <2>3. i \in (live[s] + 1)..Len(Seen(s)) /\ \A k \in (live[s] + 1)..i : Seen(s)[k] = shown[s][k]
    BY <2>2
  <2>4. shown[s][i].run \in Runs
    <3>1. i \in 1..Len(shown[s])
      BY <2>2
    <3> QED
      BY <2>1, <3>1, ElementOfSeq, LinesAreItems DEF TypeOK
  <2>5. \/ \A k \in (live[s] + 1)..(i - 1) : Seen(s)[k].run # shown[s][i].run
        \/ \E k \in (live[s] + 1)..(i - 1) :
              Seen(s)[k] = Line(shown[s][i].run, shown[s][i].number - 1)
    <3>1. Seen(s)[i] = shown[s][i]
      BY <2>2, <2>3
    <3> QED
      BY <2>1, <2>3, <2>4, <3>1 DEF Gapless
  <2>6. \A k \in (live[s] + 1)..(i - 1) : Seen(s)[k] = shown[s][k]
    BY <2>2, <2>3
  <2> QED
    BY <2>5, <2>6
<1> QED
  BY <1>1, SpecInv, PTL

\* However a stream ended, its queue is unsubscribed: nothing is put on it for ever.
THEOREM LogClosedUnsubscribed == Spec => []ClosedUnsubscribed
<1>1. Inv => ClosedUnsubscribed
  BY DEF Inv, TypeOK, StreamOK, ClosedUnsubscribed
<1> QED
  BY <1>1, SpecInv, PTL
=============================================================================
