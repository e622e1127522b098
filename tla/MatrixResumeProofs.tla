------------------------- MODULE MatrixResumeProofs -------------------------
(***************************************************************************)
(* Proofs about MatrixResume for any number of launchers, lanes,           *)
(* comparisons, crashes, exceptions and attempts.                          *)
(*                                                                         *)
(* A controller that dies leaves the files as they are.  So the invariant  *)
(* has a part about the files alone, which holds whoever is or is not at   *)
(* work (CheckpointInv, CompletionInv), and a part that says at each place *)
(* of main how the memory of the one controller that holds the lock and    *)
(* the files fit together (Progress).                                      *)
(***************************************************************************)
EXTENDS MatrixResume, SequenceTheorems, WellFoundedInduction, TLAPS

Total == Lanes + Comparisons

\* Launchers that do not hold the lock, and a matrix that is being created.
Outside == {"idle", "lock fresh", "lock resume"}
Opening == {"mark fresh", "start journal", "first checkpoint"}
Leaving == {"fail", "write failure", "exit"}
\* A controller that has read the checkpoint, and one that has its own attempt.
Attempting == {"archive", "truncate", "mark resumed", "next", "spawn", "run",
               "ended", "validate", "checkpoint", "unmark", "close"}
Loaded == (Attempting \ {"checkpoint"}) \cup {"new attempt", "verify", "release"}
Places == Outside \cup Opening \cup Leaving \cup Loaded \cup {"load", "checkpoint"}

Event == {<<"controller">>} \cup {<<"started", i>> : i \in Nat}
           \cup {<<kind, i, run>> : kind \in {"ended", "validated"}, i \in Nat, run \in Nat}
Report == [checkpoint : SUBSET Seq(Nat), history : Seq(BOOLEAN)]

TypeInv ==
  /\ created \in BOOLEAN
  /\ owner \subseteq Launchers
  /\ journal \in Seq(Event)
  /\ checkpoint \subseteq Seq(Nat)
  /\ report \subseteq Report
  /\ complete \subseteq [report : SUBSET Report, journal : Seq(Event)]
  /\ output \in [Items -> SUBSET [run : Nat, ok : BOOLEAN]]
  /\ logs \subseteq Items
  /\ history \in Seq(BOOLEAN)
  /\ pc \in [Launchers -> Places]
  /\ done \in [Launchers -> Seq(Nat)]
  /\ events \in [Launchers -> Seq(Event)]

\* One launcher holds the lock, and it is the one that is in main.
LockInv ==
  /\ \A l \in Launchers : l \in owner <=> pc[l] \notin Outside
  /\ \A l, m \in owner : l = m

\* Nothing of an item exists.
Clean(i) == output[i] = {} /\ i \notin logs

\* Whoever created the directory is alone in it until the first checkpoint:
\* before that there is nothing to run, to report or to archive.
OpeningInv ==
  /\ ~ created => \A l \in Launchers : pc[l] = "idle"
  /\ \A l, m \in Launchers :
       pc[l] \in {"lock fresh"} \cup Opening /\ pc[m] \in {"lock fresh"} \cup Opening => l = m
  /\ \A l \in Launchers : pc[l] \in {"lock fresh"} \cup Opening => checkpoint = {}
  /\ ~ created => checkpoint = {}
  /\ checkpoint = {} =>
       /\ \A i \in Items : Clean(i)
       /\ report = {} /\ complete = {}
       /\ \A l \in Launchers : pc[l] \in Outside \cup Opening \cup Leaving \cup {"load"}

\* What a resume asks of the files holds of them at any time: a controller
\* works on the first item that is not in the checkpoint.
CheckpointInv ==
  /\ \A d, e \in checkpoint : d = e
  /\ \A d \in checkpoint :
       /\ Len(d) <= Total /\ ResultsIntact(d)
       /\ IsPrefix(ExpectedEvents(d), journal)
       /\ \A i \in Items : i > Len(d) + 1 => Clean(i)

\* The first event of an item.
Started(i) == IF i <= Lanes THEN << <<"started", i>> >> ELSE <<>>

\* The journal of a controller is in its file.
Journal(l, j) == events[l] = j /\ journal = j

Progress(l) ==
  /\ pc[l] \in Loaded => checkpoint = {done[l]}
  /\ pc[l] = "first checkpoint" => Journal(l, ExpectedEvents(<<>>)) /\ done[l] = <<>>
  /\ pc[l] \in {"truncate", "mark resumed", "next", "spawn"} =>
       (Item(l) \in Items => Clean(Item(l)))
  /\ pc[l] \in {"mark resumed", "next", "checkpoint", "unmark", "close"} =>
       Journal(l, ExpectedEvents(done[l]))
  /\ pc[l] \in {"spawn", "run", "ended", "validate"} => Item(l) \in Items
  /\ pc[l] \in {"spawn", "run", "ended"} =>
       Journal(l, ExpectedEvents(done[l]) \o Started(Item(l)))
  /\ pc[l] \in {"run", "ended", "validate"} => Item(l) \in logs
  /\ pc[l] = "validate" =>
       /\ Journal(l, Append(ExpectedEvents(done[l]) \o Started(Item(l)),
                            <<"ended", Item(l), Run>>))
       /\ output[Item(l)] = {[run |-> Run, ok |-> TRUE]}
  /\ pc[l] = "checkpoint" =>
       /\ \E d \in Seq(Nat) : checkpoint = {d} /\ done[l] = Append(d, Run)
       /\ Len(done[l]) <= Total /\ ResultsIntact(done[l])
  /\ pc[l] \in {"unmark", "close"} =>
       /\ Len(done[l]) = Total /\ EveryAttemptArchived
       /\ report = {[checkpoint |-> checkpoint, history |-> history]}

\* A completion is of an earlier attempt, or all that it binds is there.
Superseded == \A c \in complete : \A r \in c.report : Len(r.history) < Len(history)
CompletionInv ==
  /\ Superseded \/ Verifiable
  /\ \A l \in Launchers : pc[l] \in Attempting => Superseded

Inv ==
  /\ TypeInv /\ LockInv /\ OpeningInv /\ CheckpointInv /\ CompletionInv
  /\ \A l \in Launchers : Progress(l)

-----------------------------------------------------------------------------
(* FlattenSeq, which the journal is defined with, by induction.              *)

\* Induction over the natural numbers: a set that has zero and all successors.
LEMMA SetInduction ==
  ASSUME NEW S, S \subseteq Nat, 0 \in S, \A n \in S : n + 1 \in S
  PROVE  S = Nat
<1> DEFINE T == Nat \ S
           R == OpToRel(<, Nat)
<1> SUFFICES ASSUME T # {} PROVE FALSE
  OBVIOUS
<1>1. IsWellFoundedOn(R, Nat)
  BY NatLessThanWellFounded
<1>2. PICK x \in T : \A y \in T : ~ (<<y, x>> \in R)
  <2> HIDE DEF R
  <2> QED BY <1>1, WFMin
<1>3. \A y \in T : ~ (y < x)
  BY <1>2 DEF OpToRel
<1>4. x - 1 \in Nat /\ x - 1 \notin T
  BY <1>3
<1> QED
  BY <1>4

\* The function that FlattenSeq defines by recursion.
Flattens(f, ss, n) == f = [i \in 1..n |-> IF i = 1 THEN ss[i] ELSE f[i - 1] \o ss[i]]

\* What the recursive definition says of each value of the function.
LEMMA FlattensStep ==
  ASSUME NEW ss, NEW n \in Nat, NEW f
  PROVE  Flattens(f, ss, n)
           <=> /\ f = [i \in 1..n |-> f[i]]
               /\ \A i \in 1..n : f[i] = IF i = 1 THEN ss[i] ELSE f[i - 1] \o ss[i]
<1> DEFINE h(i) == IF i = 1 THEN ss[i] ELSE f[i - 1] \o ss[i]
<1>1. Flattens(f, ss, n) <=> f = [i \in 1..n |-> h(i)]
  BY DEF Flattens
<1>2. (\A i \in 1..n : f[i] = h(i)) <=> \A i \in 1..n : f[i] = IF i = 1 THEN ss[i] ELSE f[i - 1] \o ss[i]
  OBVIOUS
<1> HIDE DEF h
<1>3. ASSUME f = [i \in 1..n |-> h(i)] PROVE f = [i \in 1..n |-> f[i]] /\ \A i \in 1..n : f[i] = h(i)
  BY <1>3
<1>4. ASSUME f = [i \in 1..n |-> f[i]], \A i \in 1..n : f[i] = h(i) PROVE f = [i \in 1..n |-> h(i)]
  BY <1>4
<1> QED
  BY <1>1, <1>2, <1>3, <1>4

\* There is such a function: one for n values extends to n + 1.
LEMMA FlattenExists ==
  ASSUME NEW ss, NEW n \in Nat
  PROVE  \E f : Flattens(f, ss, n)
<1> DEFINE S == {k \in Nat : \E f : Flattens(f, ss, k)}
<1>1. 0 \in S
  <2>1. Flattens([i \in 1..0 |-> 0], ss, 0)
    BY DEF Flattens
  <2> QED BY <2>1
<1>2. ASSUME NEW k \in S PROVE k + 1 \in S
  <2>1. PICK f : Flattens(f, ss, k)
    OBVIOUS
  <2> DEFINE g == [i \in 1..(k + 1) |-> IF i <= k THEN f[i]
                                        ELSE IF i = 1 THEN ss[i] ELSE f[i - 1] \o ss[i]]
  <2>2. DOMAIN g = 1..(k + 1)
    OBVIOUS
  <2>3. \A i \in 1..k : g[i] = f[i]
    OBVIOUS
  <2>4. \A i \in 1..(k + 1) : g[i] = IF i = 1 THEN ss[i] ELSE g[i - 1] \o ss[i]
    <3> SUFFICES ASSUME NEW i \in 1..(k + 1)
                 PROVE  g[i] = IF i = 1 THEN ss[i] ELSE g[i - 1] \o ss[i]
      OBVIOUS
    <3>1. CASE i <= k
      <4>1. i \in 1..k /\ (i # 1 => i - 1 \in 1..k)
        BY <3>1
      <4>2. f[i] = IF i = 1 THEN ss[i] ELSE f[i - 1] \o ss[i]
        BY <2>1, <4>1, FlattensStep
      <4> QED BY <2>3, <4>1, <4>2
    <3>2. CASE i = k + 1
      <4>1. i # 1 => i - 1 \in 1..k
        BY <3>2
      <4> QED BY <2>3, <4>1, <3>2
    <3> QED BY <3>1, <3>2
  <2>5. Flattens(g, ss, k + 1)
    <3>1. g = [i \in 1..(k + 1) |-> g[i]]
      BY DEF g
    <3>2. k + 1 \in Nat
      OBVIOUS
    <3> HIDE DEF g
    <3> QED BY <2>4, <3>1, <3>2, FlattensStep
  <2> QED BY <2>5
<1>3. S = Nat
  <2> HIDE DEF S
  <2>1. S \subseteq Nat
    BY DEF S
  <2> QED BY <1>1, <1>2, <2>1, SetInduction
<1> QED
  BY <1>3

\* It is determined by the sequences it flattens, and gives sequences.
LEMMA FlattenUnique ==
  ASSUME NEW E, NEW ss \in Seq(Seq(E)), NEW tt, NEW f, NEW g, NEW n \in Nat,
         n <= Len(ss), \A i \in 1..n : tt[i] = ss[i], 
         Flattens(f, ss, n), NEW m \in Nat, n <= m, Flattens(g, tt, m)
  PROVE  \A i \in 1..n : f[i] = g[i] /\ f[i] \in Seq(E)
<1> DEFINE S == {k \in Nat : k <= n /\ k # 0 => f[k] = g[k] /\ f[k] \in Seq(E)}
<1>0. \A i \in 1..n : ss[i] \in Seq(E)
  BY LenProperties
<1>1. 0 \in S
  OBVIOUS
<1>2. ASSUME NEW k \in S PROVE k + 1 \in S
  <2> SUFFICES ASSUME k + 1 <= n
               PROVE  f[k + 1] = g[k + 1] /\ f[k + 1] \in Seq(E)
    OBVIOUS
  <2>1. k + 1 \in 1..n /\ k + 1 \in 1..m
    OBVIOUS
  <2>2. f[k + 1] = IF k + 1 = 1 THEN ss[k + 1] ELSE f[k] \o ss[k + 1]
    BY <2>1, FlattensStep, SMTT(20)
  <2>3. g[k + 1] = IF k + 1 = 1 THEN ss[k + 1] ELSE g[k] \o ss[k + 1]
    <3>1. g[k + 1] = IF k + 1 = 1 THEN tt[k + 1] ELSE g[k] \o tt[k + 1]
      BY <2>1, FlattensStep, SMTT(20)
    <3>2. tt[k + 1] = ss[k + 1]
      BY <2>1
    <3> QED BY <3>1, <3>2
  <2>4. k # 0 => f[k] = g[k] /\ f[k] \in Seq(E)
    OBVIOUS
  <2> HIDE DEF S
  <2>5. CASE k = 0
    BY <2>1, <2>2, <2>3, <2>5, <1>0
  <2>6. CASE k # 0
    BY <2>1, <2>2, <2>3, <2>4, <2>6, <1>0, ConcatProperties
  <2> QED BY <2>5, <2>6
<1>3. S = Nat
  <2> HIDE DEF S
  <2>1. S \subseteq Nat
    BY DEF S
  <2> QED BY <1>1, <1>2, <2>1, SetInduction
<1>4. \A i \in 1..n : i \in S
  <2> HIDE DEF S
  <2> QED BY <1>3
<1> QED
  BY <1>4

\* FlattenSeq is the last value of such a function.
LEMMA FlattenValue ==
  ASSUME NEW E, NEW ss \in Seq(Seq(E)), ss # <<>>
  PROVE  \E f : Flattens(f, ss, Len(ss)) /\ FlattenSeq(ss) = f[Len(ss)]
<1> DEFINE F == CHOOSE f : Flattens(f, ss, Len(ss))
<1>1. Len(ss) \in Nat /\ Len(ss) # 0
  BY EmptySeq
<1>2. Flattens(F, ss, Len(ss))
  BY <1>1, FlattenExists
<1>3. FlattenSeq(ss) = F[Len(ss)]
  BY <1>1 DEF FlattenSeq, Flattens
<1> QED
  BY <1>2, <1>3

\* Flattening one more sequence appends it.
LEMMA FlattenAppend ==
  ASSUME NEW E, NEW ss \in Seq(Seq(E)), NEW s \in Seq(E)
  PROVE  /\ FlattenSeq(Append(ss, s)) \in Seq(E)
         /\ FlattenSeq(Append(ss, s)) = FlattenSeq(ss) \o s
<1> DEFINE n == Len(ss)
           tt == Append(ss, s)
<1>1. n \in Nat /\ tt \in Seq(Seq(E)) /\ tt # <<>> /\ Len(tt) = n + 1
  BY AppendProperties
<1>2. (\A i \in 1..n : tt[i] = ss[i]) /\ tt[n + 1] = s
  BY AppendProperties
<1>3. PICK g : Flattens(g, tt, n + 1) /\ FlattenSeq(tt) = g[n + 1]
  BY <1>1, FlattenValue
<1>4. FlattenSeq(tt) = IF n = 0 THEN s ELSE g[n] \o s
  <2>1. n + 1 \in 1..(n + 1)
    BY <1>1
  <2> HIDE DEF n, tt
  <2> QED BY <1>1, <1>2, <1>3, <2>1, FlattensStep
<1>5. CASE n = 0
  <2>1. ss = <<>>
    BY <1>5, EmptySeq
  <2>2. FlattenSeq(ss) = <<>>
    BY <2>1 DEF FlattenSeq
  <2> QED BY <1>4, <1>5, <2>2, ConcatEmptySeq
<1>6. CASE n # 0
  <2>1. PICK f : Flattens(f, ss, n) /\ FlattenSeq(ss) = f[n]
    BY <1>1, <1>6, FlattenValue, EmptySeq
  <2>2. f[n] = g[n] /\ f[n] \in Seq(E)
    <3>1. n \in 1..n /\ n <= n + 1 /\ n + 1 \in Nat /\ n <= Len(ss)
      BY <1>1, <1>6
    <3> HIDE DEF n, tt
    <3>2. \A i \in 1..n : f[i] = g[i] /\ f[i] \in Seq(E)
      BY <1>1, <1>2, <1>3, <2>1, <3>1, FlattenUnique
    <3> QED BY <3>1, <3>2
  <2> QED BY <1>4, <1>6, <2>1, <2>2, ConcatProperties
<1> QED
  BY <1>1, <1>5, <1>6

\* Flattening gives a sequence.
LEMMA FlattenType ==
  ASSUME NEW E, NEW ss \in Seq(Seq(E))
  PROVE  FlattenSeq(ss) \in Seq(E)
<1>1. CASE ss = <<>>
  <2>1. FlattenSeq(ss) = <<>>
    BY <1>1 DEF FlattenSeq
  <2> QED BY <2>1
<1>2. CASE ss # <<>>
  <2>1. Len(ss) \in Nat /\ Len(ss) \in 1..Len(ss)
    BY <1>2, EmptySeq
  <2>2. PICK f : Flattens(f, ss, Len(ss)) /\ FlattenSeq(ss) = f[Len(ss)]
    BY <1>2, FlattenValue
  <2>3. \A i \in 1..Len(ss) : f[i] = f[i] /\ f[i] \in Seq(E)
    BY <2>1, <2>2, FlattenUnique
  <2> QED BY <2>1, <2>2, <2>3
<1> QED
  BY <1>1, <1>2

-----------------------------------------------------------------------------
(* Prefixes and journals.                                                    *)

\* A sequence is a prefix of itself and of what is appended to it.
LEMMA PrefixOfConcat ==
  ASSUME NEW E, NEW s \in Seq(E), NEW t \in Seq(E)
  PROVE  IsPrefix(s, s) /\ IsPrefix(s, s \o t)
<1>1. Len(s) \in Nat /\ Len(t) \in Nat /\ s \o t \in Seq(E) /\ Len(s \o t) = Len(s) + Len(t)
  BY ConcatProperties
<1>2. SubSeq(s, 1, Len(s)) = s
  BY SubSeqFull
<1>3. SubSeq(s \o t, 1, Len(s)) = s
  <2>1. CASE Len(s) = 0
    BY <1>1, <2>1, EmptySeq, SubSeqEmpty
  <2>2. CASE Len(s) # 0
    <3>1. 1 \in 1..Len(s) /\ Len(s) \in 1..Len(s)
      BY <1>1, <2>2
    <3> QED BY <1>2, <3>1, SubSeqOfConcat1
  <2> QED BY <2>1, <2>2
<1> QED
  BY <1>1, <1>2, <1>3 DEF IsPrefix

\* The events of the journal.
LEMMA EventFacts ==
  /\ <<"controller">> \in Event
  /\ \A i \in Nat : <<"started", i>> \in Event
  /\ \A i, run \in Nat : /\ <<"ended", i, run>> \in Event
                         /\ <<"validated", i, run>> \in Event
BY DEF Event

\* The events of an item are its start, if it is a lane, and two more.
LEMMA EventsOfItem ==
  ASSUME NEW i \in Nat, NEW run \in Nat
  PROVE  /\ Started(i) \in Seq(Event)
         /\ EventsOf(i, run) \in Seq(Event)
         /\ EventsOf(i, run) = Started(i) \o << <<"ended", i, run>>, <<"validated", i, run>> >>
<1> DEFINE a == <<"started", i>>
           b == <<"ended", i, run>>
           c == <<"validated", i, run>>
<1>1. a \in Event /\ b \in Event /\ c \in Event
  BY EventFacts
<1>2. EventsOf(i, run) = Started(i) \o <<b, c>>
  BY DEF EventsOf, Started
<1>3. Started(i) = IF i <= Lanes THEN <<a>> ELSE <<>>
  BY DEF Started
<1> HIDE DEF a, b, c
<1>4. Started(i) \in Seq(Event) /\ <<b, c>> \in Seq(Event)
  BY <1>1, <1>3
<1>5. EventsOf(i, run) \in Seq(Event)
  BY <1>2, <1>4, ConcatProperties
<1> QED
  BY <1>2, <1>4, <1>5 DEF b, c

\* The events of an item are a sequence of events.
LEMMA EventsType == \A i, run \in Nat : EventsOf(i, run) \in Seq(Event)
BY EventsOfItem

\* The expected journal is a sequence of events, and each completed item adds its own.
LEMMA ExpectedFacts ==
  ASSUME NEW d \in Seq(Nat), NEW run \in Nat
  PROVE  /\ ExpectedEvents(d) \in Seq(Event)
         /\ ExpectedEvents(Append(d, run)) = ExpectedEvents(d) \o EventsOf(Len(d) + 1, run)
<1> DEFINE of == [i \in 1..Len(d) |-> EventsOf(i, d[i])]
           to == [i \in 1..Len(Append(d, run)) |-> EventsOf(i, Append(d, run)[i])]
           new == EventsOf(Len(d) + 1, run)
           first == << <<"controller">> >>
<1>1. Len(d) \in Nat /\ \A i \in 1..Len(d) : d[i] \in Nat
  BY LenProperties, ElementOfSeq
<1>2. of \in Seq(Seq(Event)) /\ Len(of) = Len(d)
  <2>1. ASSUME NEW i \in 1..Len(d) PROVE EventsOf(i, d[i]) \in Seq(Event)
    <3>1. i \in Nat /\ d[i] \in Nat
      BY <1>1
    <3> QED BY <3>1, EventsType
  <2>2. of \in [1..Len(d) -> Seq(Event)]
    BY <2>1
  <2> QED BY <1>1, <2>2
<1>3. new \in Seq(Event)
  BY <1>1, EventsType
<1>4. first \in Seq(Event)
  <2> DEFINE c == <<"controller">>
  <2>1. c \in Event
    BY EventFacts
  <2> HIDE DEF c
  <2>2. <<c>> \in Seq(Event)
    BY <2>1
  <2> QED BY <2>2 DEF c
<1>5. to = Append(of, new)
  <2>1. /\ Len(Append(d, run)) = Len(d) + 1
        /\ \A i \in 1..Len(d) : Append(d, run)[i] = d[i]
        /\ Append(d, run)[Len(d) + 1] = run
    BY AppendProperties
  <2>2. /\ Append(of, new) \in Seq(Seq(Event)) /\ Len(Append(of, new)) = Len(d) + 1
        /\ \A i \in 1..Len(d) : Append(of, new)[i] = of[i]
        /\ Append(of, new)[Len(d) + 1] = new
    <3> HIDE DEF of, new
    <3> QED BY <1>1, <1>2, <1>3, AppendProperties
  <2>3. Append(of, new) = [i \in 1..(Len(d) + 1) |-> Append(of, new)[i]]
    <3> DEFINE s == Append(of, new)
    <3> HIDE DEF of, new, s
    <3>1. s \in Seq(Seq(Event)) /\ Len(s) = Len(d) + 1
      BY <2>2 DEF s
    <3>2. s = [i \in 1..(Len(d) + 1) |-> s[i]]
      BY <3>1, LenProperties
    <3> QED BY <3>2 DEF s
  <2>4. \A i \in 1..(Len(d) + 1) : EventsOf(i, Append(d, run)[i]) = Append(of, new)[i]
    <3> SUFFICES ASSUME NEW i \in 1..(Len(d) + 1)
                 PROVE  EventsOf(i, Append(d, run)[i]) = Append(of, new)[i]
      OBVIOUS
    <3>1. CASE i \in 1..Len(d)
      <4>1. of[i] = EventsOf(i, d[i])
        BY <3>1
      <4> HIDE DEF of, new
      <4> QED BY <2>1, <2>2, <3>1, <4>1
    <3>2. CASE i = Len(d) + 1
      BY <2>1, <2>2, <3>2
    <3> QED BY <1>1, <3>1, <3>2
  <2>5. to = [i \in 1..(Len(d) + 1) |-> EventsOf(i, Append(d, run)[i])]
    BY <2>1
  <2> DEFINE s == Append(of, new)
  <2> HIDE DEF of, new, to, s
  <2>6. s = [i \in 1..(Len(d) + 1) |-> s[i]]
    BY <2>3 DEF s
  <2>7. \A i \in 1..(Len(d) + 1) : EventsOf(i, Append(d, run)[i]) = s[i]
    BY <2>4 DEF s
  <2>8. to = s
    BY <2>5, <2>6, <2>7
  <2> QED BY <2>8 DEF s
<1>6. ExpectedEvents(d) = first \o FlattenSeq(of) /\ ExpectedEvents(Append(d, run)) = first \o FlattenSeq(to)
  BY DEF ExpectedEvents
<1> HIDE DEF of, to, new, first
<1>7. FlattenSeq(of) \in Seq(Event) /\ FlattenSeq(to) = FlattenSeq(of) \o new
  <2>1. FlattenSeq(of) \in Seq(Event)
    BY <1>2, FlattenType
  <2>2. FlattenSeq(Append(of, new)) = FlattenSeq(of) \o new
    BY <1>2, <1>3, FlattenAppend
  <2> QED BY <1>5, <2>1, <2>2
<1>8. ExpectedEvents(d) \in Seq(Event)
  BY <1>4, <1>6, <1>7, ConcatProperties
<1>9. ExpectedEvents(Append(d, run)) = ExpectedEvents(d) \o new
  BY <1>3, <1>4, <1>6, <1>7, ConcatAssociative, SMTT(20)
<1> QED
  BY <1>8, <1>9 DEF new

-----------------------------------------------------------------------------
(* Types.                                                                    *)

\* Appending an event to the journal of a controller.
LEMMA JournalType ==
  ASSUME TypeInv, NEW l \in Launchers, NEW event \in Event, AppendJournal(l, event)
  PROVE  /\ events' \in [Launchers -> Seq(Event)] /\ journal' \in Seq(Event)
         /\ events'[l] = Append(events[l], event) /\ journal' = Append(events[l], event)
         /\ \A m \in Launchers \ {l} : events'[m] = events[m]
<1>1. events[l] \in Seq(Event)
  BY DEF TypeInv
<1>2. Append(events[l], event) \in Seq(Event)
  BY <1>1, AppendProperties
<1> QED
  BY <1>1, <1>2 DEF AppendJournal, TypeInv

\* Item and run are numbers.
LEMMA ItemType ==
  ASSUME TypeInv, NEW l \in Launchers
  PROVE  Item(l) \in Nat \ {0} /\ Len(done[l]) \in Nat /\ Run \in Nat
<1>1. done[l] \in Seq(Nat) /\ history \in Seq(BOOLEAN)
  BY DEF TypeInv
<1> QED
  BY <1>1, LenProperties DEF Item, Run

\* What a run leaves in the output of its item.
LEMMA RunRecords ==
  \A run \in Nat, ok \in BOOLEAN : {[run |-> run, ok |-> ok]} \in SUBSET [run : Nat, ok : BOOLEAN]
OBVIOUS

\* Sealing an attempt changes its marker and nothing else of the history.
LEMMA SealedHistory ==
  ASSUME NEW h \in Seq(BOOLEAN)
  PROVE  /\ [h EXCEPT ![Len(h)] = TRUE] \in Seq(BOOLEAN)
         /\ Len([h EXCEPT ![Len(h)] = TRUE]) = Len(h)
<1>1. Len(h) \in Nat /\ DOMAIN h = 1..Len(h)
  BY LenProperties
<1>2. CASE Len(h) = 0
  <2>1. [h EXCEPT ![Len(h)] = TRUE] = h
    BY <1>1, <1>2
  <2> QED BY <2>1
<1>3. CASE Len(h) # 0
  BY <1>1, <1>3, ExceptSeq
<1> QED
  BY <1>2, <1>3

\* The steps that leave all files but the marks and the creation alone.
Unwriting(l) ==
  \/ Fresh(l) \/ Resume(l) \/ Acquire(l) \/ LockIsHeld(l) \/ MarkFresh(l) \/ MarkResumed(l)
  \/ StartComparison(l) \/ Unmark(l) \/ Verify(l) \/ WriteFailure(l) \/ Exit(l)
  \/ Fault(l) \/ Crash(l)

\* They keep the types.
LEMMA UnwritingType ==
  ASSUME TypeInv, NEW l \in Launchers, Unwriting(l)
  PROVE  TypeInv'
<1> USE DEF TypeInv, Step, Goto, files, closure, artifacts, memory, budget, Places, Outside,
        Opening, Leaving, Loaded, Attempting
<1>1. CASE Fresh(l)
  BY <1>1 DEF Fresh
<1>2. CASE Resume(l) \/ LockIsHeld(l) \/ StartComparison(l) \/ Verify(l) \/ Fault(l)
  BY <1>2 DEF Resume, LockIsHeld, StartComparison, Verify, Fault
<1>3. CASE Acquire(l)
  BY <1>3 DEF Acquire
<1>4. CASE MarkFresh(l) \/ MarkResumed(l) \/ Unmark(l) \/ WriteFailure(l)
  BY <1>4 DEF MarkFresh, MarkResumed, Unmark, WriteFailure
<1>5. CASE Exit(l) \/ Crash(l)
  <2>1. <<>> \in Seq(Nat) /\ <<>> \in Seq(Event)
    BY EmptySeq
  <2> QED BY <1>5, <2>1, ZenonT(40) DEF Exit, Crash, Forget
<1> QED
  BY <1>1, <1>2, <1>3, <1>4, <1>5 DEF Unwriting

\* So do the others.
LEMMA WritingType ==
  ASSUME Inv, NEW l \in Launchers, Proceed(l), ~ Unwriting(l)
  PROVE  TypeInv'
<1>t. TypeInv
  BY DEF Inv
<1>s. pc[l] = "spawn" => Item(l) \in Items
  BY DEF Inv, Progress
<1> USE <1>t DEF TypeInv, Step, Goto, files, closure, artifacts, memory, budget, Places, Outside,
                Opening, Leaving, Loaded, Attempting
<1>e. <<>> \in Seq(Nat)
  BY EmptySeq
<1>1. CASE StartJournal(l)
  <2>1. ExpectedEvents(<<>>) \in Seq(Event)
    BY <1>e, ExpectedFacts
  <2> QED BY <1>1, <1>e, <2>1 DEF StartJournal
<1>2. CASE FirstCheckpoint(l)
  BY <1>2, <1>e DEF FirstCheckpoint
<1>3. CASE Load(l)
  BY <1>3 DEF Load, Resumable
<1>4. CASE NewAttempt(l)
  <2>1. Append(history, FALSE) \in Seq(BOOLEAN)
    BY AppendProperties
  <2> QED BY <1>4, <2>1 DEF NewAttempt
<1>5. CASE ArchiveFile(l)
  BY <1>5 DEF ArchiveFile
<1>6. CASE SealArchive(l)
  <2>1. [history EXCEPT ![Len(history)] = TRUE] \in Seq(BOOLEAN)
    BY SealedHistory
  <2> QED BY <1>6, <2>1 DEF SealArchive
<1>7. CASE TruncateJournal(l)
  <2>1. ExpectedEvents(done[l]) \in Seq(Event)
    BY ExpectedFacts
  <2> QED BY <1>7, <2>1 DEF TruncateJournal
<1>8. CASE StartLane(l)
  <2>1. <<"started", Item(l)>> \in Event
    BY ItemType, EventFacts
  <2>2. AppendJournal(l, <<"started", Item(l)>>)
    BY <1>8 DEF StartLane
  <2>3. events' \in [Launchers -> Seq(Event)] /\ journal' \in Seq(Event)
    BY <2>1, <2>2, JournalType
  <2> QED BY <1>8, <2>3 DEF StartLane
<1>9. CASE Spawn(l) \/ ChildEnds(l)
  <2> DEFINE written(b) == {[run |-> Run, ok |-> b]}
  <2>1. written(TRUE) \in SUBSET [run : Nat, ok : BOOLEAN] /\ written(FALSE) \in SUBSET [run : Nat, ok : BOOLEAN]
    <3>1. Run \in Nat
      BY ItemType DEF TypeInv
    <3> QED BY <3>1, RunRecords
  <2>2. \/ output' = output
        \/ output' = [output EXCEPT ![Item(l)] = written(TRUE)]
        \/ output' = [output EXCEPT ![Item(l)] = written(FALSE)]
    BY <1>9 DEF Spawn, ChildEnds
  <2>3. output' \in [Items -> SUBSET [run : Nat, ok : BOOLEAN]]
    <3> HIDE DEF written
    <3> QED BY <2>1, <2>2
  <2>4. logs' \subseteq Items
    BY <1>9, <1>s DEF Spawn, ChildEnds
  <2>5. pc' \in [Launchers -> Places]
    BY <1>9 DEF Spawn, ChildEnds
  <2> QED BY <1>9, <2>3, <2>4, <2>5 DEF Spawn, ChildEnds
<1>10. CASE RecordEnd(l)
  <2>1. <<"ended", Item(l), Run>> \in Event
    BY ItemType, EventFacts
  <2>2. AppendJournal(l, <<"ended", Item(l), Run>>)
    BY <1>10 DEF RecordEnd
  <2>3. events' \in [Launchers -> Seq(Event)] /\ journal' \in Seq(Event)
    BY <2>1, <2>2, JournalType
  <2> QED BY <1>10, <2>3 DEF RecordEnd
<1>11. CASE Validate(l)
  <2>1. <<"validated", Item(l), Run>> \in Event
    BY ItemType, EventFacts
  <2>2. AppendJournal(l, <<"validated", Item(l), Run>>)
    BY <1>11 DEF Validate
  <2>3. events' \in [Launchers -> Seq(Event)] /\ journal' \in Seq(Event)
    BY <2>1, <2>2, JournalType
  <2>4. Append(done[l], Run) \in Seq(Nat)
    BY ItemType, AppendProperties
  <2> QED BY <1>11, <2>3, <2>4 DEF Validate
<1>12. CASE WriteCheckpoint(l)
  BY <1>12 DEF WriteCheckpoint
<1>13. CASE WriteReport(l)
  <2>1. [checkpoint |-> checkpoint, history |-> history] \in Report
    BY DEF Report
  <2> QED BY <1>13, <2>1 DEF WriteReport
<1>14. CASE Close(l)
  <2>1. [report |-> report, journal |-> journal] \in [report : SUBSET Report, journal : Seq(Event)]
    OBVIOUS
  <2> QED BY <1>14, <2>1 DEF Close
<1>15. CASE HandlerUnlinks(l)
  BY <1>15 DEF HandlerUnlinks
<1> QED
  BY <1>1, <1>2, <1>3, <1>4, <1>5, <1>6, <1>7, <1>8, <1>9, <1>10, <1>11, <1>12, <1>13,
     <1>14, <1>15 DEF Proceed, Unwriting

-----------------------------------------------------------------------------
(* The lock, and the launcher that creates the matrix.                       *)

\* The steps of main under the lock, in the order of the code: a step that
\* begins or ends with the files that a matrix in the making can have.
Early(l) ==
  \/ MarkFresh(l) \/ StartJournal(l) \/ Load(l) \/ HandlerUnlinks(l) \/ WriteFailure(l)
  \/ Fault(l)
Saving(l) == FirstCheckpoint(l) \/ WriteCheckpoint(l)
Working(l) ==
  \/ NewAttempt(l) \/ ArchiveFile(l) \/ SealArchive(l) \/ TruncateJournal(l) \/ MarkResumed(l)
  \/ StartLane(l) \/ StartComparison(l) \/ Spawn(l) \/ ChildEnds(l) \/ RecordEnd(l)
  \/ Validate(l) \/ WriteReport(l) \/ Unmark(l) \/ Close(l) \/ Verify(l)
InMain(l) == Early(l) \/ Saving(l) \/ Working(l)
Entering(l) ==
  \/ Fresh(l) \/ Resume(l) \/ Acquire(l) \/ LockIsHeld(l) \/ Exit(l) \/ Crash(l)

\* Every step is of one of the two kinds.
LEMMA Steps ==
  ASSUME NEW l \in Launchers
  PROVE  Fresh(l) \/ Resume(l) \/ Proceed(l) \/ Fault(l) \/ Crash(l) => InMain(l) \/ Entering(l)
BY DEF Proceed, InMain, Early, Saving, Working, Entering

\* A step in main stays in main and leaves the other launchers alone.
LEMMA InMainFrame ==
  ASSUME TypeInv, NEW l \in Launchers, InMain(l)
  PROVE  /\ pc[l] \notin Outside /\ pc'[l] \notin Outside
         /\ owner' = owner /\ created' = created
         /\ \A m \in Launchers \ {l} : pc'[m] = pc[m]
<1> USE DEF TypeInv, Step, Goto, Outside, files
<1>1. CASE Early(l)
  BY <1>1 DEF Early, MarkFresh, StartJournal, Load, HandlerUnlinks, WriteFailure, Fault, Guarded
<1>2. CASE Saving(l)
  BY <1>2 DEF Saving, FirstCheckpoint, WriteCheckpoint
<1>3. CASE Working(l)
  <2>1. CASE NewAttempt(l) \/ ArchiveFile(l) \/ SealArchive(l) \/ TruncateJournal(l) \/ MarkResumed(l)
    BY <2>1 DEF NewAttempt, ArchiveFile, SealArchive, TruncateJournal, MarkResumed
  <2>2. CASE StartLane(l) \/ StartComparison(l) \/ Spawn(l) \/ ChildEnds(l) \/ RecordEnd(l)
    BY <2>2 DEF StartLane, StartComparison, Spawn, ChildEnds, RecordEnd
  <2>3. CASE Validate(l) \/ WriteReport(l) \/ Unmark(l) \/ Close(l) \/ Verify(l)
    BY <2>3 DEF Validate, WriteReport, Unmark, Close, Verify
  <2> QED BY <1>3, <2>1, <2>2, <2>3 DEF Working
<1> QED
  BY <1>1, <1>2, <1>3 DEF InMain

\* The lock is held by at most one launcher, the one in main.
LEMMA LockStep ==
  ASSUME Inv, NEW l \in Launchers, InMain(l) \/ Entering(l)
  PROVE  LockInv'
<1>1. TypeInv /\ LockInv
  BY DEF Inv
<1>2. CASE InMain(l)
  BY <1>1, <1>2, InMainFrame DEF LockInv, TypeInv
<1>3. CASE Fresh(l) \/ Resume(l) \/ LockIsHeld(l)
  BY <1>1, <1>3 DEF LockInv, TypeInv, Fresh, Resume, LockIsHeld, Step, Goto, Outside, files
<1>4. CASE Acquire(l)
  BY <1>1, <1>4 DEF LockInv, TypeInv, Acquire, Step, Goto, Outside, files
<1>5. CASE Exit(l) \/ Crash(l)
  BY <1>1, <1>5 DEF LockInv, TypeInv, Exit, Crash, Goto, Outside, files
<1> QED
  BY <1>2, <1>3, <1>4, <1>5 DEF Entering

\* While one launcher is in main the others are outside.
LEMMA OthersOutside ==
  ASSUME TypeInv, LockInv, NEW l \in Launchers, pc[l] \notin Outside
  PROVE  \A m \in Launchers \ {l} : pc[m] \in Outside
BY DEF TypeInv, LockInv

\* Where a step of main that is not one of the first comes from.
LEMMA WorkingPlaces ==
  ASSUME TypeInv, NEW l \in Launchers, Working(l)
  PROVE  /\ pc[l] \in Loaded /\ checkpoint' = checkpoint
         /\ pc'[l] \in Loaded \cup {"checkpoint", "fail"}
<1> USE DEF TypeInv, Step, Goto, Loaded, Attempting, files
<1>1. CASE NewAttempt(l) \/ ArchiveFile(l) \/ SealArchive(l) \/ TruncateJournal(l) \/ MarkResumed(l)
  BY <1>1 DEF NewAttempt, ArchiveFile, SealArchive, TruncateJournal, MarkResumed
<1>2. CASE StartLane(l) \/ StartComparison(l) \/ Spawn(l) \/ ChildEnds(l) \/ RecordEnd(l)
  BY <1>2 DEF StartLane, StartComparison, Spawn, ChildEnds, RecordEnd
<1>3. CASE Validate(l) \/ WriteReport(l) \/ Unmark(l) \/ Close(l) \/ Verify(l)
  BY <1>3 DEF Validate, WriteReport, Unmark, Close, Verify
<1> QED
  BY <1>1, <1>2, <1>3 DEF Working

\* Without a checkpoint, the steps before it leave nothing to resume.
LEMMA EarlyPlaces ==
  ASSUME TypeInv, NEW l \in Launchers, Early(l)
  PROVE  /\ UNCHANGED <<checkpoint, output, logs, report, history>>
         /\ complete' \in {complete, {}}
         /\ pc'[l] \in Opening => pc[l] \in Opening
         /\ checkpoint = {} => pc'[l] \in Opening \cup Leaving
<1> USE DEF TypeInv, Step, Goto, Opening, Leaving, files, closure, artifacts
<1>1. CASE MarkFresh(l) \/ StartJournal(l)
  BY <1>1 DEF MarkFresh, StartJournal
<1>2. CASE Load(l)
  BY <1>2 DEF Load, Resumable
<1>3. CASE HandlerUnlinks(l) \/ WriteFailure(l) \/ Fault(l)
  BY <1>3 DEF HandlerUnlinks, WriteFailure, Fault, Guarded
<1> QED
  BY <1>1, <1>2, <1>3 DEF Early

\* Creating the matrix stays exclusive.
LEMMA OpeningStep ==
  ASSUME Inv, NEW l \in Launchers, InMain(l) \/ Entering(l)
  PROVE  OpeningInv'
<1>1. TypeInv /\ OpeningInv
  BY DEF Inv
<1>2. CASE Early(l)
  <2>1. /\ pc[l] \notin Outside /\ pc'[l] \notin Outside /\ created' = created
        /\ \A m \in Launchers \ {l} : pc'[m] = pc[m]
    BY <1>1, <1>2, InMainFrame DEF InMain
  <2>2. created
    BY <1>1, <2>1 DEF OpeningInv, Outside
  <2>3. /\ UNCHANGED <<checkpoint, output, logs, report>>
        /\ complete' \in {complete, {}}
        /\ pc'[l] \in Opening => pc[l] \in Opening
        /\ checkpoint = {} => pc'[l] \in Opening \cup Leaving
    BY <1>1, <1>2, EarlyPlaces
  <2>4. pc'[l] # "lock fresh"
    BY <2>1 DEF Outside
  <2> QED BY <1>1, <2>1, <2>2, <2>3, <2>4 DEF OpeningInv, Clean
<1>3. CASE Working(l)
  <2>1. /\ pc[l] \notin Outside /\ pc'[l] \notin Outside /\ created' = created
        /\ \A m \in Launchers \ {l} : pc'[m] = pc[m]
    BY <1>1, <1>3, InMainFrame DEF InMain
  <2>2. /\ pc[l] \in Loaded /\ checkpoint' = checkpoint
        /\ pc'[l] \in Loaded \cup {"checkpoint", "fail"}
    BY <1>1, <1>3, WorkingPlaces
  <2>3. created /\ checkpoint # {}
    BY <1>1, <2>1, <2>2 DEF OpeningInv, Outside, Loaded, Attempting, Opening, Leaving
  <2>4. pc'[l] \notin {"lock fresh"} \cup Opening
    BY <2>2 DEF Loaded, Attempting, Opening
  <2> QED BY <1>1, <2>1, <2>2, <2>3, <2>4 DEF OpeningInv
<1>4. CASE Saving(l)
  <2>1. /\ pc[l] \notin Outside /\ pc'[l] \notin Outside /\ created' = created
        /\ \A m \in Launchers \ {l} : pc'[m] = pc[m]
    BY <1>1, <1>4, InMainFrame DEF InMain
  <2>2. created
    BY <1>1, <2>1 DEF OpeningInv, Outside
  <2>3. checkpoint' # {} /\ pc'[l] = "next"
    BY <1>1, <1>4 DEF Saving, FirstCheckpoint, WriteCheckpoint, Step, Goto, TypeInv
  <2>4. \A m \in Launchers \ {l} : pc[m] \notin {"lock fresh"} \cup Opening
    <3>1. CASE FirstCheckpoint(l)
      <4>1. pc[l] \in {"lock fresh"} \cup Opening
        BY <3>1 DEF FirstCheckpoint, Step, Opening
      <4> QED BY <1>1, <4>1 DEF OpeningInv
    <3>2. CASE WriteCheckpoint(l)
      <4>1. pc[l] = "checkpoint"
        BY <3>2 DEF WriteCheckpoint, Step
      <4>2. checkpoint # {}
        BY <1>1, <4>1 DEF OpeningInv, Outside, Opening, Leaving
      <4> QED BY <1>1, <4>2 DEF OpeningInv
    <3> QED BY <1>4, <3>1, <3>2 DEF Saving
  <2> QED BY <1>1, <2>1, <2>2, <2>3, <2>4 DEF OpeningInv, Opening
<1>5. CASE Fresh(l)
  <2>1. /\ \A m \in Launchers : pc[m] = "idle" /\ pc'[m] = IF m = l THEN "lock fresh" ELSE "idle"
        /\ checkpoint' = {} /\ created'
        /\ UNCHANGED <<checkpoint, output, logs, report, complete>>
    BY <1>1, <1>5 DEF OpeningInv, TypeInv, Fresh, Step, Goto, closure, artifacts
  <2> QED BY <1>1, <2>1 DEF OpeningInv, Clean, Outside, Opening
<1>6. CASE Resume(l) \/ LockIsHeld(l) \/ Exit(l) \/ Crash(l)
  <2>1. /\ pc'[l] \in {"idle", "lock resume"} /\ \A m \in Launchers \ {l} : pc'[m] = pc[m]
        /\ pc'[l] = "idle" \/ created
        /\ UNCHANGED <<created, checkpoint, output, logs, report, complete>>
    BY <1>1, <1>6 DEF TypeInv, Resume, LockIsHeld, Exit, Crash, Step, Goto, files, closure, artifacts
  <2> QED BY <1>1, <2>1 DEF OpeningInv, Clean, Outside, Opening
<1>7. CASE Acquire(l)
  <2>1. /\ \/ pc[l] = "lock fresh" /\ pc'[l] = "mark fresh"
           \/ pc[l] = "lock resume" /\ pc'[l] = "load"
        /\ \A m \in Launchers \ {l} : pc'[m] = pc[m]
        /\ UNCHANGED <<created, checkpoint, output, logs, report, complete>>
    BY <1>1, <1>7 DEF TypeInv, Acquire, Step, Goto, files, closure, artifacts
  <2> QED BY <1>1, <2>1 DEF OpeningInv, Clean, Outside, Opening
<1> QED
  BY <1>2, <1>3, <1>4, <1>5, <1>6, <1>7 DEF InMain, Entering

-----------------------------------------------------------------------------
(* What a resume asks of the files.                                          *)

\* A prefix stays a prefix when an event is appended.
LEMMA PrefixOfAppend ==
  ASSUME NEW E, NEW s \in Seq(E), NEW t \in Seq(E), NEW e \in E, IsPrefix(s, t)
  PROVE  IsPrefix(s, Append(t, e))
<1>1. /\ Len(s) \in Nat /\ Len(t) \in Nat /\ Len(s) <= Len(t)
      /\ SubSeq(s, 1, Len(s)) = SubSeq(t, 1, Len(s))
      /\ Append(t, e) \in Seq(E) /\ Len(Append(t, e)) = Len(t) + 1
  BY AppendProperties DEF IsPrefix
<1>2. SubSeq(Append(t, e), 1, Len(s)) = SubSeq(t, 1, Len(s))
  <2>1. CASE Len(s) = 0
    BY <1>1, <2>1, SubSeqEmpty
  <2>2. CASE Len(s) # 0
    <3>1. 1 \in 1..Len(t) /\ Len(s) \in 1..Len(t) /\ <<e>> \in Seq(E)
      BY <1>1, <2>2
    <3>2. SubSeq(t \o <<e>>, 1, Len(s)) = SubSeq(t, 1, Len(s))
      BY <3>1, SubSeqOfConcat1
    <3>3. Append(t, e) = t \o <<e>>
      BY AppendIsConcat
    <3> QED BY <3>2, <3>3
  <2> QED BY <2>1, <2>2
<1> QED
  BY <1>1, <1>2 DEF IsPrefix

\* A step that touches the files of the unfinished item only.
LEMMA ItemOnly ==
  ASSUME Inv, NEW l \in Launchers, checkpoint = {done[l]},
         UNCHANGED <<checkpoint, journal>>,
         \A i \in Items : i # Item(l) => output'[i] = output[i] /\ (i \in logs' <=> i \in logs)
  PROVE  CheckpointInv'
<1>1. Item(l) = Len(done[l]) + 1 /\ Len(done[l]) \in Nat /\ Len(done[l]) <= Total
  BY ItemType DEF Item, Inv, CheckpointInv
<1>2. \A i \in 1..Len(done[l]) : i \in Items /\ i # Item(l)
  BY <1>1, MatrixAssumption DEF Items, Total
<1>3. \A i \in 1..Len(done[l]) : output'[i] = {[run |-> done[l][i], ok |-> TRUE]} /\ i \in logs'
  BY <1>2 DEF Inv, CheckpointInv, ResultsIntact
<1>4. \A d \in checkpoint' : /\ d = done[l]
                             /\ IsPrefix(ExpectedEvents(d), journal')
  BY DEF Inv, CheckpointInv
<1>5. \A i \in Items : i > Len(done[l]) + 1 => output'[i] = {} /\ i \notin logs'
  BY <1>1 DEF Inv, CheckpointInv, Clean
<1> QED
  BY <1>1, <1>3, <1>4, <1>5 DEF CheckpointInv, ResultsIntact, Clean

\* A step that only writes the journal of the one checkpoint.
LEMMA JournalOnly ==
  ASSUME Inv, NEW l \in Launchers, checkpoint = {done[l]},
         UNCHANGED <<checkpoint, output, logs>>,
         IsPrefix(ExpectedEvents(done[l]), journal')
  PROVE  CheckpointInv'
BY DEF Inv, CheckpointInv, ResultsIntact, Clean

\* A step that appends an event to the journal of a running item.
LEMMA AppendOnly ==
  ASSUME Inv, NEW l \in Launchers, checkpoint = {done[l]}, journal = events[l],
         NEW event \in Event, AppendJournal(l, event), UNCHANGED <<checkpoint, output, logs>>
  PROVE  CheckpointInv'
<1>1. TypeInv /\ done[l] \in Seq(Nat) /\ events[l] \in Seq(Event)
  BY DEF Inv, TypeInv
<1>2. ExpectedEvents(done[l]) \in Seq(Event)
  BY <1>1, ExpectedFacts
<1>3. IsPrefix(ExpectedEvents(done[l]), events[l])
  BY DEF Inv, CheckpointInv
<1>4. IsPrefix(ExpectedEvents(done[l]), Append(events[l], event))
  BY <1>1, <1>2, <1>3, PrefixOfAppend
<1>5. journal' = Append(events[l], event)
  BY <1>1, JournalType
<1> QED
  BY <1>4, <1>5, JournalOnly

\* The steps that write none of the files a resume reads.
LEMMA UnreadFiles ==
  ASSUME NEW l \in Launchers,
         \/ Entering(l) \/ (Early(l) /\ ~ StartJournal(l))
         \/ NewAttempt(l) \/ SealArchive(l) \/ MarkResumed(l) \/ StartComparison(l)
         \/ WriteReport(l) \/ Unmark(l) \/ Close(l) \/ Verify(l)
  PROVE  UNCHANGED <<checkpoint, journal, output, logs>>
<1>1. CASE Entering(l)
  BY <1>1 DEF Entering, Fresh, Resume, Acquire, LockIsHeld, Exit, Crash, files, artifacts
<1>2. CASE Early(l) /\ ~ StartJournal(l)
  BY <1>2 DEF Early, MarkFresh, Load, HandlerUnlinks, WriteFailure, Fault, files, artifacts
<1>3. CASE NewAttempt(l) \/ SealArchive(l) \/ MarkResumed(l) \/ StartComparison(l)
  BY <1>3 DEF NewAttempt, SealArchive, MarkResumed, StartComparison, files, artifacts
<1>4. CASE WriteReport(l) \/ Unmark(l) \/ Close(l) \/ Verify(l)
  BY <1>4 DEF WriteReport, Unmark, Close, Verify, files, artifacts
<1> QED
  BY <1>1, <1>2, <1>3, <1>4

\* Every step keeps the matrix resumable.
LEMMA CheckpointStep ==
  ASSUME Inv, NEW l \in Launchers, InMain(l) \/ Entering(l)
  PROVE  CheckpointInv'
<1>1. TypeInv /\ OpeningInv /\ CheckpointInv /\ Progress(l)
  BY DEF Inv
<1>2. CASE UNCHANGED <<checkpoint, journal, output, logs>>
  BY <1>1, <1>2 DEF CheckpointInv, ResultsIntact, Clean
<1>3. CASE StartJournal(l)
  <2>1. checkpoint = {} /\ checkpoint' = {}
    BY <1>1, <1>3 DEF StartJournal, Step, OpeningInv, Opening
  <2> QED BY <2>1 DEF CheckpointInv
<1>4. CASE FirstCheckpoint(l)
  <2>1. checkpoint = {} /\ journal = ExpectedEvents(<<>>)
    BY <1>1, <1>4 DEF FirstCheckpoint, Step, OpeningInv, Opening, Progress, Journal
  <2>2. /\ checkpoint' = {<<>>} /\ UNCHANGED <<journal, output, logs>>
        /\ \A i \in Items : Clean(i)
    BY <1>1, <1>4, <2>1 DEF FirstCheckpoint, OpeningInv, artifacts
  <2>3. <<>> \in Seq(Nat) /\ Len(<<>>) = 0
    BY EmptySeq
  <2>4. IsPrefix(ExpectedEvents(<<>>), ExpectedEvents(<<>>))
    BY <2>3, ExpectedFacts, PrefixOfConcat
  <2>5. 0 <= Total
    BY MatrixAssumption DEF Total
  <2> QED BY <2>1, <2>2, <2>3, <2>4, <2>5 DEF CheckpointInv, ResultsIntact, Clean
<1>5. CASE ArchiveFile(l) \/ Spawn(l) \/ ChildEnds(l)
  <2>1. checkpoint = {done[l]}
    BY <1>1, <1>5 DEF ArchiveFile, Spawn, ChildEnds, Step, Progress, Loaded, Attempting
  <2>2. UNCHANGED <<checkpoint, journal>>
    BY <1>5 DEF ArchiveFile, Spawn, ChildEnds
  <2>3. \A i \in Items : i # Item(l) => output'[i] = output[i] /\ (i \in logs' <=> i \in logs)
    BY <1>1, <1>5 DEF ArchiveFile, Spawn, ChildEnds, artifacts, TypeInv
  <2> QED BY <2>1, <2>2, <2>3, ItemOnly
<1>6. CASE TruncateJournal(l)
  <2>1. checkpoint = {done[l]} /\ done[l] \in Seq(Nat)
    BY <1>1, <1>6 DEF TruncateJournal, Step, Progress, Loaded, Attempting, TypeInv
  <2>2. UNCHANGED <<checkpoint, output, logs>> /\ journal' = ExpectedEvents(done[l])
    BY <1>1, <1>6 DEF TruncateJournal, artifacts, TypeInv
  <2>3. IsPrefix(ExpectedEvents(done[l]), ExpectedEvents(done[l]))
    BY <2>1, ExpectedFacts, PrefixOfConcat
  <2> QED BY <2>1, <2>2, <2>3, JournalOnly
<1>7. CASE StartLane(l)
  <2>1. checkpoint = {done[l]} /\ journal = events[l]
    BY <1>1, <1>7 DEF StartLane, Step, Progress, Journal, Loaded, Attempting
  <2>2. <<"started", Item(l)>> \in Event
    BY <1>1, ItemType, EventFacts
  <2>3. AppendJournal(l, <<"started", Item(l)>>) /\ UNCHANGED <<checkpoint, output, logs>>
    BY <1>7 DEF StartLane, artifacts
  <2> QED BY <2>1, <2>2, <2>3, AppendOnly
<1>8. CASE RecordEnd(l)
  <2>1. checkpoint = {done[l]} /\ journal = events[l]
    BY <1>1, <1>8 DEF RecordEnd, Progress, Journal, Loaded, Attempting
  <2>2. <<"ended", Item(l), Run>> \in Event
    BY <1>1, ItemType, EventFacts
  <2>3. AppendJournal(l, <<"ended", Item(l), Run>>) /\ UNCHANGED <<checkpoint, output, logs>>
    BY <1>8 DEF RecordEnd, artifacts
  <2> QED BY <2>1, <2>2, <2>3, AppendOnly
<1>9. CASE Validate(l)
  <2>1. checkpoint = {done[l]} /\ journal = events[l]
    BY <1>1, <1>9 DEF Validate, Step, Progress, Journal, Loaded, Attempting
  <2>2. <<"validated", Item(l), Run>> \in Event
    BY <1>1, ItemType, EventFacts
  <2>3. AppendJournal(l, <<"validated", Item(l), Run>>) /\ UNCHANGED <<checkpoint, output, logs>>
    BY <1>9 DEF Validate, artifacts
  <2> QED BY <2>1, <2>2, <2>3, AppendOnly
<1>10. CASE WriteCheckpoint(l)
  <2>1. /\ \E d \in Seq(Nat) : checkpoint = {d} /\ done[l] = Append(d, Run)
        /\ Len(done[l]) <= Total /\ ResultsIntact(done[l])
        /\ journal = ExpectedEvents(done[l])
    BY <1>1, <1>10 DEF WriteCheckpoint, Step, Progress, Journal
  <2>2. PICK d \in Seq(Nat) : checkpoint = {d} /\ done[l] = Append(d, Run)
    BY <2>1
  <2>3. checkpoint' = {done[l]} /\ UNCHANGED <<journal, output, logs>>
    BY <1>10 DEF WriteCheckpoint, artifacts
  <2>4. Len(d) \in Nat /\ Len(done[l]) = Len(d) + 1 /\ done[l] \in Seq(Nat)
    BY <1>1, <2>2, ItemType, AppendProperties
  <2>5. IsPrefix(ExpectedEvents(done[l]), ExpectedEvents(done[l]))
    BY <2>4, ExpectedFacts, PrefixOfConcat
  <2>6. \A i \in Items : i > Len(done[l]) + 1 => Clean(i)
    BY <1>1, <2>2, <2>4, MatrixAssumption DEF CheckpointInv, Items
  <2> QED BY <2>1, <2>3, <2>5, <2>6 DEF CheckpointInv, ResultsIntact, Clean
<1> QED
  BY <1>2, <1>3, <1>4, <1>5, <1>6, <1>7, <1>8, <1>9, <1>10, UnreadFiles
     DEF InMain, Early, Saving, Working

-----------------------------------------------------------------------------
(* The completion.                                                           *)

\* A step changes the history only to begin or to seal an attempt, and the
\* completion only to close the matrix or to reopen it.
LEMMA HistorySteps ==
  ASSUME Inv, NEW l \in Launchers, InMain(l) \/ Entering(l)
  PROVE  /\ Len(history) \in Nat
         /\ Len(history') = IF NewAttempt(l) THEN Len(history) + 1 ELSE Len(history)
         /\ ~ NewAttempt(l) /\ ~ SealArchive(l) => history' = history
         /\ ~ Close(l) => complete' \in {complete, {}}
<1>1. history \in Seq(BOOLEAN) /\ Len(history) \in Nat
  BY LenProperties DEF Inv, TypeInv
<1>2. CASE Entering(l)
  <2>1. UNCHANGED <<history, complete>>
    BY <1>2 DEF Entering, Fresh, Resume, Acquire, LockIsHeld, Exit, Crash, files, closure
  <2>2. ~ NewAttempt(l)
    BY <1>1, <1>2 DEF NewAttempt, Entering, Fresh, Resume, Acquire, LockIsHeld, Exit, Crash, Step,
       Goto, files, Inv, TypeInv
  <2> QED BY <1>1, <2>1, <2>2
<1>3. CASE NewAttempt(l)
  <2>1. Len(Append(history, FALSE)) = Len(history) + 1
    BY <1>1, AppendProperties
  <2> QED BY <1>1, <1>3, <2>1 DEF NewAttempt, closure
<1>4. CASE SealArchive(l)
  <2>1. Len(history') = Len(history)
    BY <1>1, <1>4, SealedHistory DEF SealArchive
  <2>2. ~ NewAttempt(l)
    BY <1>4 DEF NewAttempt, SealArchive, Step
  <2> QED BY <1>1, <1>4, <2>1, <2>2 DEF SealArchive, closure
<1>5. CASE InMain(l) /\ ~ NewAttempt(l) /\ ~ SealArchive(l)
  <2>1. CASE Early(l)
    BY <1>1, <1>5, <2>1 DEF Early, MarkFresh, StartJournal, Load, HandlerUnlinks, WriteFailure,
       Fault, files, closure
  <2>2. CASE Saving(l)
    BY <1>1, <1>5, <2>2 DEF Saving, FirstCheckpoint, WriteCheckpoint, closure
  <2>3. CASE ArchiveFile(l) \/ TruncateJournal(l) \/ MarkResumed(l) \/ StartLane(l)
             \/ StartComparison(l) \/ Spawn(l) \/ ChildEnds(l)
    BY <1>1, <1>5, <2>3 DEF ArchiveFile, TruncateJournal, MarkResumed, StartLane,
       StartComparison, Spawn, ChildEnds, files, closure
  <2>4. CASE RecordEnd(l) \/ Validate(l) \/ WriteReport(l) \/ Unmark(l) \/ Close(l) \/ Verify(l)
    BY <1>1, <1>5, <2>4 DEF RecordEnd, Validate, WriteReport, Unmark, Close, Verify, files, closure
  <2> QED BY <1>5, <2>1, <2>2, <2>3, <2>4 DEF InMain, Working
<1> QED
  BY <1>2, <1>3, <1>4, <1>5

\* A completion of an earlier attempt stays one.
LEMMA SupersededStays ==
  ASSUME Inv, NEW l \in Launchers, InMain(l) \/ Entering(l), Superseded,
         ~ Close(l) \/ complete' = complete
  PROVE  Superseded'
<1>1. /\ Len(history) \in Nat /\ Len(history') \in {Len(history), Len(history) + 1}
      /\ complete' \in {complete, {}}
  BY HistorySteps
<1>2. \A c \in complete : \A r \in c.report : Len(r.history) \in Nat
  <2> SUFFICES ASSUME NEW c \in complete, NEW r \in c.report PROVE Len(r.history) \in Nat
    OBVIOUS
  <2>1. r.history \in Seq(BOOLEAN)
    BY DEF Inv, TypeInv, Report
  <2> QED BY <2>1, LenProperties
<1> QED
  BY <1>1, <1>2 DEF Superseded

\* Nothing but closing completes a matrix, and closing binds what is there.
LEMMA CloseCompletes ==
  ASSUME Inv, NEW l \in Launchers, Close(l), complete' # complete
  PROVE  Verifiable' /\ \A m \in Launchers : pc'[m] \notin Attempting
<1>1. TypeInv /\ LockInv /\ CheckpointInv /\ Progress(l)
  BY DEF Inv
<1>2. /\ pc[l] = "close" /\ pc'[l] = "verify"
      /\ complete' = {[report |-> report, journal |-> journal]}
      /\ UNCHANGED <<journal, checkpoint, report, output, logs, history>>
      /\ \A m \in Launchers \ {l} : pc'[m] = pc[m]
  BY <1>1 DEF Close, Step, Goto, TypeInv, artifacts
<1>3. /\ checkpoint = {done[l]} /\ journal = ExpectedEvents(done[l])
      /\ Len(done[l]) = Total /\ EveryAttemptArchived
      /\ report = {[checkpoint |-> checkpoint, history |-> history]}
  BY <1>1, <1>2 DEF Progress, Journal, Loaded, Attempting
<1>4. ResultsIntact(done[l])
  BY <1>1, <1>3 DEF CheckpointInv
<1>5. Verifiable'
  BY <1>2, <1>3, <1>4 DEF Verifiable, ResultsIntact, EveryAttemptArchived, Total
<1>6. \A m \in Launchers \ {l} : pc[m] \in Outside
  BY <1>1, <1>2, OthersOutside DEF Outside
<1> QED
  BY <1>2, <1>5, <1>6 DEF Attempting, Outside

\* A completion without a later attempt is only read, reopened, or superseded.
LEMMA CompletionStep ==
  ASSUME Inv, NEW l \in Launchers, InMain(l) \/ Entering(l)
  PROVE  CompletionInv'
<1>1. TypeInv /\ LockInv /\ OpeningInv /\ CompletionInv /\ Progress(l)
  BY DEF Inv
<1>2. CASE Close(l) /\ complete' # complete
  BY <1>2, CloseCompletes DEF CompletionInv
<1>3. CASE Superseded /\ (~ Close(l) \/ complete' = complete)
  BY <1>3, SupersededStays DEF CompletionInv
<1>4. CASE ~ Superseded
  <2>1. Verifiable /\ \A m \in Launchers : pc[m] \notin Attempting
    BY <1>1, <1>4 DEF CompletionInv
  <2>2. checkpoint # {}
    BY <1>1, <1>4 DEF OpeningInv, Superseded
  <2>3. pc[l] \notin Opening
    BY <1>1, <2>2 DEF OpeningInv
  <2>4. CASE NewAttempt(l)
    <3>1. UNCHANGED <<complete, report>> /\ Len(history') = Len(history) + 1 /\ Len(history) \in Nat
      BY <2>4, HistorySteps DEF NewAttempt, closure
    <3>2. \A c \in complete : \A r \in c.report : r.history = history
      BY <2>1 DEF Verifiable
    <3>3. Superseded'
      BY <3>1, <3>2 DEF Superseded
    <3> QED BY <3>3 DEF CompletionInv
  <2>5. CASE HandlerUnlinks(l)
    BY <2>5 DEF HandlerUnlinks, CompletionInv, Superseded
  <2>6. CASE Entering(l) \/ Load(l) \/ Verify(l) \/ WriteFailure(l) \/ Fault(l)
    <3>1. UNCHANGED <<journal, checkpoint, report, complete, output, logs, history>>
      BY <2>6 DEF Entering, Fresh, Resume, Acquire, LockIsHeld, Exit, Crash, Load, Verify,
         WriteFailure, Fault, files, closure, artifacts
    <3>2. pc'[l] \notin Attempting /\ \A m \in Launchers \ {l} : pc'[m] = pc[m]
      BY <1>1, <2>6 DEF Entering, Fresh, Resume, Acquire, LockIsHeld, Exit, Crash, Load, Verify,
         WriteFailure, Fault, Step, Goto, Attempting, TypeInv
    <3>3. Verifiable'
      BY <2>1, <3>1 DEF Verifiable, EveryAttemptArchived, ResultsIntact
    <3> QED BY <2>1, <3>2, <3>3 DEF CompletionInv
  <2>7. CASE MarkFresh(l) \/ StartJournal(l) \/ FirstCheckpoint(l)
    BY <2>3, <2>7 DEF MarkFresh, StartJournal, FirstCheckpoint, Step, Opening
  <2>8. CASE WriteCheckpoint(l)
    BY <2>1, <2>8 DEF WriteCheckpoint, Step, Attempting
  <2>9. CASE Working(l) /\ ~ NewAttempt(l) /\ ~ Verify(l)
    <3>1. pc[l] \in Attempting
      BY <2>9 DEF Working, ArchiveFile, SealArchive, TruncateJournal, MarkResumed,
         StartLane, StartComparison, Spawn, ChildEnds, RecordEnd, Validate, WriteReport,
         Unmark, Close, Step, Attempting
    <3> QED BY <2>1, <3>1
  <2> QED BY <2>4, <2>5, <2>6, <2>7, <2>8, <2>9 DEF InMain, Early, Saving, Working
<1> QED
  BY <1>2, <1>3, <1>4

-----------------------------------------------------------------------------
(* The progress of the controller in main.                                   *)

\* Appending to a concatenation appends to its second part.
LEMMA AppendToConcat ==
  ASSUME NEW s \in Seq(Event), NEW t \in Seq(Event), NEW a \in Event
  PROVE  Append(s \o t, a) = s \o Append(t, a)
<1> DEFINE x == <<a>>
<1>1. x \in Seq(Event)
  OBVIOUS
<1>2. Append(t, a) = t \o x
  BY AppendIsConcat
<1>3. s \o t \in Seq(Event)
  BY ConcatProperties
<1>4. Append(s \o t, a) = (s \o t) \o x
  BY <1>3, AppendIsConcat
<1> HIDE DEF x
<1>5. (s \o t) \o x = s \o (t \o x)
  BY <1>1, ConcatAssociative
<1> QED
  BY <1>2, <1>4, <1>5

\* Two more events are two events appended.
LEMMA PairAppended ==
  ASSUME NEW t \in Seq(Event), NEW a \in Event, NEW b \in Event
  PROVE  t \o <<a, b>> = Append(Append(t, a), b)
<1> DEFINE x == <<a>>
           y == <<b>>
           z == <<a, b>>
<1>1. x \in Seq(Event) /\ y \in Seq(Event) /\ z \in Seq(Event)
  OBVIOUS
<1>2. /\ Len(x) = 1 /\ Len(y) = 1 /\ Len(z) = 2
      /\ z[1] = x[1] /\ z[2] = y[1]
  OBVIOUS
<1>3. Append(t, a) \in Seq(Event) /\ Append(t, a) = t \o x
  BY AppendIsConcat, AppendProperties
<1>4. Append(Append(t, a), b) = Append(t, a) \o y
  BY <1>3, AppendIsConcat
<1> HIDE DEF x, y, z
<1>5. x \o y = z
  <2>1. /\ x \o y \in Seq(Event) /\ Len(x \o y) = Len(x) + Len(y)
        /\ \A i \in 1..(Len(x) + Len(y)) : (x \o y)[i] = IF i <= Len(x) THEN x[i] ELSE y[i - Len(x)]
    BY <1>1, ConcatProperties
  <2>2. \A i \in 1..2 : (x \o y)[i] = z[i]
    BY <1>2, <2>1
  <2> QED BY <1>1, <1>2, <2>1, <2>2, SeqEqual
<1>6. (t \o x) \o y = t \o (x \o y)
  BY <1>1, ConcatAssociative
<1> QED
  BY <1>3, <1>4, <1>5, <1>6 DEF z

\* The journal of a validated item is the one that is expected of it.
LEMMA ValidatedJournal ==
  ASSUME NEW d \in Seq(Nat), NEW run \in Nat, NEW i \in Nat, i = Len(d) + 1
  PROVE  Append(Append(ExpectedEvents(d) \o Started(i), <<"ended", i, run>>), <<"validated", i, run>>)
           = ExpectedEvents(Append(d, run))
<1> DEFINE a == <<"ended", i, run>>
           b == <<"validated", i, run>>
           s == ExpectedEvents(d)
           t == Started(i)
<1>1. a \in Event /\ b \in Event
  BY EventFacts
<1>2. s \in Seq(Event) /\ ExpectedEvents(Append(d, run)) = s \o EventsOf(i, run)
  BY ExpectedFacts
<1>3. t \in Seq(Event) /\ EventsOf(i, run) = t \o <<a, b>>
  BY EventsOfItem
<1> HIDE DEF a, b, s, t
<1>4. t \o <<a, b>> = Append(Append(t, a), b)
  BY <1>1, <1>3, PairAppended
<1>5. Append(s \o t, a) = s \o Append(t, a)
  BY <1>1, <1>2, <1>3, AppendToConcat
<1>6. Append(t, a) \in Seq(Event)
  BY <1>1, <1>3, AppendProperties
<1>7. Append(s \o Append(t, a), b) = s \o Append(Append(t, a), b)
  BY <1>1, <1>2, <1>6, AppendToConcat
<1>8. Append(Append(s \o t, a), b) = ExpectedEvents(Append(d, run))
  BY <1>2, <1>3, <1>4, <1>5, <1>7
<1> QED
  BY <1>8 DEF a, b, s, t

\* Nothing is asked of a launcher outside of these places.
LEMMA NoProgress ==
  ASSUME NEW l \in Launchers,
         pc[l] \in Outside \cup Leaving \cup {"mark fresh", "start journal", "load"}
  PROVE  Progress(l)
BY DEF Progress, Outside, Leaving, Loaded, Attempting

\* The same in the next state.
LEMMA NoProgressNext ==
  ASSUME NEW l \in Launchers,
         pc'[l] \in Outside \cup Leaving \cup {"mark fresh", "start journal", "load"}
  PROVE  Progress(l)'
BY DEF Progress, Outside, Leaving, Loaded, Attempting

\* A launcher that does not step, while the files it has written stay.
LEMMA OtherProgress ==
  ASSUME NEW m \in Launchers, Progress(m),
         UNCHANGED <<journal, checkpoint, report, output, logs, history>>,
         pc'[m] = pc[m], done'[m] = done[m], events'[m] = events[m]
  PROVE  Progress(m)'
BY DEF Progress, Journal, Item, Run, Clean, ResultsIntact, EveryAttemptArchived

\* Creating a matrix.
LEMMA CreationProgress ==
  ASSUME Inv, NEW l \in Launchers, MarkFresh(l) \/ StartJournal(l) \/ FirstCheckpoint(l)
  PROVE  Progress(l)'
<1>1. TypeInv /\ OpeningInv /\ Progress(l)
  BY DEF Inv
<1>2. CASE MarkFresh(l)
  BY <1>1, <1>2, NoProgressNext DEF MarkFresh, Step, Goto, TypeInv
<1>3. CASE StartJournal(l)
  <2>1. /\ pc'[l] = "first checkpoint" /\ done'[l] = <<>>
        /\ events'[l] = ExpectedEvents(<<>>) /\ journal' = ExpectedEvents(<<>>)
    BY <1>1, <1>3 DEF StartJournal, Step, Goto, TypeInv
  <2> QED BY <2>1 DEF Progress, Journal, Loaded, Attempting
<1>4. CASE FirstCheckpoint(l)
  <2>1. /\ checkpoint = {} /\ done[l] = <<>>
        /\ journal = ExpectedEvents(<<>>) /\ events[l] = ExpectedEvents(<<>>)
    BY <1>1, <1>4 DEF FirstCheckpoint, Step, Progress, Journal, OpeningInv, Opening
  <2>2. /\ pc'[l] = "next" /\ checkpoint' = {<<>>}
        /\ UNCHANGED <<journal, done, events, output, logs>>
        /\ \A i \in Items : Clean(i)
    BY <1>1, <1>4, <2>1 DEF FirstCheckpoint, Step, Goto, TypeInv, OpeningInv, memory, artifacts
  <2> QED BY <2>1, <2>2 DEF Progress, Journal, Loaded, Attempting, Clean, Item
<1> QED
  BY <1>2, <1>3, <1>4

\* Resuming one: the interrupted item is cleaned before anything runs.
LEMMA ResumeProgress ==
  ASSUME Inv, NEW l \in Launchers,
         \/ Load(l) \/ NewAttempt(l) \/ ArchiveFile(l) \/ SealArchive(l)
         \/ TruncateJournal(l) \/ MarkResumed(l)
  PROVE  Progress(l)'
<1>1. TypeInv /\ CheckpointInv /\ Progress(l)
  BY DEF Inv
<1>2. CASE Load(l)
  <2>1. CASE Resumable
    <3>1. pc'[l] = "new attempt" /\ checkpoint' = {done'[l]}
      BY <1>1, <1>2, <2>1 DEF Load, Goto, TypeInv, CheckpointInv, Resumable, files
    <3> QED BY <3>1 DEF Progress, Loaded, Attempting
  <2>2. CASE ~ Resumable
    <3>1. pc'[l] \in {"exit", "fail"}
      BY <1>1, <1>2, <2>2 DEF Load, Goto, TypeInv
    <3> QED BY <3>1, NoProgressNext DEF Leaving
  <2> QED BY <2>1, <2>2
<1>3. CASE NewAttempt(l) \/ ArchiveFile(l)
  <2>1. pc'[l] = "archive" /\ checkpoint' = {done'[l]}
    BY <1>1, <1>3 DEF NewAttempt, ArchiveFile, Step, Goto, TypeInv, Progress, Loaded, Attempting,
       memory
  <2> QED BY <2>1 DEF Progress, Loaded, Attempting
<1>4. CASE SealArchive(l)
  <2>1. pc'[l] = "truncate" /\ checkpoint' = {done'[l]} /\ UNCHANGED <<done, output, logs>>
    BY <1>1, <1>4 DEF SealArchive, Step, Goto, TypeInv, Progress, Loaded, Attempting,
       memory, artifacts
  <2>2. ~ Present(l, "output") /\ ~ Present(l, "log")
    <3>1. Remaining(l) = {}
      BY <1>4 DEF SealArchive
    <3>2. 5 \in DOMAIN Candidates /\ 6 \in DOMAIN Candidates
          /\ Candidates[5] = "output" /\ Candidates[6] = "log"
      BY DEF Candidates
    <3> QED BY <3>1, <3>2 DEF Remaining
  <2>3. Item(l) \in Items => Clean(Item(l))
    BY <2>2 DEF Present, Clean
  <2> QED BY <2>1, <2>3 DEF Progress, Loaded, Attempting, Clean, Item
<1>5. CASE TruncateJournal(l)
  <2>1. /\ pc'[l] = "mark resumed" /\ checkpoint' = {done'[l]} /\ UNCHANGED <<done, output, logs>>
        /\ events'[l] = ExpectedEvents(done[l]) /\ journal' = ExpectedEvents(done[l])
        /\ Item(l) \in Items => Clean(Item(l))
    BY <1>1, <1>5 DEF TruncateJournal, Step, Goto, TypeInv, Progress, Loaded, Attempting, artifacts
  <2> QED BY <2>1 DEF Progress, Journal, Loaded, Attempting, Clean, Item
<1>6. CASE MarkResumed(l)
  <2>1. /\ pc'[l] = "next" /\ checkpoint' = {done'[l]}
        /\ UNCHANGED <<journal, done, events, output, logs>>
        /\ Journal(l, ExpectedEvents(done[l]))
        /\ Item(l) \in Items => Clean(Item(l))
    BY <1>1, <1>6 DEF MarkResumed, Step, Goto, TypeInv, Progress, Loaded, Attempting, memory, artifacts
  <2> QED BY <2>1 DEF Progress, Journal, Loaded, Attempting, Clean, Item
<1> QED
  BY <1>2, <1>3, <1>4, <1>5, <1>6

\* Starting an item.
LEMMA StartProgress ==
  ASSUME Inv, NEW l \in Launchers, StartLane(l) \/ StartComparison(l)
  PROVE  Progress(l)'
<1>1. TypeInv /\ Progress(l) /\ done[l] \in Seq(Nat) /\ Item(l) \in Nat \ {0}
  BY ItemType DEF Inv, TypeInv
<1>2. ExpectedEvents(done[l]) \in Seq(Event)
  BY <1>1, ExpectedFacts
<1>3. /\ pc[l] = "next" /\ pc'[l] = "spawn"
      /\ UNCHANGED <<checkpoint, done, output, logs>>
  BY <1>1 DEF StartLane, StartComparison, Step, Goto, TypeInv, files, memory, artifacts
<1>4. /\ checkpoint = {done[l]} /\ (Item(l) \in Items => Clean(Item(l)))
      /\ events[l] = ExpectedEvents(done[l]) /\ journal = ExpectedEvents(done[l])
  BY <1>1, <1>3 DEF Progress, Journal, Loaded, Attempting
<1>5. Item(l) \in Items
  BY <1>1, MatrixAssumption DEF StartLane, StartComparison, Items
<1>6. /\ events'[l] = ExpectedEvents(done[l]) \o Started(Item(l))
      /\ journal' = ExpectedEvents(done[l]) \o Started(Item(l))
  <2>1. CASE StartLane(l)
    <3> DEFINE a == <<"started", Item(l)>>
    <3>1. a \in Event
      BY <1>1, EventFacts
    <3>2. AppendJournal(l, a) /\ Started(Item(l)) = <<a>>
      BY <2>1 DEF StartLane, Started
    <3> HIDE DEF a
    <3>3. events'[l] = Append(events[l], a) /\ journal' = Append(events[l], a)
      BY <1>1, <3>1, <3>2, JournalType
    <3>4. Append(ExpectedEvents(done[l]), a) = ExpectedEvents(done[l]) \o <<a>>
      BY <1>2, <3>1, AppendIsConcat
    <3> QED BY <1>4, <3>2, <3>3, <3>4
  <2>2. CASE StartComparison(l)
    <3>1. Started(Item(l)) = <<>> /\ UNCHANGED <<events, journal>>
      BY <1>1, <2>2, MatrixAssumption DEF StartComparison, Started, files, memory
    <3>2. ExpectedEvents(done[l]) \o <<>> = ExpectedEvents(done[l])
      BY <1>2, ConcatEmptySeq
    <3> QED BY <1>4, <3>1, <3>2
  <2> QED BY <2>1, <2>2
<1> QED
  BY <1>3, <1>4, <1>5, <1>6 DEF Progress, Journal, Loaded, Attempting, Clean, Item

\* Running it.
LEMMA RunProgress ==
  ASSUME Inv, NEW l \in Launchers, Spawn(l) \/ ChildEnds(l) \/ RecordEnd(l)
  PROVE  Progress(l)'
<1>1. TypeInv /\ Progress(l) /\ Item(l) \in Nat \ {0} /\ Run \in Nat
  BY ItemType DEF Inv
<1>2. CASE pc'[l] \in Leaving
  BY <1>2, NoProgressNext
<1>3. CASE Spawn(l) /\ pc'[l] \notin Leaving
  <2>1. /\ pc[l] = "spawn" /\ pc'[l] = "run" /\ logs' = logs \cup {Item(l)}
        /\ UNCHANGED <<checkpoint, journal, done, events>>
    BY <1>1, <1>3 DEF Spawn, Goto, TypeInv, Leaving, memory
  <2>2. /\ checkpoint = {done[l]} /\ Item(l) \in Items
        /\ Journal(l, ExpectedEvents(done[l]) \o Started(Item(l)))
    BY <1>1, <2>1 DEF Progress, Loaded, Attempting
  <2> QED BY <2>1, <2>2 DEF Progress, Journal, Loaded, Attempting, Item
<1>4. CASE ChildEnds(l)
  <2>1. /\ pc[l] = "run" /\ pc'[l] = "ended"
        /\ UNCHANGED <<checkpoint, journal, logs, done, events>>
    BY <1>1, <1>4 DEF ChildEnds, Step, Goto, TypeInv, memory
  <2>2. /\ checkpoint = {done[l]} /\ Item(l) \in Items /\ Item(l) \in logs
        /\ Journal(l, ExpectedEvents(done[l]) \o Started(Item(l)))
    BY <1>1, <2>1 DEF Progress, Loaded, Attempting
  <2> QED BY <2>1, <2>2 DEF Progress, Journal, Loaded, Attempting, Item
<1>5. CASE RecordEnd(l) /\ pc'[l] \notin Leaving
  <2> DEFINE a == <<"ended", Item(l), Run>>
  <2>1. /\ pc[l] = "ended" /\ pc'[l] = "validate"
        /\ output[Item(l)] = {[run |-> Run, ok |-> TRUE]}
        /\ UNCHANGED <<checkpoint, output, logs, history, done>>
        /\ AppendJournal(l, a)
    BY <1>1, <1>5 DEF RecordEnd, Goto, TypeInv, Leaving, artifacts
  <2>2. /\ checkpoint = {done[l]} /\ Item(l) \in Items /\ Item(l) \in logs
        /\ events[l] = ExpectedEvents(done[l]) \o Started(Item(l))
    BY <1>1, <2>1 DEF Progress, Journal, Loaded, Attempting
  <2>3. a \in Event
    BY <1>1, EventFacts
  <2>4. events'[l] = Append(events[l], a) /\ journal' = Append(events[l], a)
    <3> HIDE DEF a
    <3> QED BY <1>1, <2>1, <2>3, JournalType
  <2> QED BY <2>1, <2>2, <2>4 DEF Progress, Journal, Loaded, Attempting, Item, Run
<1> QED
  BY <1>2, <1>3, <1>4, <1>5

\* Completing it: the result and its events go into the checkpoint together.
LEMMA CompleteProgress ==
  ASSUME Inv, NEW l \in Launchers, Validate(l) \/ WriteCheckpoint(l)
  PROVE  Progress(l)'
<1>1. /\ TypeInv /\ CheckpointInv /\ Progress(l) /\ done[l] \in Seq(Nat)
      /\ Item(l) \in Nat \ {0} /\ Len(done[l]) \in Nat /\ Run \in Nat
  BY ItemType DEF Inv, TypeInv
<1>2. CASE Validate(l)
  <2> DEFINE a == <<"ended", Item(l), Run>>
             b == <<"validated", Item(l), Run>>
  <2>1. /\ pc[l] = "validate" /\ pc'[l] = "checkpoint"
        /\ done'[l] = Append(done[l], Run)
        /\ UNCHANGED <<checkpoint, output, logs, history>>
        /\ AppendJournal(l, b)
    BY <1>1, <1>2 DEF Validate, Step, Goto, TypeInv, artifacts
  <2>2. /\ checkpoint = {done[l]} /\ Item(l) \in Items /\ Item(l) \in logs
        /\ output[Item(l)] = {[run |-> Run, ok |-> TRUE]}
        /\ events[l] = Append(ExpectedEvents(done[l]) \o Started(Item(l)), a)
    BY <1>1, <2>1 DEF Progress, Journal, Loaded, Attempting
  <2>3. events'[l] = Append(events[l], b) /\ journal' = Append(events[l], b)
    <3>1. b \in Event
      BY <1>1, EventFacts
    <3> HIDE DEF b
    <3> QED BY <1>1, <2>1, <3>1, JournalType
  <2>4. Append(Append(ExpectedEvents(done[l]) \o Started(Item(l)), a), b)
          = ExpectedEvents(Append(done[l], Run))
    BY <1>1, ValidatedJournal DEF Item
  <2>5. Journal(l, ExpectedEvents(done[l]))'
    <3> HIDE DEF a, b
    <3> QED BY <2>1, <2>2, <2>3, <2>4 DEF Journal
  <2>6. /\ Len(done'[l]) = Item(l)
        /\ \A i \in 1..Len(done[l]) : done'[l][i] = done[l][i]
        /\ done'[l][Item(l)] = Run
    BY <1>1, <2>1, AppendProperties DEF Item
  <2>7. ResultsIntact(done[l])
    BY <1>1, <2>2 DEF CheckpointInv
  <2>8. ResultsIntact(done[l])'
    <3> SUFFICES ASSUME NEW i \in 1..Len(done'[l])
                 PROVE  output'[i] = {[run |-> done'[l][i], ok |-> TRUE]} /\ i \in logs'
      BY DEF ResultsIntact
    <3>1. CASE i = Item(l)
      BY <2>1, <2>2, <2>6, <3>1
    <3>2. CASE i # Item(l)
      <4>1. i \in 1..Len(done[l])
        BY <1>1, <2>6, <3>2 DEF Item
      <4> QED BY <2>1, <2>6, <2>7, <4>1 DEF ResultsIntact
    <3> QED BY <3>1, <3>2
  <2>9. Len(done'[l]) <= Total
    BY <2>2, <2>6, MatrixAssumption DEF Items, Total
  <2>10. \E d \in Seq(Nat) : checkpoint' = {d} /\ done'[l] = Append(d, Run')
    <3>1. checkpoint' = {done[l]} /\ done'[l] = Append(done[l], Run')
      BY <2>1, <2>2 DEF Run
    <3> QED BY <1>1, <3>1
  <2> HIDE DEF a, b
  <2> QED BY <2>1, <2>5, <2>8, <2>9, <2>10 DEF Progress, Loaded, Attempting
<1>3. CASE WriteCheckpoint(l)
  <2>1. /\ pc[l] = "checkpoint" /\ pc'[l] = "next" /\ checkpoint' = {done[l]}
        /\ UNCHANGED <<journal, output, logs, history, done, events>>
    BY <1>1, <1>3 DEF WriteCheckpoint, Step, Goto, TypeInv, artifacts, memory
  <2>2. PICK d \in Seq(Nat) : checkpoint = {d} /\ done[l] = Append(d, Run)
    BY <1>1, <2>1 DEF Progress
  <2>3. Journal(l, ExpectedEvents(done[l]))
    BY <1>1, <2>1 DEF Progress
  <2>4. Len(d) \in Nat /\ Item(l) = Len(d) + 2
    BY <1>1, <2>2, AppendProperties, LenProperties DEF Item
  <2>5. Item(l) \in Items => Clean(Item(l))
    BY <1>1, <2>2, <2>4 DEF CheckpointInv
  <2> QED BY <2>1, <2>3, <2>5 DEF Progress, Journal, Loaded, Attempting, Clean, Item
<1> QED
  BY <1>2, <1>3

\* Closing the matrix.
LEMMA EndProgress ==
  ASSUME Inv, NEW l \in Launchers, WriteReport(l) \/ Unmark(l) \/ Close(l) \/ Verify(l)
  PROVE  Progress(l)'
<1>1. /\ TypeInv /\ CheckpointInv /\ Progress(l) /\ done[l] \in Seq(Nat)
      /\ Item(l) \in Nat \ {0} /\ Len(done[l]) \in Nat
  BY ItemType DEF Inv, TypeInv
<1>2. CASE pc'[l] \in Leaving
  BY <1>2, NoProgressNext
<1>3. CASE WriteReport(l) /\ pc'[l] \notin Leaving
  <2>1. /\ pc[l] = "next" /\ pc'[l] = "unmark" /\ Item(l) \notin Items /\ EveryAttemptArchived
        /\ report' = {[checkpoint |-> checkpoint, history |-> history]}
        /\ UNCHANGED <<journal, checkpoint, history, done, events>>
    BY <1>1, <1>3 DEF WriteReport, Goto, TypeInv, Leaving, memory
  <2>2. checkpoint = {done[l]} /\ Journal(l, ExpectedEvents(done[l]))
    BY <1>1, <2>1 DEF Progress, Loaded, Attempting
  <2>3. Len(done[l]) = Total
    BY <1>1, <2>1, <2>2, MatrixAssumption DEF CheckpointInv, Item, Items, Total
  <2> QED BY <2>1, <2>2, <2>3 DEF Progress, Journal, Loaded, Attempting, EveryAttemptArchived
<1>4. CASE Unmark(l)
  <2>1. /\ pc[l] = "unmark" /\ pc'[l] = "close"
        /\ UNCHANGED <<journal, checkpoint, report, history, done, events>>
    BY <1>1, <1>4 DEF Unmark, Step, Goto, TypeInv, memory
  <2>2. /\ checkpoint = {done[l]} /\ Journal(l, ExpectedEvents(done[l]))
        /\ Len(done[l]) = Total /\ EveryAttemptArchived
        /\ report = {[checkpoint |-> checkpoint, history |-> history]}
    BY <1>1, <2>1 DEF Progress, Loaded, Attempting
  <2> QED BY <2>1, <2>2 DEF Progress, Journal, Loaded, Attempting, EveryAttemptArchived
<1>5. CASE (Close(l) \/ Verify(l)) /\ pc'[l] \notin Leaving
  <2>1. /\ pc[l] \in {"close", "verify"} /\ pc'[l] \in {"verify", "release"}
        /\ UNCHANGED <<checkpoint, done>>
    BY <1>1, <1>5 DEF Close, Verify, Step, Goto, TypeInv, Leaving, files, memory
  <2>2. checkpoint = {done[l]}
    BY <1>1, <2>1 DEF Progress, Loaded, Attempting
  <2> QED BY <2>1, <2>2 DEF Progress, Loaded, Attempting
<1> QED
  BY <1>2, <1>3, <1>4, <1>5

\* A step of main of one launcher, and a step of any other kind.
LEMMA ProgressStep ==
  ASSUME Inv, NEW l \in Launchers, InMain(l) \/ Entering(l)
  PROVE  \A m \in Launchers : Progress(m)'
<1>1. TypeInv /\ LockInv /\ \A m \in Launchers : Progress(m)
  BY DEF Inv
<1>2. CASE InMain(l)
  <2>1. /\ pc[l] \notin Outside
        /\ \A m \in Launchers \ {l} : pc'[m] = pc[m]
    BY <1>1, <1>2, InMainFrame
  <2>2. \A m \in Launchers \ {l} : pc'[m] \in Outside
    BY <1>1, <2>1, OthersOutside
  <2>3. \A m \in Launchers \ {l} : Progress(m)'
    BY <2>2, NoProgressNext
  <2>4. CASE HandlerUnlinks(l) \/ WriteFailure(l) \/ Fault(l)
    <3>1. pc'[l] \in Leaving
      BY <1>1, <2>4 DEF HandlerUnlinks, WriteFailure, Fault, Step, Goto, Leaving, TypeInv
    <3> QED BY <2>3, <3>1, NoProgressNext
  <2> QED
    BY <1>2, <2>3, <2>4, CreationProgress, ResumeProgress, StartProgress, RunProgress,
       CompleteProgress, EndProgress DEF InMain, Early, Saving, Working
<1>3. CASE Entering(l)
  <2>1. UNCHANGED <<journal, checkpoint, report, output, logs, history>>
    BY <1>3 DEF Entering, Fresh, Resume, Acquire, LockIsHeld, Exit, Crash, files, artifacts, closure
  <2>2. /\ pc'[l] \in Outside \cup {"mark fresh", "load"}
        /\ \A m \in Launchers \ {l} : pc'[m] = pc[m] /\ done'[m] = done[m] /\ events'[m] = events[m]
    BY <1>1, <1>3 DEF Entering, Fresh, Resume, Acquire, LockIsHeld, Exit, Crash, Step, Goto,
       Forget, Outside, TypeInv, memory
  <2>3. \A m \in Launchers \ {l} : Progress(m)'
    BY <1>1, <2>1, <2>2, OtherProgress
  <2> QED BY <2>2, <2>3, NoProgressNext
<1> QED
  BY <1>2, <1>3

-----------------------------------------------------------------------------
(* The invariant and the theorems.                                           *)

\* A matrix that nobody has started.
LEMMA InitInv == Init => Inv
<1> SUFFICES ASSUME Init PROVE Inv
  OBVIOUS
<1>1. \A l \in Launchers : pc[l] = "idle"
  BY DEF Init
<1>2. TypeInv
  <2>1. <<>> \in Seq(Nat) /\ <<>> \in Seq(Event) /\ <<>> \in Seq(BOOLEAN)
    BY EmptySeq
  <2> QED BY <2>1 DEF Init, TypeInv, Places, Outside
<1>3. LockInv
  BY <1>1 DEF Init, LockInv, Outside
<1>4. OpeningInv
  BY <1>1 DEF Init, OpeningInv, Opening, Outside, Clean
<1>5. CheckpointInv
  BY DEF Init, CheckpointInv
<1>6. CompletionInv
  BY <1>1 DEF Init, CompletionInv, Superseded, Attempting
<1>7. \A l \in Launchers : Progress(l)
  BY <1>1, NoProgress DEF Outside
<1> QED
  BY <1>2, <1>3, <1>4, <1>5, <1>6, <1>7 DEF Inv

\* A step that changes nothing.
LEMMA StutterInv ==
  ASSUME Inv, UNCHANGED vars
  PROVE  Inv'
<1> USE DEF vars, files, closure, artifacts, memory, budget
<1>1. TypeInv' /\ LockInv' /\ OpeningInv'
  BY DEF Inv, TypeInv, LockInv, OpeningInv, Clean
<1>2. CheckpointInv'
  BY DEF Inv, CheckpointInv, ResultsIntact, Clean
<1>3. CompletionInv'
  BY DEF Inv, CompletionInv, Superseded, Verifiable, EveryAttemptArchived, ResultsIntact
<1>4. \A l \in Launchers : Progress(l)'
  BY OtherProgress DEF Inv
<1> QED
  BY <1>1, <1>2, <1>3, <1>4 DEF Inv

\* Every step of every launcher keeps the invariant.
LEMMA NextInv ==
  ASSUME Inv, [Next]_vars
  PROVE  Inv'
<1>1. CASE UNCHANGED vars
  BY <1>1, StutterInv
<1>2. CASE Next
  <2>1. PICK l \in Launchers : Fresh(l) \/ Resume(l) \/ Proceed(l) \/ Fault(l) \/ Crash(l)
    BY <1>2 DEF Next
  <2>2. InMain(l) \/ Entering(l)
    BY <2>1, Steps
  <2>3. TypeInv'
    <3>1. TypeInv
      BY DEF Inv
    <3>2. CASE Unwriting(l)
      BY <3>1, <3>2, UnwritingType
    <3>3. CASE ~ Unwriting(l)
      <4>1. Proceed(l)
        BY <2>1, <3>3 DEF Unwriting
      <4> QED BY <3>3, <4>1, WritingType
    <3> QED BY <3>2, <3>3
  <2>4. LockInv' /\ OpeningInv' /\ CheckpointInv' /\ CompletionInv'
    BY <2>2, LockStep, OpeningStep, CheckpointStep, CompletionStep
  <2>5. \A m \in Launchers : Progress(m)'
    BY <2>2, ProgressStep
  <2> QED BY <2>3, <2>4, <2>5 DEF Inv
<1> QED
  BY <1>1, <1>2

(* Whoever starts, resumes, kills or fails a controller, and in whatever     *)
(* order: the types, the lock, and the agreement of the files with each      *)
(* other and with the memory of the controller in main.                      *)
THEOREM Invariance == Spec => []Inv
<1>1. Init => Inv
  BY InitInv
<1>2. Inv /\ [Next]_vars => Inv'
  BY NextInv
<1> QED
  BY <1>1, <1>2, PTL DEF Spec

(* A matrix with a checkpoint can be resumed at any time, so in particular   *)
(* after any controller died between any two writes: its completed results   *)
(* are there and their events begin the journal.                             *)
THEOREM Resumability == Spec => []CheckpointIsResumable
<1>1. Inv => CheckpointIsResumable
  BY DEF Inv, CheckpointInv, CheckpointIsResumable, Resumable
<1> QED
  BY <1>1, Invariance, PTL

(* A child is started only where no log and no output of an interrupted run  *)
(* of its item is left.                                                      *)
THEOREM CleanStarts == Spec => []RunsStartClean
<1>1. Inv => RunsStartClean
  BY DEF Inv, Progress, Clean, RunsStartClean
<1> QED
  BY <1>1, Invariance, PTL

(* A completion that binds the history as it is passes the verification of   *)
(* every record that it reaches.                                             *)
THEOREM VerifiableCompletion == Spec => []CompletionIsVerifiable
<1>1. Inv => CompletionIsVerifiable
  <2> SUFFICES ASSUME Inv, NEW c \in complete, NEW r \in c.report, r.history = history
               PROVE  Verifiable
    BY DEF CompletionIsVerifiable
  <2>1. Len(history) \in Nat
    BY LenProperties DEF Inv, TypeInv
  <2>2. ~ Superseded
    BY <2>1 DEF Superseded
  <2> QED BY <2>2 DEF Inv, CompletionInv
<1> QED
  BY <1>1, Invariance, PTL

\* A step that leaves the checkpoint and its results.
LEMMA KeptAsIs ==
  ASSUME Inv, checkpoint' = checkpoint,
         \A d \in checkpoint : \A i \in 1..Len(d) : output'[i] = output[i]
  PROVE  \A d \in checkpoint : \E e \in checkpoint' :
           IsPrefix(d, e) /\ \A i \in 1..Len(d) : output'[i] = output[i]
<1>1. \A d \in checkpoint : IsPrefix(d, d)
  BY PrefixOfConcat DEF Inv, TypeInv
<1> QED
  BY <1>1

(* No step of any controller takes a result out of the checkpoint or touches *)
(* its output: only the item that is next is run, archived or written.       *)
THEOREM KeptWork == Spec => CheckpointedWorkIsKept
<1> DEFINE Kept == \A d \in checkpoint : \E e \in checkpoint' :
                     IsPrefix(d, e) /\ \A i \in 1..Len(d) : output'[i] = output[i]
<1>1. ASSUME Inv, Next PROVE Kept
  <2>1. PICK l \in Launchers : Fresh(l) \/ Resume(l) \/ Proceed(l) \/ Fault(l) \/ Crash(l)
    BY <1>1 DEF Next
  <2>2. InMain(l) \/ Entering(l)
    BY <2>1, Steps
  <2>3. TypeInv /\ OpeningInv /\ CheckpointInv /\ Progress(l)
    BY <1>1 DEF Inv
  <2>4. CASE UNCHANGED <<checkpoint, output>>
    BY <1>1, <2>4, KeptAsIs
  <2>5. CASE StartJournal(l) \/ FirstCheckpoint(l)
    <3>1. checkpoint = {}
      BY <2>3, <2>5 DEF StartJournal, FirstCheckpoint, Step, OpeningInv, Opening
    <3> QED BY <3>1
  <2>6. CASE ArchiveFile(l) \/ Spawn(l) \/ ChildEnds(l)
    <3>1. checkpoint = {done[l]} /\ checkpoint' = checkpoint
      BY <2>3, <2>6 DEF ArchiveFile, Spawn, ChildEnds, Step, Progress, Loaded, Attempting
    <3>2. \A i \in Items : i # Item(l) => output'[i] = output[i]
      BY <2>3, <2>6 DEF ArchiveFile, Spawn, ChildEnds, artifacts, TypeInv
    <3>3. \A i \in 1..Len(done[l]) : i \in Items /\ i # Item(l)
      <4>1. Len(done[l]) \in Nat /\ Len(done[l]) <= Total
        BY <2>3, <3>1, ItemType DEF CheckpointInv
      <4> QED BY <4>1, MatrixAssumption DEF Items, Item, Total
    <3> QED BY <1>1, <3>1, <3>2, <3>3, KeptAsIs
  <2>7. CASE WriteCheckpoint(l)
    <3>1. checkpoint' = {done[l]} /\ output' = output /\ pc[l] = "checkpoint"
      BY <2>7 DEF WriteCheckpoint, Step, artifacts
    <3>2. PICK d \in Seq(Nat) : checkpoint = {d} /\ done[l] = Append(d, Run)
      BY <2>3, <3>1 DEF Progress
    <3>3. IsPrefix(d, Append(d, Run))
      <4>1. Run \in Nat
        BY <2>3, ItemType
      <4>2. IsPrefix(d, d)
        BY PrefixOfConcat
      <4> QED BY <4>1, <4>2, PrefixOfAppend
    <3> QED BY <3>1, <3>2, <3>3
  <2>8. CASE TruncateJournal(l) \/ StartLane(l) \/ RecordEnd(l) \/ Validate(l)
    <3>1. UNCHANGED <<checkpoint, output>>
      BY <2>8 DEF TruncateJournal, StartLane, RecordEnd, Validate, artifacts
    <3> QED BY <1>1, <3>1, KeptAsIs
  <2> QED
    BY <2>2, <2>4, <2>5, <2>6, <2>7, <2>8, UnreadFiles DEF InMain, Early, Saving, Working
<1>2. Inv /\ [Next]_vars => [Kept]_vars
  BY <1>1
<1> HIDE DEF Kept
<1>3. Spec => [][Kept]_vars
  BY <1>2, Invariance, PTL DEF Spec
<1> QED
  BY <1>3 DEF Kept, CheckpointedWorkIsKept
=============================================================================
