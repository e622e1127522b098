--------------------------- MODULE FrontEndProofs ---------------------------
(***************************************************************************)
(* Proofs about a Simulation and its three users, for any monitors,        *)
(* sources, designs and Bloch vectors and without a bound on what          *)
(* accumulates: the script that works by hand (CheckpointScript), the      *)
(* adjoint optimizer (OptimizationProblem) and the callable for JAX        *)
(* (MeepJaxWrapper), each with the uses that work; and about the end of a  *)
(* run, for any signal and any list of conditions (StopConditions).        *)
(*                                                                         *)
(* The script.  Monitors get their chunks in the order in which they were  *)
(* declared.  So the list of the fields is at all times a beginning of     *)
(* dft_objects, and that is why a checkpoint, which knows its data by      *)
(* position only, gives each monitor its own.  The invariant says how far  *)
(* the list has got, and how what it holds compares with what the calls so *)
(* far promise.                                                            *)
(*                                                                         *)
(* The optimizer and the wrapper queue many calls at once, and an          *)
(* exception may end the queue after any of them.  So the invariant says   *)
(* where the whole queue leads, through states that the next user can      *)
(* start from, and what the simulation will then hold.                     *)
(*                                                                         *)
(* The end of a run.  A condition knows of the past what its closure has   *)
(* kept, and it is asked by runs that come and go.  The invariant says     *)
(* what a closure has kept of a signal it was asked about at each time.    *)
(***************************************************************************)
EXTENDS StopConditions, CheckpointScript, MeepJaxWrapper,
        SequenceTheorems, FiniteSetTheorems, WellFoundedInduction, TLAPS

\* The attributes of a simulation and of its fields.
SimNames == {"fields", "structure", "initialized", "dft_objects", "handle", "k_point",
             "sources", "design", "load_fields_file", "fault"}
FieldNames == {"exists", "real", "k", "sources", "structure", "history", "monitors"}
PromiseNames == {"followed", "history", "data"}

\* The monitors up to here have their chunks.
Count(s) == Len(s.fields.monitors)
Entry(m, data) == [who |-> m, held |-> TRUE, data |-> data]
DataAt(s, i) == IF i <= Count(s) THEN s.fields.monitors[i].data ELSE <<>>

Formed(s) ==
  /\ s = [x \in SimNames |-> s[x]]
  /\ s.fault = "none" /\ s.design = "design"
  /\ s.handle = [m \in Monitors |-> s.handle[m]]
  /\ s.dft_objects \in Seq(Fluxes)
  /\ \A i, j \in 1..Len(s.dft_objects) : s.dft_objects[i] = s.dft_objects[j] => i = j
  /\ \A m \in Monitors : (\A i \in 1..Len(s.dft_objects) : s.dft_objects[i] # m)
                           => s.handle[m].state # "attached"

\* Without fields no monitor has chunks.
Waiting(s) ==
  /\ Formed(s)
  /\ s.fields = NoFields /\ s.initialized = FALSE
  /\ s.structure \in {NoStructure, "design"}
  /\ \A i \in 1..Len(s.dft_objects) : s.handle[s.dft_objects[i]] = Lazy

\* With fields a beginning of the list does.
Running(s) ==
  /\ Formed(s)
  /\ s.fields = [x \in FieldNames |-> s.fields[x]]
  /\ s.fields.exists = TRUE /\ s.initialized = TRUE
  /\ s.structure = "design" /\ s.fields.structure = "design"
  /\ s.fields.k = s.k_point /\ s.fields.sources = <<s.sources>>
  /\ Count(s) \in 0..Len(s.dft_objects)
  /\ s.fields.monitors =
       [i \in 1..Count(s) |-> Entry(s.dft_objects[i], s.fields.monitors[i].data)]
  /\ \A i \in 1..Len(s.dft_objects) :
       s.handle[s.dft_objects[i]] = IF i <= Count(s) THEN Attached ELSE Lazy

Full(s) == Running(s) /\ Count(s) = Len(s.dft_objects)

PromiseShape(p) ==
  p = [x \in PromiseNames |-> p[x]] /\ p.data = [m \in Fluxes |-> p.data[m]]

\* The promise for a simulation that has not started, one between two calls,
\* and one that is in a run.
Fresh(s, p) ==
  /\ p.history = <<>>
  /\ \A i \in 1..Len(s.dft_objects) : p.data[s.dft_objects[i]] = <<>>
Kept(s, p) ==
  /\ p.history = s.fields.history
  /\ \A i \in 1..Len(s.dft_objects) : p.data[s.dft_objects[i]] = DataAt(s, i)
Ahead(s, p) ==
  LET h == Append(s.fields.history, Piece(s))
  IN  /\ p.history = h
      /\ \A i \in 1..Len(s.dft_objects) : p.data[s.dft_objects[i]] = Append(DataAt(s, i), h)

\* The data of a checkpoint, which have positions only, are those promised to
\* the monitors at these positions.
FileInv(f) ==
  f # NoFile =>
    /\ PromiseShape(f.promised)
    /\ f.promised.history = f.history
    /\ Len(f.data) = Len(f.monitors)
    /\ \A i \in 1..Len(f.monitors) : f.promised.data[f.monitors[i]] = f.data[i]

Progress(s, q, f, p) ==
  \/ /\ Waiting(s) /\ q = <<>>
     /\ s.load_fields_file = NoFile => Fresh(s, p)
     /\ s.load_fields_file # NoFile => s.dft_objects = f.monitors
  \/ Running(s) /\ q = <<>> /\ Kept(s, p)
  \/ Running(s) /\ q = AfterFields /\ Ahead(s, p)
  \/ Full(s) /\ q = Call("_run_until") /\ Ahead(s, p)

ScriptState(s, q, f, p) ==
  /\ PromiseShape(p)
  /\ FileInv(f)
  /\ s.load_fields_file \in {NoFile, f}
  /\ Progress(s, q, f, p)

ScriptInv == ScriptState(sim, queue, file, promised)
------------------------------------------------------------------------------
(* Lists and loops.                                                        *)

\* Induction over the natural numbers: a set that has zero and all successors.
LEMMA SetInduction ==
  ASSUME NEW S, S \subseteq Nat, 0 \in S, \A n \in S : n + 1 \in S
  PROVE  S = Nat
<1> DEFINE T == Nat \ S
           R == OpToRel(<, Nat)
<1> SUFFICES ASSUME T # {} PROVE FALSE
  OBVIOUS
<1>1. IsWellFoundedOn(R, Nat)
  BY NatLessThanWellFounded
<1>2. PICK x \in T : \A y \in T : ~ (<<y, x>> \in R)
  <2> HIDE DEF R
  <2> QED BY <1>1, WFMin
<1>3. \A y \in T : ~ (y < x)
  BY <1>2 DEF OpToRel
<1>4. x - 1 \in Nat /\ x - 1 \notin T
  BY <1>3
<1> QED
  BY <1>4

\* A list of any values, and what Append makes of it.
LEMMA ListAppend ==
  ASSUME NEW n \in Nat, NEW f, f = [i \in 1..n |-> f[i]], NEW x
  PROVE  /\ Len(f) = n
         /\ Append(f, x) = [i \in 1..(n + 1) |-> IF i = n + 1 THEN x ELSE f[i]]
         /\ Len(Append(f, x)) = n + 1
<1> DEFINE E == {f[i] : i \in 1..n} \cup {x}
<1>1. f \in Seq(E) /\ x \in E
  OBVIOUS
<1> HIDE DEF E
<1>2. Len(f) = n
  BY <1>1, LenProperties
<1>3. /\ Append(f, x) \in Seq(E)
      /\ Len(Append(f, x)) = n + 1
      /\ \A i \in 1..n : Append(f, x)[i] = f[i]
      /\ Append(f, x)[n + 1] = x
  BY <1>1, <1>2, AppendProperties
<1>4. Append(f, x) = [i \in 1..(n + 1) |-> Append(f, x)[i]]
  BY <1>3, LenProperties
<1> QED
  BY <1>2, <1>3, <1>4

\* The length of a list given by its values.
LEMMA ListLen ==
  ASSUME NEW n \in Nat, NEW f, f = [i \in 1..n |-> f[i]]
  PROVE  Len(f) = n
<1> DEFINE E == {f[i] : i \in 1..n}
<1>1. f \in Seq(E)
  OBVIOUS
<1> HIDE DEF E
<1> QED
  BY <1>1, LenProperties

\* A queue of two calls.
LEMMA TwoCalls ==
  ASSUME NEW a, NEW b
  PROVE  /\ <<a>> \o <<b>> = <<a, b>>
         /\ Head(<<a, b>>) = a /\ Tail(<<a, b>>) = <<b>> /\ <<a, b>> # <<>>
         /\ Head(<<b>>) = b /\ Tail(<<b>>) = <<>> /\ <<b>> # <<>> /\ <<a, b>> # <<b>>
<1>1. <<a>> \o <<b>> = <<a, b>>
  <2>1. <<a>> \in Seq({a, b}) /\ <<b>> \in Seq({a, b}) /\ <<a, b>> \in Seq({a, b})
    OBVIOUS
  <2>2. Len(<<a>>) = 1 /\ Len(<<b>>) = 1 /\ Len(<<a, b>>) = 2
    OBVIOUS
  <2>3. <<a>> \o <<b>> \in Seq({a, b}) /\ Len(<<a>> \o <<b>>) = 2
    BY <2>1, <2>2, ConcatProperties
  <2>4. \A i \in 1..2 : (<<a>> \o <<b>>)[i] = IF i <= 1 THEN <<a>>[i] ELSE <<b>>[i - 1]
    BY <2>1, <2>2, ConcatProperties
  <2>5. \A i \in 1..2 : (<<a>> \o <<b>>)[i] = <<a, b>>[i]
    BY <2>4
  <2> QED BY <2>1, <2>2, <2>3, <2>5, SeqEqual
<1>2. Head(<<a, b>>) = a /\ <<a, b>> # <<>> /\ Head(<<b>>) = b /\ <<b>> # <<>>
  OBVIOUS
<1>3. Tail(<<a, b>>) = <<b>>
  OBVIOUS
<1>4. Tail(<<b>>) = <<>>
  OBVIOUS
<1>5. <<a, b>> # <<b>>
  OBVIOUS
<1> QED
  BY <1>1, <1>2, <1>3, <1>4, <1>5

\* The calls of a run are taken one by one.
LEMMA RunQueue ==
  /\ AfterFields # <<>> /\ Head(AfterFields).method = "evaluate_dft_objects"
  /\ Tail(AfterFields) = Call("_run_until")
  /\ Call("_run_until") # <<>> /\ Head(Call("_run_until")).method = "_run_until"
  /\ Tail(Call("_run_until")) = <<>>
  /\ AfterFields # Call("_run_until")
<1> DEFINE a == [method |-> "evaluate_dft_objects", argument |-> <<>>]
           b == [method |-> "_run_until", argument |-> <<>>]
<1>1. Call("evaluate_dft_objects") = <<a>> /\ Call("_run_until") = <<b>>
  BY DEF Call, CallWith
<1>2. a.method = "evaluate_dft_objects" /\ b.method = "_run_until"
  OBVIOUS
<1> HIDE DEF a, b
<1>3. AfterFields = <<a, b>>
  BY <1>1, TwoCalls, ZenonT(40) DEF AfterFields
<1> QED
  BY <1>1, <1>2, <1>3, TwoCalls, ZenonT(40)

\* A step of one of the two loops over the monitors.
Advance(loop, r, m) ==
  IF loop = "evaluate" THEN IF r.handle[m].state = "lazy" THEN Attach(r, m) ELSE r
  ELSE Dropped(r, m)
Loops(f, loop, s, n) ==
  f = [i \in 0..n |-> IF i = 0 THEN s ELSE Advance(loop, f[i - 1], s.dft_objects[i])]

\* What the recursive definition says of each value of the function.
LEMMA LoopStep ==
  ASSUME NEW loop, NEW s, NEW n \in Nat, NEW f
  PROVE  Loops(f, loop, s, n)
           <=> /\ f = [i \in 0..n |-> f[i]]
               /\ \A i \in 0..n :
                    f[i] = IF i = 0 THEN s ELSE Advance(loop, f[i - 1], s.dft_objects[i])
<1> DEFINE h(i) == IF i = 0 THEN s ELSE Advance(loop, f[i - 1], s.dft_objects[i])
<1>1. Loops(f, loop, s, n) <=> f = [i \in 0..n |-> h(i)]
  BY DEF Loops
<1>2. (\A i \in 0..n : f[i] = h(i))
        <=> \A i \in 0..n : f[i] = IF i = 0 THEN s ELSE Advance(loop, f[i - 1], s.dft_objects[i])
  OBVIOUS
<1> HIDE DEF h
<1>3. ASSUME f = [i \in 0..n |-> h(i)]
      PROVE f = [i \in 0..n |-> f[i]] /\ \A i \in 0..n : f[i] = h(i)
  BY <1>3
<1>4. ASSUME f = [i \in 0..n |-> f[i]], \A i \in 0..n : f[i] = h(i) PROVE f = [i \in 0..n |-> h(i)]
  BY <1>4
<1> QED
  BY <1>1, <1>2, <1>3, <1>4

\* The values of a loop, from the start and from one step to the next.
LEMMA LoopValues ==
  ASSUME NEW loop, NEW s, NEW n \in Nat, NEW f, Loops(f, loop, s, n)
  PROVE  /\ f[0] = s
         /\ \A i \in 0..(n - 1) : f[i + 1] = Advance(loop, f[i], s.dft_objects[i + 1])
<1> DEFINE h(i) == IF i = 0 THEN s ELSE Advance(loop, f[i - 1], s.dft_objects[i])
<1>0. f = [i \in 0..n |-> h(i)]
  BY DEF Loops
<1>1. \A i \in 0..n : f[i] = IF i = 0 THEN s ELSE Advance(loop, f[i - 1], s.dft_objects[i])
  <2> HIDE DEF h
  <2>1. \A i \in 0..n : f[i] = h(i)
    BY <1>0
  <2> QED BY <2>1 DEF h
<1>2. f[0] = s
  BY <1>1
<1>3. ASSUME NEW i \in 0..(n - 1)
      PROVE  f[i + 1] = Advance(loop, f[i], s.dft_objects[i + 1])
  <2>1. i + 1 \in 0..n /\ i + 1 # 0 /\ (i + 1) - 1 = i
    OBVIOUS
  <2> QED BY <1>1, <2>1
<1> QED
  BY <1>2, <1>3

\* There is such a function: one for n steps extends to n + 1.
LEMMA LoopExists ==
  ASSUME NEW loop, NEW s, NEW n \in Nat
  PROVE  \E f : Loops(f, loop, s, n)
<1> DEFINE S == {k \in Nat : \E f : Loops(f, loop, s, k)}
<1>1. 0 \in S
  <2> DEFINE f == [i \in 0..0 |-> s]
  <2>1. f = [i \in 0..0 |-> f[i]] /\ \A i \in 0..0 : i = 0 /\ f[i] = s
    OBVIOUS
  <2> HIDE DEF f
  <2>2. Loops(f, loop, s, 0)
    BY <2>1, LoopStep
  <2> QED BY <2>2
<1>2. ASSUME NEW k \in S PROVE k + 1 \in S
  <2>1. PICK f : Loops(f, loop, s, k)
    OBVIOUS
  <2> DEFINE last == Advance(loop, f[k], s.dft_objects[k + 1])
             g == [i \in 0..(k + 1) |-> IF i <= k THEN f[i] ELSE last]
  <2>2. /\ g = [i \in 0..(k + 1) |-> g[i]]
        /\ \A i \in 0..k : g[i] = f[i]
        /\ g[k + 1] = last
    OBVIOUS
  <2>3. \A i \in 0..k : f[i] = IF i = 0 THEN s ELSE Advance(loop, f[i - 1], s.dft_objects[i])
    BY <2>1, LoopStep
  <2>4. last = Advance(loop, f[k], s.dft_objects[k + 1])
    OBVIOUS
  <2>0. k \in Nat
    OBVIOUS
  <2> HIDE DEF g, last, S
  <2>5. \A i \in 0..(k + 1) :
          g[i] = IF i = 0 THEN s ELSE Advance(loop, g[i - 1], s.dft_objects[i])
    <3> SUFFICES ASSUME NEW i \in 0..(k + 1)
                 PROVE  g[i] = IF i = 0 THEN s ELSE Advance(loop, g[i - 1], s.dft_objects[i])
      OBVIOUS
    <3>1. CASE i <= k
      <4>1. i \in 0..k /\ (i # 0 => i - 1 \in 0..k)
        BY <2>0, <3>1
      <4> QED BY <2>2, <2>3, <4>1
    <3>2. CASE i = k + 1
      BY <2>0, <2>2, <2>4, <3>2
    <3> QED BY <2>0, <3>1, <3>2
  <2>6. Loops(g, loop, s, k + 1)
    <3>1. k + 1 \in Nat
      BY <2>0
    <3> QED BY <2>2, <2>5, <3>1, LoopStep
  <2> QED BY <2>0, <2>6 DEF S
<1>3. S = Nat
  <2> HIDE DEF S
  <2>1. S \subseteq Nat
    BY DEF S
  <2> QED BY <1>1, <1>2, <2>1, SetInduction
<1> QED
  BY <1>3

\* The two loops of the model end with the last value of such a function.
Unrolled(f, loop, s) ==
  /\ f[0] = s
  /\ \A i \in 0..(Len(s.dft_objects) - 1) : f[i + 1] = Advance(loop, f[i], s.dft_objects[i + 1])

\* Both loops over the monitors of a simulation have their last value.
LEMMA LoopValue ==
  ASSUME NEW s, NEW E, s.dft_objects \in Seq(E)
  PROVE  /\ \E f : /\ Unrolled(f, "evaluate", s)
                   /\ evaluate_dft_objects(s) = f[Len(s.dft_objects)]
         /\ \E f : /\ Unrolled(f, "clear", s)
                   /\ clear_dft_monitors(s) = WithoutMonitors(f[Len(s.dft_objects)])
<1>0. PICK n \in Nat : n = Len(s.dft_objects)
  BY LenProperties
<1> DEFINE F(loop) == CHOOSE f : Loops(f, loop, s, n)
<1>1. \A loop : Loops(F(loop), loop, s, n)
  BY LoopExists
<1>2. evaluate_dft_objects(s) = F("evaluate")[n]
  BY <1>0 DEF evaluate_dft_objects, Loops, Advance
<1>3. clear_dft_monitors(s) = WithoutMonitors(F("clear")[n])
  BY <1>0 DEF clear_dft_monitors, Loops, Advance
<1> HIDE DEF F
<1>4. ASSUME NEW loop PROVE Unrolled(F(loop), loop, s)
  <2> DEFINE g == F(loop)
  <2>1. Loops(g, loop, s, n)
    BY <1>1
  <2> HIDE DEF g
  <2>2. g[0] = s /\ \A i \in 0..(n - 1) : g[i + 1] = Advance(loop, g[i], s.dft_objects[i + 1])
    BY <2>1, LoopValues
  <2> QED BY <1>0, <2>2 DEF Unrolled, g
<1> QED
  BY <1>0, <1>2, <1>3, <1>4

------------------------------------------------------------------------------
(* What the operations do to simulations that have and have no fields.     *)

\* Between two simulations no attribute that a script has set changed.
Same(s, v) ==
  /\ v.dft_objects = s.dft_objects /\ v.k_point = s.k_point /\ v.sources = s.sources
  /\ v.load_fields_file = s.load_fields_file

\* v has all that s has accumulated.
Continues(s, v) ==
  /\ Running(v) /\ Same(s, v)
  /\ v.fields.history = s.fields.history
  /\ \A i \in 1..Len(s.dft_objects) : DataAt(v, i) = DataAt(s, i)

\* The parts of a simulation with fields.
LEMMA RunningParts ==
  ASSUME NEW s, Running(s)
  PROVE  /\ s = [x \in SimNames |-> s[x]] /\ s.fields = [x \in FieldNames |-> s.fields[x]]
         /\ s.handle = [m \in Monitors |-> s.handle[m]]
         /\ Len(s.dft_objects) \in Nat /\ Count(s) \in Nat /\ Count(s) <= Len(s.dft_objects)
         /\ s.fields.monitors = [i \in 1..Count(s) |-> s.fields.monitors[i]]
         /\ \A i \in 1..Len(s.dft_objects) :
              s.dft_objects[i] \in Fluxes /\ s.dft_objects[i] \in Monitors
         /\ \A i, j \in 1..Len(s.dft_objects) : s.dft_objects[i] = s.dft_objects[j] => i = j
         /\ \A i \in 1..Count(s) :
              s.fields.monitors[i] = Entry(s.dft_objects[i], s.fields.monitors[i].data)
<1>1. s.dft_objects \in Seq(Fluxes) /\ Count(s) \in 0..Len(s.dft_objects)
  BY DEF Running, Formed
<1>2. /\ Len(s.dft_objects) \in Nat /\ Count(s) \in Nat /\ Count(s) <= Len(s.dft_objects)
      /\ \A i \in 1..Len(s.dft_objects) : s.dft_objects[i] \in Fluxes
  BY <1>1, LenProperties
<1>3. \A i \in 1..Len(s.dft_objects) : s.dft_objects[i] \in Monitors
  BY <1>2, FluxesAssumption
<1>4. s.fields.monitors = [i \in 1..Count(s) |-> Entry(s.dft_objects[i], s.fields.monitors[i].data)]
  BY DEF Running
<1>5. /\ s.fields.monitors = [i \in 1..Count(s) |-> s.fields.monitors[i]]
      /\ \A i \in 1..Count(s) :
           s.fields.monitors[i] = Entry(s.dft_objects[i], s.fields.monitors[i].data)
  BY <1>2, <1>4
<1>6. /\ s = [x \in SimNames |-> s[x]] /\ s.fields = [x \in FieldNames |-> s.fields[x]]
      /\ s.handle = [m \in Monitors |-> s.handle[m]]
      /\ \A i, j \in 1..Len(s.dft_objects) : s.dft_objects[i] = s.dft_objects[j] => i = j
  BY DEF Running, Formed
<1> QED
  BY <1>2, <1>3, <1>5, <1>6

\* A change to the fields and to declared monitors only.
LEMMA FormedKept ==
  ASSUME NEW s, Formed(s), NEW v, v = [x \in SimNames |-> v[x]],
         v.fault = "none", v.design = "design", v.dft_objects = s.dft_objects,
         v.handle = [m \in Monitors |-> v.handle[m]],
         \A m \in Monitors : v.handle[m] = s.handle[m]
                              \/ \E i \in 1..Len(s.dft_objects) : s.dft_objects[i] = m
  PROVE  Formed(v)
<1>1. /\ s.dft_objects \in Seq(Fluxes)
      /\ \A i, j \in 1..Len(s.dft_objects) : s.dft_objects[i] = s.dft_objects[j] => i = j
      /\ \A m \in Monitors : (\A i \in 1..Len(s.dft_objects) : s.dft_objects[i] # m)
                               => s.handle[m].state # "attached"
  BY DEF Formed
<1>2. \A m \in Monitors : (\A i \in 1..Len(s.dft_objects) : s.dft_objects[i] # m)
                            => v.handle[m].state # "attached"
  <2> SUFFICES ASSUME NEW m \in Monitors, \A i \in 1..Len(s.dft_objects) : s.dft_objects[i] # m
               PROVE  v.handle[m].state # "attached"
    OBVIOUS
  <2>1. v.handle[m] = s.handle[m]
    OBVIOUS
  <2> QED BY <1>1, <2>1
<1>3. v.dft_objects \in Seq(Fluxes)
  BY <1>1
<1>4. \A i, j \in 1..Len(v.dft_objects) : v.dft_objects[i] = v.dft_objects[j] => i = j
  BY <1>1
<1>5. \A m \in Monitors : (\A i \in 1..Len(v.dft_objects) : v.dft_objects[i] # m)
                            => v.handle[m].state # "attached"
  BY <1>2, ZenonT(40)
<1> QED
  BY <1>3, <1>4, <1>5 DEF Formed

\* The first monitor without chunks gets some, after those of the others.
LEMMA AttachNext ==
  ASSUME NEW s, Running(s), Count(s) < Len(s.dft_objects)
  PROVE  LET v == Attach(s, s.dft_objects[Count(s) + 1])
         IN  Continues(s, v) /\ Count(v) = Count(s) + 1
<1> DEFINE n == Count(s)
           M == s.fields.monitors
           m == s.dft_objects[n + 1]
           N == Append(M, Entry(m, <<>>))
           v == Attach(s, m)
<1>0. n \in Nat /\ Len(s.dft_objects) \in Nat /\ M = [i \in 1..n |-> M[i]]
  BY RunningParts
<1>1. n + 1 \in 1..Len(s.dft_objects) /\ m \in Monitors
  <2>1. n + 1 \in 1..Len(s.dft_objects)
    BY <1>0
  <2> HIDE DEF n
  <2> QED BY <2>1, RunningParts
<1>2. \A i \in 1..n : [M[i] EXCEPT !.held = @ /\ M[i].who # m] = M[i]
  <2> SUFFICES ASSUME NEW i \in 1..n
               PROVE  [M[i] EXCEPT !.held = @ /\ M[i].who # m] = M[i]
    OBVIOUS
  <2>1. M[i] = Entry(s.dft_objects[i], M[i].data) /\ s.dft_objects[i] # m
    <3>1. i \in 1..Len(s.dft_objects) /\ i # n + 1
      BY <1>0, <1>1
    <3>2. M[i] = Entry(s.dft_objects[i], M[i].data)
      BY RunningParts
    <3>3. s.dft_objects[i] = s.dft_objects[n + 1] => i = n + 1
      BY <1>1, <3>1, RunningParts
    <3> QED BY <3>1, <3>2, <3>3
  <2> DEFINE e == M[i]
             d == M[i].data
             o == s.dft_objects[i]
  <2>2. e = [who |-> o, held |-> TRUE, data |-> d] /\ o # m
    BY <2>1 DEF Entry
  <2> HIDE DEF e, d, o, m
  <2>3. [e EXCEPT !.held = @ /\ e.who # m] = e
    BY <2>2
  <2> QED BY <2>3 DEF e
<1>3. [i \in DOMAIN M |-> [M[i] EXCEPT !.held = @ /\ M[i].who # m]] = M
  BY <1>0, <1>2
<1>4. v = [s EXCEPT !.fields.monitors = N, !.handle[m] = Attached]
  BY <1>3 DEF Attach, Entry
<1>5. N = [i \in 1..(n + 1) |-> IF i = n + 1 THEN Entry(m, <<>>) ELSE M[i]] /\ Len(N) = n + 1
  BY <1>0, ListAppend
<1> HIDE DEF N, v
<1>6. /\ v = [x \in SimNames |-> v[x]]
      /\ v.fields = [s.fields EXCEPT !.monitors = N]
      /\ v.handle = [s.handle EXCEPT ![m] = Attached]
      /\ \A x \in SimNames \ {"fields", "handle"} : v[x] = s[x]
  <2>1. s = [x \in SimNames |-> s[x]] /\ s.handle = [i \in Monitors |-> s.handle[i]]
    BY RunningParts
  <2> QED BY <1>4, <2>1 DEF SimNames
<1>7. /\ v.fields = [x \in FieldNames |-> v.fields[x]] /\ v.fields.monitors = N
      /\ \A x \in FieldNames \ {"monitors"} : v.fields[x] = s.fields[x]
      /\ \A i \in Monitors : v.handle[i] = IF i = m THEN Attached ELSE s.handle[i]
      /\ v.handle = [i \in Monitors |-> v.handle[i]]
  <2>1. s.fields = [x \in FieldNames |-> s.fields[x]] /\ s.handle = [i \in Monitors |-> s.handle[i]]
    BY RunningParts
  <2>2. /\ v.fields = [x \in FieldNames |-> v.fields[x]] /\ v.fields.monitors = N
        /\ \A x \in FieldNames \ {"monitors"} : v.fields[x] = s.fields[x]
    BY <1>6, <2>1 DEF FieldNames
  <2>3. /\ \A i \in Monitors : v.handle[i] = IF i = m THEN Attached ELSE s.handle[i]
        /\ v.handle = [i \in Monitors |-> v.handle[i]]
    BY <1>6, <1>1, <2>1
  <2> QED BY <2>2, <2>3
<1>8. /\ v.dft_objects = s.dft_objects /\ v.k_point = s.k_point /\ v.sources = s.sources
      /\ v.load_fields_file = s.load_fields_file /\ v.design = s.design
      /\ v.initialized = s.initialized /\ v.structure = s.structure /\ v.fault = s.fault
  BY <1>6 DEF SimNames
<1>9. /\ v.fields.exists = s.fields.exists /\ v.fields.k = s.fields.k
      /\ v.fields.sources = s.fields.sources /\ v.fields.structure = s.fields.structure
      /\ v.fields.history = s.fields.history /\ Count(v) = n + 1
  BY <1>5, <1>7 DEF FieldNames, Count
<1>10. Formed(v)
  <2>1. \A i \in Monitors : v.handle[i] = s.handle[i]
                              \/ \E j \in 1..Len(s.dft_objects) : s.dft_objects[j] = i
    BY <1>1, <1>7
  <2>2. Formed(s) /\ s.fault = "none" /\ s.design = "design"
    BY DEF Running, Formed
  <2>3. /\ v = [x \in SimNames |-> v[x]] /\ v.handle = [i \in Monitors |-> v.handle[i]]
        /\ v.fault = "none" /\ v.design = "design" /\ v.dft_objects = s.dft_objects
    BY <1>6, <1>7, <1>8, <2>2
  <2> HIDE DEF n, M, m
  <2> QED BY <2>1, <2>2, <2>3, FormedKept
<1>11. N = [i \in 1..(n + 1) |-> Entry(s.dft_objects[i], N[i].data)]
  <2>1. \A i \in 1..(n + 1) : N[i] = Entry(s.dft_objects[i], N[i].data)
    <3> SUFFICES ASSUME NEW i \in 1..(n + 1) PROVE N[i] = Entry(s.dft_objects[i], N[i].data)
      OBVIOUS
    <3>1. CASE i = n + 1
      BY <1>5, <3>1 DEF Entry
    <3>2. CASE i # n + 1
      <4>1. i \in 1..n
        BY <1>0, <3>2
      <4> QED BY <1>0, <1>5, <3>2, <4>1, RunningParts
    <3> QED BY <3>1, <3>2
  <2> QED BY <1>5, <2>1
<1>12. \A i \in 1..Len(s.dft_objects) :
         v.handle[s.dft_objects[i]] = IF i <= n + 1 THEN Attached ELSE Lazy
  <2> SUFFICES ASSUME NEW i \in 1..Len(s.dft_objects)
               PROVE  v.handle[s.dft_objects[i]] = IF i <= n + 1 THEN Attached ELSE Lazy
    OBVIOUS
  <2>1. s.dft_objects[i] \in Monitors /\ (s.dft_objects[i] = m => i = n + 1)
    BY <1>1, RunningParts
  <2>2. s.handle[s.dft_objects[i]] = IF i <= n THEN Attached ELSE Lazy
    BY DEF Running
  <2> QED BY <1>0, <1>7, <2>1, <2>2
<1>13. Running(v)
  <2>1. Count(v) \in 0..Len(v.dft_objects)
    BY <1>0, <1>1, <1>8, <1>9
  <2>2. v.fields.monitors =
          [i \in 1..Count(v) |-> Entry(v.dft_objects[i], v.fields.monitors[i].data)]
    BY <1>7, <1>8, <1>9, <1>11
  <2>3. \A i \in 1..Len(v.dft_objects) :
          v.handle[v.dft_objects[i]] = IF i <= Count(v) THEN Attached ELSE Lazy
    BY <1>8, <1>9, <1>12
  <2>4. /\ v.fields.exists = TRUE /\ v.initialized = TRUE
        /\ v.structure = "design" /\ v.fields.structure = "design"
        /\ v.fields.k = v.k_point /\ v.fields.sources = <<v.sources>>
    BY <1>8, <1>9 DEF Running
  <2> QED BY <1>7, <1>10, <2>1, <2>2, <2>3, <2>4 DEF Running
<1>14. \A i \in 1..Len(s.dft_objects) : DataAt(v, i) = DataAt(s, i)
  <2> SUFFICES ASSUME NEW i \in 1..Len(s.dft_objects) PROVE DataAt(v, i) = DataAt(s, i)
    OBVIOUS
  <2>1. DataAt(v, i) = IF i <= n + 1 THEN N[i].data ELSE <<>>
    BY <1>7, <1>9 DEF DataAt
  <2>2. DataAt(s, i) = IF i <= n THEN M[i].data ELSE <<>>
    BY DEF DataAt
  <2>3. Entry(m, <<>>).data = <<>>
    BY DEF Entry
  <2> HIDE DEF n, M, m
  <2>4. i <= n + 1 => N[i] = IF i = n + 1 THEN Entry(m, <<>>) ELSE M[i]
    BY <1>0, <1>5
  <2> QED BY <1>0, <2>1, <2>2, <2>3, <2>4
<1> QED
  BY <1>8, <1>9, <1>13, <1>14 DEF Continues, Same, v

\* What one simulation has of another that has it of a third.
LEMMA ContinuesTransitive ==
  ASSUME NEW s, NEW v, NEW u, Continues(s, v), Continues(v, u)
  PROVE  Continues(s, u)
BY DEF Continues, Same

\* Nothing happens to the fields and monitors of a simulation that is kept.
LEMMA ContinuesItself ==
  ASSUME NEW s, Running(s)
  PROVE  Continues(s, s)
BY DEF Continues, Same

\* A run, and a load, first give chunks to all monitors that have none.
LEMMA EvaluateAll ==
  ASSUME NEW s, Running(s)
  PROVE  LET v == evaluate_dft_objects(s) IN Continues(s, v) /\ Full(v)
<1> DEFINE L == Len(s.dft_objects)
<1>0. L \in Nat /\ s.dft_objects \in Seq(Fluxes)
  BY RunningParts DEF Running, Formed
<1>1. PICK f : Unrolled(f, "evaluate", s) /\ evaluate_dft_objects(s) = f[L]
  BY <1>0, LoopValue
<1>a. f[0] = s /\ \A i \in 0..(L - 1) : f[i + 1] = Advance("evaluate", f[i], s.dft_objects[i + 1])
  BY <1>1 DEF Unrolled
<1> DEFINE S == {i \in Nat : i <= L => Continues(s, f[i]) /\ i <= Count(f[i])}
<1>2. 0 \in S
  <2>1. f[0] = s
    BY <1>0, <1>a
  <2>2. Continues(s, s) /\ 0 <= Count(s)
    <3>1. Count(s) \in Nat
      BY RunningParts
    <3>2. Continues(s, s)
      BY ContinuesItself
    <3> QED BY <3>1, <3>2
  <2> QED BY <2>1, <2>2
<1>3. ASSUME NEW i \in S PROVE i + 1 \in S
  <2> SUFFICES ASSUME i + 1 <= L
               PROVE  Continues(s, f[i + 1]) /\ i + 1 <= Count(f[i + 1])
    OBVIOUS
  <2> DEFINE r == f[i]
             m == s.dft_objects[i + 1]
  <2>1. i \in Nat /\ i + 1 \in 1..L /\ Continues(s, r) /\ i <= Count(r)
    BY <1>0
  <2> HIDE DEF S
  <2>2. f[i + 1] = IF r.handle[m].state = "lazy" THEN Attach(r, m) ELSE r
    <3>1. i \in 0..(L - 1)
      BY <2>1
    <3> QED BY <1>a, <3>1 DEF Advance
  <2>3. /\ Running(r) /\ r.dft_objects = s.dft_objects
        /\ Count(r) \in Nat /\ Count(r) <= L
        /\ r.handle[m] = IF i + 1 <= Count(r) THEN Attached ELSE Lazy
    <3>1. Running(r) /\ r.dft_objects = s.dft_objects
      BY <2>1 DEF Continues, Same
    <3>2. Count(r) \in Nat /\ Count(r) <= L
      BY <3>1, RunningParts
    <3>3. r.handle[r.dft_objects[i + 1]] = IF i + 1 <= Count(r) THEN Attached ELSE Lazy
      BY <2>1, <3>1 DEF Running
    <3> QED BY <3>1, <3>2, <3>3
  <2> HIDE DEF r, m
  <2>4. CASE i + 1 <= Count(r)
    <3>1. r.handle[m].state # "lazy"
      BY <2>3, <2>4 DEF Attached
    <3> QED BY <2>1, <2>2, <2>4, <3>1
  <2>5. CASE ~ (i + 1 <= Count(r))
    <3>1. r.handle[m].state = "lazy" /\ i = Count(r)
      BY <2>1, <2>3, <2>5 DEF Lazy
    <3>2. m = r.dft_objects[Count(r) + 1] /\ Count(r) < Len(r.dft_objects)
      BY <1>0, <2>1, <2>3, <3>1 DEF m
    <3>3. Continues(r, Attach(r, m)) /\ Count(Attach(r, m)) = Count(r) + 1
      BY <2>3, <3>2, AttachNext
    <3>4. f[i + 1] = Attach(r, m)
      BY <2>2, <3>1
    <3>5. Continues(s, f[i + 1])
      BY <2>1, <3>3, <3>4, ContinuesTransitive
    <3> QED BY <2>1, <3>1, <3>3, <3>4, <3>5
  <2> QED BY <2>4, <2>5
<1>4. L \in S
  <2> HIDE DEF S
  <2>1. S \subseteq Nat
    BY DEF S
  <2> QED BY <1>0, <1>2, <1>3, <2>1, SetInduction
<1>5. Continues(s, f[L]) /\ L <= Count(f[L])
  BY <1>0, <1>4
<1>6. Full(f[L])
  <2>1. Running(f[L]) /\ f[L].dft_objects = s.dft_objects
    BY <1>5 DEF Continues, Same
  <2>2. Count(f[L]) \in Nat /\ Count(f[L]) <= L
    BY <2>1, RunningParts
  <2> QED BY <1>0, <1>5, <2>1, <2>2 DEF Full
<1> QED
  BY <1>1, <1>5, <1>6

\* New data of an entry.
LEMMA EntryData ==
  ASSUME NEW m, NEW d, NEW x
  PROVE  [Entry(m, d) EXCEPT !.data = x] = Entry(m, x)
<1> DEFINE e == Entry(m, d)
           f == Entry(m, x)
<1>1. /\ e = [y \in {"who", "held", "data"} |-> e[y]]
      /\ f = [y \in {"who", "held", "data"} |-> f[y]]
  BY DEF Entry
<1>2. e.who = f.who /\ e.held = f.held /\ f.data = x
  BY DEF Entry
<1> HIDE DEF e, f
<1>3. [e EXCEPT !.data = x] = f
  BY <1>1, <1>2
<1> QED
  BY <1>3 DEF e, f

Refilled(s, h, D) ==
  [s EXCEPT !.fields.history = h,
            !.fields.monitors = [i \in DOMAIN s.fields.monitors |->
               [s.fields.monitors[i] EXCEPT !.data = D[i]]]]

\* Every monitor has chunks: other data and another history are given to them.
LEMMA DataReplaced ==
  ASSUME NEW s, Full(s), NEW h, NEW D
  PROVE  LET v == Refilled(s, h, D)
         IN  /\ Full(v) /\ Same(s, v) /\ v.fields.history = h
             /\ \A i \in 1..Len(s.dft_objects) : DataAt(v, i) = D[i]
<1> DEFINE v == Refilled(s, h, D)
           n == Count(s)
           M == s.fields.monitors
           N == [i \in DOMAIN M |-> [M[i] EXCEPT !.data = D[i]]]
<1>0. Running(s) /\ n = Len(s.dft_objects)
  BY DEF Full
<1>1. n \in Nat /\ M = [i \in 1..n |-> M[i]]
  BY <1>0, RunningParts
<1>2. N = [i \in 1..n |-> Entry(s.dft_objects[i], D[i])]
  <2>1. \A i \in 1..n : [M[i] EXCEPT !.data = D[i]] = Entry(s.dft_objects[i], D[i])
    <3> SUFFICES ASSUME NEW i \in 1..n
                 PROVE  [M[i] EXCEPT !.data = D[i]] = Entry(s.dft_objects[i], D[i])
      OBVIOUS
    <3>1. M[i] = Entry(s.dft_objects[i], M[i].data)
      BY <1>0, RunningParts
    <3> DEFINE o == s.dft_objects[i]
               d == M[i].data
               x == D[i]
    <3>2. M[i] = Entry(o, d)
      BY <3>1
    <3> HIDE DEF M, o, d, x
    <3>3. [M[i] EXCEPT !.data = x] = Entry(o, x)
      BY <3>2, EntryData
    <3> QED BY <3>3 DEF o, x
  <2> QED BY <1>1, <2>1
<1>3. v = [s EXCEPT !.fields.history = h, !.fields.monitors = N]
  BY DEF Refilled
<1> HIDE DEF N, v
<1>4. Len(N) = n
  <2>1. N = [i \in 1..n |-> N[i]]
    BY <1>2
  <2> HIDE DEF n
  <2> QED BY <1>1, <2>1, ListLen
<1>5. s = [x \in SimNames |-> s[x]] /\ s.fields = [x \in FieldNames |-> s.fields[x]]
  BY <1>0, RunningParts
<1>6. /\ v = [x \in SimNames |-> v[x]]
      /\ v.fields = [s.fields EXCEPT !.history = h, !.monitors = N]
      /\ \A x \in SimNames \ {"fields"} : v[x] = s[x]
  BY <1>3, <1>5 DEF SimNames
<1>7. /\ v.fields = [x \in FieldNames |-> v.fields[x]] /\ v.fields.monitors = N
      /\ v.fields.history = h
      /\ \A x \in FieldNames \ {"monitors", "history"} : v.fields[x] = s.fields[x]
  BY <1>5, <1>6 DEF FieldNames
<1>8. /\ v.dft_objects = s.dft_objects /\ v.k_point = s.k_point /\ v.sources = s.sources
      /\ v.load_fields_file = s.load_fields_file /\ v.design = s.design
      /\ v.initialized = s.initialized /\ v.structure = s.structure /\ v.fault = s.fault
      /\ v.handle = s.handle
  BY <1>6 DEF SimNames
<1>9. /\ v.fields.exists = s.fields.exists /\ v.fields.k = s.fields.k
      /\ v.fields.sources = s.fields.sources /\ v.fields.structure = s.fields.structure
      /\ Count(v) = n
  BY <1>4, <1>7 DEF FieldNames, Count
<1>10. Formed(v)
  <2>1. Formed(s)
    BY <1>0 DEF Running
  <2>2. s.fault = "none" /\ s.design = "design" /\ s.handle = [m \in Monitors |-> s.handle[m]]
    BY <2>1 DEF Formed
  <2> QED BY <1>6, <1>8, <2>1, <2>2, FormedKept
<1>11. \A i \in 1..n : N[i] = Entry(s.dft_objects[i], D[i]) /\ N[i].data = D[i]
  BY <1>2 DEF Entry
<1>12. Running(v)
  <2>1. Count(v) \in 0..Len(v.dft_objects)
    BY <1>0, <1>1, <1>8, <1>9
  <2>2. v.fields.monitors =
          [i \in 1..Count(v) |-> Entry(v.dft_objects[i], v.fields.monitors[i].data)]
    <3>1. N = [i \in 1..n |-> Entry(s.dft_objects[i], N[i].data)]
      BY <1>2, <1>11
    <3> QED BY <1>7, <1>8, <1>9, <3>1
  <2>3. \A i \in 1..Len(v.dft_objects) :
          v.handle[v.dft_objects[i]] = IF i <= Count(v) THEN Attached ELSE Lazy
    BY <1>0, <1>8, <1>9 DEF Running
  <2>4. /\ v.fields.exists = TRUE /\ v.initialized = TRUE
        /\ v.structure = "design" /\ v.fields.structure = "design"
        /\ v.fields.k = v.k_point /\ v.fields.sources = <<v.sources>>
    BY <1>0, <1>8, <1>9 DEF Running
  <2> QED BY <1>7, <1>10, <2>1, <2>2, <2>3, <2>4 DEF Running
<1>13. Full(v)
  BY <1>0, <1>8, <1>9, <1>12 DEF Full
<1>14. \A i \in 1..Len(s.dft_objects) : DataAt(v, i) = D[i]
  BY <1>0, <1>1, <1>7, <1>9, <1>11 DEF DataAt
<1> QED
  BY <1>7, <1>8, <1>13, <1>14 DEF Same, v

\* A load gives each monitor the data at its position.
LEMMA LoadAll ==
  ASSUME NEW s, Running(s), NEW f, Len(f.data) = Len(s.dft_objects)
  PROVE  LET v == load_fields(s, f)
         IN  /\ Full(v) /\ Same(s, v) /\ v.fields.history = f.history
             /\ \A i \in 1..Len(s.dft_objects) : DataAt(v, i) = f.data[i]
<1> DEFINE e == evaluate_dft_objects(s)
           v == load_fields(s, f)
<1>1. Full(e) /\ Same(s, e)
  BY EvaluateAll DEF Continues
<1>2. Len(e.fields.monitors) = Len(f.data)
  BY <1>1 DEF Full, Count, Same
<1>3. v = Refilled(e, f.history, f.data)
  BY <1>2 DEF load_fields, Refilled
<1> HIDE DEF e, v
<1>4. /\ Full(v) /\ Same(e, v) /\ v.fields.history = f.history
      /\ \A i \in 1..Len(e.dft_objects) : DataAt(v, i) = f.data[i]
  BY <1>1, <1>3, DataReplaced
<1> QED
  BY <1>1, <1>4 DEF Same, v

\* A run appends to the history, and the history to the data of each monitor.
LEMMA RunAll ==
  ASSUME NEW s, Full(s)
  PROVE  LET v == _run_until(s)
             h == Append(s.fields.history, Piece(s))
         IN  /\ Full(v) /\ Same(s, v) /\ v.fields.history = h
             /\ \A i \in 1..Len(s.dft_objects) : DataAt(v, i) = Append(DataAt(s, i), h)
<1> DEFINE h == Append(s.fields.history, Piece(s))
           v == _run_until(s)
           M == s.fields.monitors
           n == Count(s)
           D == [i \in 1..n |-> Append(M[i].data, h)]
<1>1. Running(s) /\ n = Len(s.dft_objects) /\ s.fault = "none"
  BY DEF Full, Running, Formed
<1>2. n \in Nat /\ M = [i \in 1..n |-> M[i]]
  BY <1>1, RunningParts
<1>3. v = [s EXCEPT !.fields.history = h,
                    !.fields.monitors = [i \in DOMAIN M |->
                       [M[i] EXCEPT !.data = Append(@, h)]]]
  BY <1>1 DEF _run_until
<1> HIDE DEF h, v
<1>4. [i \in DOMAIN M |-> [M[i] EXCEPT !.data = Append(@, h)]]
        = [i \in DOMAIN M |-> [M[i] EXCEPT !.data = D[i]]]
  <2>1. DOMAIN M = 1..n
    BY <1>2
  <2>2. \A i \in 1..n : D[i] = Append(M[i].data, h)
    OBVIOUS
  <2> HIDE DEF n, M, D
  <2> QED BY <2>1, <2>2
<1>5. v = Refilled(s, h, D)
  BY <1>3, <1>4 DEF Refilled
<1>6. \A i \in 1..n : D[i] = Append(DataAt(s, i), h)
  <2> SUFFICES ASSUME NEW i \in 1..n PROVE D[i] = Append(DataAt(s, i), h)
    OBVIOUS
  <2>1. DataAt(s, i) = M[i].data
    BY <1>2 DEF DataAt
  <2> QED BY <2>1
<1> HIDE DEF D
<1>7. /\ Full(v) /\ Same(s, v) /\ v.fields.history = h
      /\ \A i \in 1..Len(s.dft_objects) : DataAt(v, i) = D[i]
  BY <1>5, DataReplaced
<1> QED
  BY <1>1, <1>6, <1>7 DEF v, h

\* The parts of a simulation without fields.
LEMMA WaitingParts ==
  ASSUME NEW s, Waiting(s)
  PROVE  /\ Formed(s) /\ s = [x \in SimNames |-> s[x]] /\ s.fault = "none" /\ s.design = "design"
         /\ s.fields = NoFields /\ s.fields.exists = FALSE /\ s.initialized = FALSE
         /\ s.handle = [m \in Monitors |-> s.handle[m]]
         /\ Len(s.dft_objects) \in Nat
         /\ \A i \in 1..Len(s.dft_objects) :
              s.dft_objects[i] \in Fluxes /\ s.dft_objects[i] \in Monitors
         /\ \A m \in Monitors : s.handle[m].state # "attached"
<1>1. /\ Formed(s) /\ s = [x \in SimNames |-> s[x]] /\ s.fault = "none" /\ s.design = "design"
      /\ s.fields = NoFields /\ s.initialized = FALSE
      /\ s.handle = [m \in Monitors |-> s.handle[m]]
      /\ s.dft_objects \in Seq(Fluxes)
  BY DEF Waiting, Formed
<1>2. s.fields.exists = FALSE
  BY <1>1 DEF NoFields
<1>3. Len(s.dft_objects) \in Nat /\ \A i \in 1..Len(s.dft_objects) : s.dft_objects[i] \in Fluxes
  BY <1>1, LenProperties
<1>4. \A i \in 1..Len(s.dft_objects) : s.dft_objects[i] \in Monitors
  BY <1>3, FluxesAssumption
<1>5. ASSUME NEW m \in Monitors PROVE s.handle[m].state # "attached"
  <2>1. CASE \A i \in 1..Len(s.dft_objects) : s.dft_objects[i] # m
    BY <2>1 DEF Waiting, Formed
  <2>2. CASE \E i \in 1..Len(s.dft_objects) : s.dft_objects[i] = m
    BY <2>2 DEF Waiting, Lazy
  <2> QED BY <2>1, <2>2
<1> QED
  BY <1>1, <1>2, <1>3, <1>4, <1>5

\* init_sim up to the load.
BareInit(s) ==
  LET d == [Destroyed(s) EXCEPT !.structure = IF @ = NoStructure THEN s.design ELSE @]
  IN  [d EXCEPT !.fields = NewFields(d), !.initialized = TRUE]

\* init_sim without a file starts with fields that have no monitors.
LEMMA BareInitRuns ==
  ASSUME NEW s, Waiting(s)
  PROVE  LET v == BareInit(s)
         IN  /\ Running(v) /\ Same(s, v) /\ v.fields.history = <<>> /\ Count(v) = 0
             /\ \A i \in 1..Len(s.dft_objects) : DataAt(v, i) = <<>>
<1> DEFINE c == Destroyed(s)
           d == [c EXCEPT !.structure = IF @ = NoStructure THEN s.design ELSE @]
           v == [d EXCEPT !.fields = NewFields(d), !.initialized = TRUE]
           L == Len(s.dft_objects)
<1>0. v = BareInit(s)
  BY DEF BareInit
<1>1. [m \in Monitors |-> IF s.handle[m].state # "attached" THEN s.handle[m]
                          ELSE IF m \in Persistent THEN Detached(DataOf(s, m)) ELSE Freed]
        = s.handle
  <2>1. \A m \in Monitors : s.handle[m].state # "attached"
    BY WaitingParts
  <2>2. s.handle = [m \in Monitors |-> s.handle[m]]
    BY WaitingParts
  <2> QED BY <2>1, <2>2
<1>2. c = s
  <2>1. c = [s EXCEPT !.fields = NoFields, !.handle = s.handle]
    BY <1>1 DEF Destroyed
  <2>2. s = [x \in SimNames |-> s[x]] /\ s.fields = NoFields
    BY WaitingParts
  <2> HIDE DEF c
  <2> QED BY <2>1, <2>2
<1> HIDE DEF c
<1>3. d = [s EXCEPT !.structure = "design"]
  <2>1. s = [x \in SimNames |-> s[x]] /\ s.design = "design"
    BY WaitingParts
  <2>2. s.structure = NoStructure \/ s.structure = "design"
    BY DEF Waiting
  <2>3. (IF s.structure = NoStructure THEN s.design ELSE s.structure) = "design"
    BY <2>1, <2>2
  <2> QED BY <1>2, <2>3
<1> HIDE DEF d
<1>4. /\ v = [x \in SimNames |-> v[x]]
      /\ v.fields = NewFields(d) /\ v.initialized = TRUE /\ v.structure = "design"
      /\ \A x \in SimNames \ {"fields", "initialized", "structure"} : v[x] = s[x]
  <2>1. s = [x \in SimNames |-> s[x]]
    BY WaitingParts
  <2>2. d = [x \in SimNames |-> d[x]] /\ d.structure = "design"
    BY <1>3, <2>1 DEF SimNames
  <2>3. \A x \in SimNames \ {"structure"} : d[x] = s[x]
    BY <1>3, <2>1
  <2>4. /\ v = [x \in SimNames |-> v[x]]
        /\ v.fields = NewFields(d) /\ v.initialized = TRUE /\ v.structure = d.structure
        /\ \A x \in SimNames \ {"fields", "initialized"} : v[x] = d[x]
    BY <2>2 DEF SimNames
  <2> HIDE DEF v
  <2> QED BY <2>2, <2>3, <2>4
<1>5. d.k_point = s.k_point /\ d.sources = s.sources /\ d.structure = "design"
  <2>1. s = [x \in SimNames |-> s[x]]
    BY WaitingParts
  <2> QED BY <1>3, <2>1 DEF SimNames
<1>6. /\ v.fields = [x \in FieldNames |-> v.fields[x]]
      /\ v.fields.exists = TRUE /\ v.fields.k = s.k_point /\ v.fields.sources = <<s.sources>>
      /\ v.fields.structure = "design" /\ v.fields.history = <<>> /\ v.fields.monitors = <<>>
  <2> HIDE DEF v
  <2>1. /\ NewFields(d) = [x \in FieldNames |-> NewFields(d)[x]]
        /\ NewFields(d).exists = TRUE
        /\ NewFields(d).k = d.k_point /\ NewFields(d).sources = <<d.sources>>
        /\ NewFields(d).structure = d.structure
        /\ NewFields(d).history = <<>> /\ NewFields(d).monitors = <<>>
    BY DEF NewFields, FieldNames
  <2> QED BY <1>4, <1>5, <2>1
<1> HIDE DEF v
<1>7. /\ v.dft_objects = s.dft_objects /\ v.k_point = s.k_point /\ v.sources = s.sources
      /\ v.load_fields_file = s.load_fields_file /\ v.design = s.design
      /\ v.fault = s.fault /\ v.handle = s.handle
  BY <1>4 DEF SimNames
<1>8. Count(v) = 0
  BY <1>6 DEF Count
<1>9. Formed(v)
  <2>1. Formed(s) /\ s.fault = "none" /\ s.design = "design"
        /\ s.handle = [m \in Monitors |-> s.handle[m]]
    BY WaitingParts
  <2> QED BY <1>4, <1>7, <2>1, FormedKept
<1>10. Running(v)
  <2>1. Count(v) \in 0..Len(v.dft_objects)
    BY <1>7, <1>8, WaitingParts
  <2>2. v.fields.monitors =
          [i \in 1..Count(v) |-> Entry(v.dft_objects[i], v.fields.monitors[i].data)]
    BY <1>6, <1>8
  <2>3. \A i \in 1..Len(v.dft_objects) :
          v.handle[v.dft_objects[i]] = IF i <= Count(v) THEN Attached ELSE Lazy
    BY <1>7, <1>8 DEF Waiting
  <2> QED BY <1>4, <1>6, <1>7, <1>9, <2>1, <2>2, <2>3 DEF Running
<1>11. \A i \in 1..L : DataAt(v, i) = <<>>
  BY <1>8 DEF DataAt
<1> QED
  BY <1>0, <1>6, <1>7, <1>8, <1>10, <1>11 DEF Same

\* A simulation starts: empty, or with what is in the file it was told to load.
LEMMA InitSim ==
  ASSUME NEW s, Waiting(s)
  PROVE  LET v == init_sim(s)
             f == s.load_fields_file
         IN  /\ f = NoFile =>
                  /\ Running(v) /\ Same(s, v) /\ v.fields.history = <<>> /\ Count(v) = 0
                  /\ \A i \in 1..Len(s.dft_objects) : DataAt(v, i) = <<>>
             /\ f # NoFile /\ Len(f.data) = Len(s.dft_objects) =>
                  /\ Running(v) /\ Same(s, v) /\ v.fields.history = f.history
                  /\ \A i \in 1..Len(s.dft_objects) : DataAt(v, i) = f.data[i]
<1> DEFINE f == s.load_fields_file
           b == BareInit(s)
           v == init_sim(s)
<1>1. s.initialized = FALSE
  BY DEF Waiting
<1>2. v = IF f = NoFile THEN b ELSE load_fields(b, f)
  BY <1>1 DEF init_sim, BareInit
<1>3. /\ Running(b) /\ Same(s, b) /\ b.fields.history = <<>> /\ Count(b) = 0
      /\ \A i \in 1..Len(s.dft_objects) : DataAt(b, i) = <<>>
  BY BareInitRuns
<1> HIDE DEF b, v
<1>4. CASE f = NoFile
  BY <1>2, <1>3, <1>4 DEF v
<1>5. CASE f # NoFile /\ Len(f.data) = Len(s.dft_objects)
  <2>1. v = load_fields(b, f) /\ Len(f.data) = Len(b.dft_objects)
    BY <1>2, <1>3, <1>5 DEF Same
  <2> HIDE DEF f
  <2>2. /\ Full(v) /\ Same(b, v) /\ v.fields.history = f.history
        /\ \A i \in 1..Len(b.dft_objects) : DataAt(v, i) = f.data[i]
    BY <1>3, <2>1, LoadAll
  <2>3. /\ Running(v) /\ Same(s, v) /\ v.fields.history = f.history
        /\ \A i \in 1..Len(s.dft_objects) : DataAt(v, i) = f.data[i]
    BY <1>3, <2>2 DEF Same, Full
  <2> QED BY <1>5, <2>3 DEF f, v
<1>6. CASE f # NoFile /\ Len(f.data) # Len(s.dft_objects)
  BY <1>6
<1> QED
  BY <1>4, <1>5, <1>6

\* A simulation with fields has all its attributes.
Shaped(s) ==
  /\ s = [x \in SimNames |-> s[x]] /\ s.fields = [x \in FieldNames |-> s.fields[x]]
  /\ s.handle = [m \in Monitors |-> s.handle[m]]

\* clear_dft_monitors, after some of the monitors.
Cleared(s, r, n) ==
  /\ Shaped(r)
  /\ \A x \in SimNames \ {"fields", "handle"} : r[x] = s[x]
  /\ \A x \in FieldNames \ {"monitors"} : r.fields[x] = s.fields[x]
  /\ \A i \in 1..Len(s.dft_objects) :
       r.handle[s.dft_objects[i]] = IF i <= n THEN Freed ELSE s.handle[s.dft_objects[i]]
  /\ \A m \in Monitors : (\A i \in 1..Len(s.dft_objects) : s.dft_objects[i] # m)
                           => r.handle[m] = s.handle[m]

\* A simulation whose monitors and handles alone change keeps the rest.
Handed(r, m, h, M) == [r EXCEPT !.handle[m] = h, !.fields.monitors = M]

\* What WithoutMonitors leaves of the parts of a simulation.
LEMMA ClearedParts ==
  ASSUME NEW r, NEW m, NEW h, NEW M, Shaped(r), m \in Monitors
  PROVE  LET v == Handed(r, m, h, M)
         IN  /\ Shaped(v)
             /\ \A x \in SimNames \ {"fields", "handle"} : v[x] = r[x]
             /\ \A x \in FieldNames \ {"monitors"} : v.fields[x] = r.fields[x]
             /\ v.handle[m] = h /\ \A i \in Monitors \ {m} : v.handle[i] = r.handle[i]
<1> DEFINE v == Handed(r, m, h, M)
<1>1. /\ v = [x \in SimNames |-> v[x]]
      /\ v.fields = [r.fields EXCEPT !.monitors = M]
      /\ v.handle = [r.handle EXCEPT ![m] = h]
      /\ \A x \in SimNames \ {"fields", "handle"} : v[x] = r[x]
  BY DEF SimNames, Shaped, Handed
<1> HIDE DEF v
<1>2. /\ v.fields = [x \in FieldNames |-> v.fields[x]]
      /\ \A x \in FieldNames \ {"monitors"} : v.fields[x] = r.fields[x]
  BY <1>1 DEF FieldNames, Shaped
<1>3. /\ v.handle = [i \in Monitors |-> v.handle[i]]
      /\ v.handle[m] = h /\ \A i \in Monitors \ {m} : v.handle[i] = r.handle[i]
  BY <1>1 DEF Shaped
<1> QED
  BY <1>1, <1>2, <1>3 DEF v, Shaped

\* One turn: the monitor gets chunks if it has none, and loses them.
LEMMA DropOne ==
  ASSUME NEW r, NEW m, Shaped(r), r.fields.exists = TRUE, m \in Monitors,
         m \notin Persistent, r.handle[m] \in {Lazy, Attached}
  PROVE  \E M : Dropped(r, m) = Handed(r, m, Freed, M)
<1> DEFINE a == swigobj_attr(r, m)
<1>0. /\ r = [x \in SimNames |-> r[x]] /\ r.fields = [x \in FieldNames |-> r.fields[x]]
      /\ r.handle = [i \in Monitors |-> r.handle[i]]
  BY DEF Shaped
<1>1. \E M : a = [r EXCEPT !.handle[m] = Attached, !.fields.monitors = M]
  <2>1. CASE r.handle[m] = Lazy
    <3>1. a = Attach(r, m)
      BY <2>1 DEF swigobj_attr, Created, WithFields, Lazy
    <3>2. PICK M : Attach(r, m) = [r EXCEPT !.fields.monitors = M, !.handle[m] = Attached]
      BY DEF Attach
    <3>3. [r EXCEPT !.fields.monitors = M, !.handle[m] = Attached]
            = [r EXCEPT !.handle[m] = Attached, !.fields.monitors = M]
      BY <1>0 DEF SimNames
    <3>4. a = [r EXCEPT !.handle[m] = Attached, !.fields.monitors = M]
      BY <3>1, <3>2, <3>3
    <3> HIDE DEF a
    <3> QED BY <3>4
  <2>2. CASE r.handle[m] = Attached
    <3>1. a = r
      BY <2>2 DEF swigobj_attr, Attached
    <3> DEFINE v == [r EXCEPT !.handle[m] = Attached, !.fields.monitors = r.fields.monitors]
    <3>2. /\ v = [x \in SimNames |-> v[x]]
          /\ v.fields = [r.fields EXCEPT !.monitors = r.fields.monitors]
          /\ v.handle = [r.handle EXCEPT ![m] = Attached]
          /\ \A x \in SimNames \ {"fields", "handle"} : v[x] = r[x]
      BY <1>0 DEF SimNames
    <3> HIDE DEF v
    <3>3. v.fields = r.fields /\ v.handle = r.handle
      BY <1>0, <2>2, <3>2 DEF FieldNames
    <3>4. \A x \in SimNames : v[x] = r[x]
      BY <3>2, <3>3
    <3>5. v = r
      BY <1>0, <3>2, <3>4
    <3> QED BY <3>1, <3>5 DEF v
  <2> QED BY <2>1, <2>2
<1>2. PICK M : a = [r EXCEPT !.handle[m] = Attached, !.fields.monitors = M]
  BY <1>1
<1> HIDE DEF a
<1>3. a.handle[m] = Attached
  <2>1. a.handle = [r.handle EXCEPT ![m] = Attached]
    BY <1>0, <1>2 DEF SimNames
  <2> QED BY <1>0, <2>1
<1>4. remove(a, m) = [a EXCEPT !.handle[m] = Freed,
                               !.fields.monitors = RemoveAt(@, EntryOf(a, m))]
  BY <1>3 DEF remove, Attached
<1> DEFINE N == RemoveAt(a.fields.monitors, EntryOf(a, m))
<1>5. remove(a, m) = [a EXCEPT !.handle[m] = Freed, !.fields.monitors = N]
  BY <1>4
<1> HIDE DEF N
<1>6. [a EXCEPT !.handle[m] = Freed, !.fields.monitors = N]
        = [r EXCEPT !.handle[m] = Freed, !.fields.monitors = N]
  BY <1>0, <1>2, ZenonT(40) DEF SimNames
<1>7. Dropped(r, m) = remove(a, m)
  BY DEF Dropped, a
<1>8. Handed(r, m, Freed, N) = [r EXCEPT !.handle[m] = Freed, !.fields.monitors = N]
  BY DEF Handed
<1> QED
  BY <1>5, <1>6, <1>7, <1>8

\* Without monitors the fields go on as before.
LEMMA ClearAll ==
  ASSUME NEW s, Running(s)
  PROVE  LET v == clear_dft_monitors(s)
         IN  /\ Running(v) /\ v.dft_objects = <<>>
             /\ v.k_point = s.k_point /\ v.sources = s.sources
             /\ v.load_fields_file = s.load_fields_file
             /\ v.fields.history = s.fields.history
<1> DEFINE L == Len(s.dft_objects)
           v == clear_dft_monitors(s)
<1>0. L \in Nat /\ s.dft_objects \in Seq(Fluxes) /\ s.fields.exists = TRUE
  BY RunningParts DEF Running, Formed
<1>1. PICK f : Unrolled(f, "clear", s) /\ v = WithoutMonitors(f[L])
  BY <1>0, LoopValue
<1> HIDE DEF v
<1>a. f[0] = s /\ \A i \in 0..(L - 1) : f[i + 1] = Dropped(f[i], s.dft_objects[i + 1])
  BY <1>1 DEF Unrolled, Advance
<1> DEFINE S == {i \in Nat : i <= L => Cleared(s, f[i], i)}
<1>2. 0 \in S
  <2>1. Cleared(s, s, 0)
    <3>1. Shaped(s)
      BY RunningParts DEF Shaped
    <3> QED BY <3>1, <1>0 DEF Cleared
  <2> QED BY <1>a, <2>1
<1>3. ASSUME NEW i \in S PROVE i + 1 \in S
  <2> SUFFICES ASSUME i + 1 <= L PROVE Cleared(s, f[i + 1], i + 1)
    OBVIOUS
  <2> DEFINE r == f[i]
             m == s.dft_objects[i + 1]
             u == f[i + 1]
  <2>1. i \in Nat /\ i + 1 \in 1..L /\ i \in 0..(L - 1) /\ Cleared(s, r, i)
    BY <1>0
  <2> HIDE DEF S
  <2>2. u = Dropped(r, m)
    BY <1>a, <2>1
  <2>3. m \in Monitors /\ m \notin Persistent
    BY <2>1, RunningParts, FluxesAssumption
  <2>4. r.handle[m] \in {Lazy, Attached}
    <3>0. \A j \in 1..L :
            r.handle[s.dft_objects[j]] = IF j <= i THEN Freed ELSE s.handle[s.dft_objects[j]]
      BY <2>1 DEF Cleared
    <3>1. r.handle[s.dft_objects[i + 1]] = s.handle[s.dft_objects[i + 1]]
      BY <2>1, <3>0
    <3>2. s.handle[s.dft_objects[i + 1]] \in {Lazy, Attached}
      BY <2>1 DEF Running
    <3> QED BY <3>1, <3>2
  <2>5. r.fields.exists = TRUE
    BY <1>0, <2>1 DEF Cleared, FieldNames
  <2> HIDE DEF r, u
  <2>6. PICK M : u = Handed(r, m, Freed, M)
    <3>1. Shaped(r)
      BY <2>1 DEF Cleared
    <3> HIDE DEF m
    <3> QED BY <2>2, <2>3, <2>4, <2>5, <3>1, DropOne
  <2>7. /\ Shaped(u)
        /\ \A x \in SimNames \ {"fields", "handle"} : u[x] = r[x]
        /\ \A x \in FieldNames \ {"monitors"} : u.fields[x] = r.fields[x]
        /\ u.handle[m] = Freed /\ \A j \in Monitors \ {m} : u.handle[j] = r.handle[j]
    <3>1. Shaped(r)
      BY <2>1 DEF Cleared
    <3> DEFINE g == Handed(r, m, Freed, M)
    <3> HIDE DEF m
    <3>2. /\ Shaped(g)
          /\ \A x \in SimNames \ {"fields", "handle"} : g[x] = r[x]
          /\ \A x \in FieldNames \ {"monitors"} : g.fields[x] = r.fields[x]
          /\ g.handle[m] = Freed /\ \A j \in Monitors \ {m} : g.handle[j] = r.handle[j]
      BY <2>3, <3>1, ClearedParts
    <3>3. u = g
      BY <2>6
    <3> HIDE DEF g
    <3> QED BY <3>2, <3>3
  <2>8. \A j \in 1..L :
          u.handle[s.dft_objects[j]] = IF j <= i + 1 THEN Freed ELSE s.handle[s.dft_objects[j]]
    <3> SUFFICES ASSUME NEW j \in 1..L
                 PROVE  u.handle[s.dft_objects[j]]
                          = IF j <= i + 1 THEN Freed ELSE s.handle[s.dft_objects[j]]
      OBVIOUS
    <3>1. s.dft_objects[j] \in Monitors /\ (s.dft_objects[j] = m => j = i + 1)
      BY <2>1, RunningParts
    <3>2. r.handle[s.dft_objects[j]] = IF j <= i THEN Freed ELSE s.handle[s.dft_objects[j]]
      BY <2>1 DEF Cleared
    <3>3. CASE j = i + 1
      BY <2>7, <3>3, <2>1
    <3>4. CASE j # i + 1
      <4>1. j <= i <=> j <= i + 1
        BY <2>1, <3>4
      <4>2. u.handle[s.dft_objects[j]] = r.handle[s.dft_objects[j]]
        BY <2>7, <3>1, <3>4
      <4> QED BY <3>2, <4>1, <4>2
    <3> QED BY <3>3, <3>4
  <2>9. \A j \in Monitors : (\A k \in 1..L : s.dft_objects[k] # j) => u.handle[j] = s.handle[j]
    <3> SUFFICES ASSUME NEW j \in Monitors, \A k \in 1..L : s.dft_objects[k] # j
                 PROVE  u.handle[j] = s.handle[j]
      OBVIOUS
    <3>1. j # m
      BY <2>1
    <3>2. r.handle[j] = s.handle[j]
      BY <2>1 DEF Cleared
    <3> QED BY <2>7, <3>1, <3>2
  <2>10. /\ \A x \in SimNames \ {"fields", "handle"} : u[x] = s[x]
         /\ \A x \in FieldNames \ {"monitors"} : u.fields[x] = s.fields[x]
    BY <2>1, <2>7 DEF Cleared
  <2> QED BY <2>7, <2>8, <2>9, <2>10 DEF Cleared, u
<1>4. L \in S
  <2> HIDE DEF S
  <2>1. S \subseteq Nat
    BY DEF S
  <2> QED BY <1>0, <1>2, <1>3, <2>1, SetInduction
<1> DEFINE r == f[L]
<1>5. Cleared(s, r, L) /\ v = WithoutMonitors(r)
  BY <1>0, <1>1, <1>4
<1> HIDE DEF r, S
<1>6. \A m \in Monitors : r.handle[m].state # "attached"
  <2> SUFFICES ASSUME NEW m \in Monitors PROVE r.handle[m].state # "attached"
    OBVIOUS
  <2>1. CASE \A i \in 1..L : s.dft_objects[i] # m
    BY <1>5, <2>1, ZenonT(40) DEF Cleared, Running, Formed
  <2>2. CASE \E i \in 1..L : s.dft_objects[i] = m
    <3>1. PICK i \in 1..L : s.dft_objects[i] = m
      BY <2>2
    <3>2. \A j \in 1..L :
            r.handle[s.dft_objects[j]] = IF j <= L THEN Freed ELSE s.handle[s.dft_objects[j]]
      BY <1>5 DEF Cleared
    <3>3. r.handle[m] = Freed
      BY <1>0, <3>1, <3>2
    <3> QED BY <3>3 DEF Freed
  <2> QED BY <2>1, <2>2
<1>7. v = [r EXCEPT !.dft_objects = <<>>, !.handle = r.handle, !.fields.monitors = <<>>]
  <2>1. [m \in Monitors |-> IF r.handle[m].state = "attached" THEN Detached(DataOf(r, m))
                            ELSE r.handle[m]] = r.handle
    BY <1>5, <1>6 DEF Cleared, Shaped
  <2> QED BY <1>5, <2>1 DEF WithoutMonitors
<1>8. r = [x \in SimNames |-> r[x]] /\ r.fields = [x \in FieldNames |-> r.fields[x]]
  BY <1>5 DEF Cleared, Shaped
<1>9. /\ v = [x \in SimNames |-> v[x]] /\ v.dft_objects = <<>> /\ v.handle = r.handle
      /\ v.fields = [r.fields EXCEPT !.monitors = <<>>]
      /\ \A x \in SimNames \ {"fields", "handle", "dft_objects"} : v[x] = r[x]
  BY <1>7, <1>8 DEF SimNames
<1>10. /\ v.fields = [x \in FieldNames |-> v.fields[x]] /\ v.fields.monitors = <<>>
       /\ \A x \in FieldNames \ {"monitors"} : v.fields[x] = r.fields[x]
  BY <1>8, <1>9 DEF FieldNames
<1>11. /\ v.k_point = s.k_point /\ v.sources = s.sources
       /\ v.load_fields_file = s.load_fields_file /\ v.design = s.design
       /\ v.initialized = s.initialized /\ v.structure = s.structure /\ v.fault = s.fault
  <2>1. \A x \in SimNames \ {"fields", "handle", "dft_objects"} : v[x] = s[x]
    BY <1>5, <1>9 DEF Cleared
  <2> QED BY <2>1 DEF SimNames
<1>12. /\ v.fields.exists = s.fields.exists /\ v.fields.k = s.fields.k
       /\ v.fields.sources = s.fields.sources /\ v.fields.structure = s.fields.structure
       /\ v.fields.history = s.fields.history
  <2>1. \A x \in FieldNames \ {"monitors"} : v.fields[x] = s.fields[x]
    BY <1>5, <1>10 DEF Cleared
  <2> QED BY <2>1 DEF FieldNames
<1>13. Count(v) = 0 /\ Len(v.dft_objects) = 0
  BY <1>9, <1>10 DEF Count
<1>14. Formed(v)
  <2>1. v.handle = [m \in Monitors |-> v.handle[m]]
    BY <1>5, <1>9 DEF Cleared, Shaped
  <2>2. v.fault = "none" /\ v.design = "design"
    BY <1>11 DEF Running, Formed
  <2>3. v.dft_objects \in Seq(Fluxes)
    BY <1>9, EmptySeq
  <2>4. \A i, j \in 1..Len(v.dft_objects) : v.dft_objects[i] = v.dft_objects[j] => i = j
    BY <1>13
  <2>5. \A m \in Monitors : v.handle[m].state # "attached"
    BY <1>6, <1>9
  <2> HIDE DEF v
  <2> QED BY <1>9, <2>1, <2>2, <2>3, <2>4, <2>5 DEF Formed
<1>15. Running(v)
  <2>1. v.fields.monitors =
          [i \in 1..Count(v) |-> Entry(v.dft_objects[i], v.fields.monitors[i].data)]
    BY <1>10, <1>13
  <2>2. Count(v) \in 0..Len(v.dft_objects)
    BY <1>13
  <2>3. \A i \in 1..Len(v.dft_objects) :
          v.handle[v.dft_objects[i]] = IF i <= Count(v) THEN Attached ELSE Lazy
    BY <1>13
  <2>4. /\ v.fields.exists = TRUE /\ v.initialized = TRUE
        /\ v.structure = "design" /\ v.fields.structure = "design"
        /\ v.fields.k = v.k_point /\ v.fields.sources = <<v.sources>>
    BY <1>11, <1>12 DEF Running
  <2> QED BY <1>10, <1>14, <2>1, <2>2, <2>3, <2>4 DEF Running
<1> QED
  BY <1>9, <1>11, <1>12, <1>15 DEF v

\* A new process.
LEMMA NewSimulationWaits ==
  ASSUME NEW k, NEW l
  PROVE  LET v == NewSimulation(k, l, "design")
         IN  Waiting(v) /\ v.dft_objects = <<>> /\ v.load_fields_file = NoFile
<1> DEFINE v == NewSimulation(k, l, "design")
<1>1. /\ v = [x \in SimNames |-> v[x]]
      /\ v.fields = NoFields /\ v.initialized = FALSE /\ v.structure = NoStructure
      /\ v.fault = "none" /\ v.design = "design" /\ v.dft_objects = <<>>
      /\ v.load_fields_file = NoFile /\ v.handle = [m \in Monitors |-> Lazy]
  BY DEF NewSimulation, SimNames
<1> HIDE DEF v
<1>2. /\ v.handle = [m \in Monitors |-> v.handle[m]]
      /\ \A m \in Monitors : v.handle[m].state # "attached"
  BY <1>1 DEF Lazy
<1>3. v.dft_objects \in Seq(Fluxes) /\ Len(v.dft_objects) = 0
  BY <1>1, EmptySeq
<1>4. Formed(v)
  <2>1. \A i, j \in 1..Len(v.dft_objects) : v.dft_objects[i] = v.dft_objects[j] => i = j
    BY <1>3
  <2> QED BY <1>1, <1>2, <1>3, <2>1 DEF Formed
<1>5. \A i \in 1..Len(v.dft_objects) : v.handle[v.dft_objects[i]] = Lazy
  BY <1>3
<1> QED
  BY <1>1, <1>4, <1>5 DEF Waiting, v

\* Without fields only the attributes of the script change.
LEMMA WaitingKept ==
  ASSUME NEW s, NEW v, Waiting(s), v = [x \in SimNames |-> v[x]],
         \A x \in SimNames \ {"k_point", "sources", "load_fields_file"} : v[x] = s[x]
  PROVE  Waiting(v) /\ v.dft_objects = s.dft_objects
<1>1. /\ v.dft_objects = s.dft_objects /\ v.design = s.design /\ v.fields = s.fields
      /\ v.initialized = s.initialized /\ v.structure = s.structure /\ v.fault = s.fault
      /\ v.handle = s.handle
  BY DEF SimNames
<1>2. Formed(v)
  <2>1. Formed(s) /\ s.fault = "none" /\ s.design = "design"
        /\ s.handle = [m \in Monitors |-> s.handle[m]]
    BY WaitingParts
  <2> QED BY <1>1, <2>1, FormedKept
<1>3. /\ v.fields = NoFields /\ v.initialized = FALSE /\ v.structure \in {NoStructure, "design"}
      /\ \A i \in 1..Len(v.dft_objects) : v.handle[v.dft_objects[i]] = Lazy
  BY <1>1 DEF Waiting
<1> QED
  BY <1>1, <1>2, <1>3 DEF Waiting

\* With fields they are those of the fields from now on; the history may be
\* forgotten, the data of the monitors are not.
LEMMA RunningKept ==
  ASSUME NEW s, NEW v, Running(s), Shaped(v),
         \A x \in SimNames \ {"fields", "k_point", "sources"} : v[x] = s[x],
         \A x \in FieldNames \ {"k", "sources", "history"} : v.fields[x] = s.fields[x],
         v.fields.k = v.k_point, v.fields.sources = <<v.sources>>
  PROVE  /\ Running(v) /\ v.dft_objects = s.dft_objects
         /\ v.load_fields_file = s.load_fields_file
         /\ \A i \in 1..Len(s.dft_objects) : DataAt(v, i) = DataAt(s, i)
<1>1. /\ v.dft_objects = s.dft_objects /\ v.design = s.design
      /\ v.initialized = s.initialized /\ v.structure = s.structure /\ v.fault = s.fault
      /\ v.handle = s.handle /\ v.load_fields_file = s.load_fields_file
  BY DEF SimNames
<1>2. /\ v.fields.exists = s.fields.exists /\ v.fields.structure = s.fields.structure
      /\ v.fields.monitors = s.fields.monitors
  BY DEF FieldNames
<1>3. Count(v) = Count(s)
  BY <1>2 DEF Count
<1>4. Formed(v)
  <2>1. Formed(s) /\ s.fault = "none" /\ s.design = "design"
    BY DEF Running, Formed
  <2>2. v = [x \in SimNames |-> v[x]] /\ v.handle = [m \in Monitors |-> v.handle[m]]
    BY DEF Shaped
  <2> QED BY <1>1, <2>1, <2>2, FormedKept
<1>5. Running(v)
  <2>1. v.fields.monitors =
          [i \in 1..Count(v) |-> Entry(v.dft_objects[i], v.fields.monitors[i].data)]
    BY <1>1, <1>2, <1>3 DEF Running
  <2>2. Count(v) \in 0..Len(v.dft_objects)
    BY <1>1, <1>3 DEF Running
  <2>3. \A i \in 1..Len(v.dft_objects) :
          v.handle[v.dft_objects[i]] = IF i <= Count(v) THEN Attached ELSE Lazy
    BY <1>1, <1>3 DEF Running
  <2>4. /\ v.fields.exists = TRUE /\ v.initialized = TRUE
        /\ v.structure = "design" /\ v.fields.structure = "design"
        /\ v.fields.k = v.k_point /\ v.fields.sources = <<v.sources>>
    BY <1>1, <1>2 DEF Running
  <2>5. v.fields = [x \in FieldNames |-> v.fields[x]]
    BY DEF Shaped
  <2> QED BY <1>4, <2>1, <2>2, <2>3, <2>4, <2>5 DEF Running
<1>6. \A i \in 1..Len(s.dft_objects) : DataAt(v, i) = DataAt(s, i)
  BY <1>2, <1>3 DEF DataAt
<1> QED
  BY <1>1, <1>5, <1>6

\* Sources are changed in place.
LEMMA ChangeSourcesKeeps ==
  ASSUME NEW s, NEW l, Waiting(s) \/ Running(s)
  PROVE  LET v == change_sources(s, l)
         IN  /\ v.dft_objects = s.dft_objects /\ v.load_fields_file = s.load_fields_file
             /\ Waiting(s) => Waiting(v)
             /\ Running(s) => /\ Running(v) /\ v.fields.history = s.fields.history
                              /\ \A i \in 1..Len(s.dft_objects) : DataAt(v, i) = DataAt(s, i)
<1> DEFINE v == change_sources(s, l)
<1>1. ASSUME Waiting(s)
      PROVE  /\ v.dft_objects = s.dft_objects /\ v.load_fields_file = s.load_fields_file
             /\ Waiting(v) /\ ~ Running(s)
  <2>1. s.fields.exists = FALSE /\ s = [x \in SimNames |-> s[x]]
    BY <1>1, WaitingParts
  <2>2. v = [s EXCEPT !.sources = l] /\ ~ Running(s)
    BY <2>1 DEF change_sources, Running
  <2> HIDE DEF v
  <2>3. v = [x \in SimNames |-> v[x]] /\ \A x \in SimNames \ {"sources"} : v[x] = s[x]
    BY <2>1, <2>2 DEF SimNames
  <2>4. v.load_fields_file = s.load_fields_file
    BY <2>3 DEF SimNames
  <2>5. Waiting(v) /\ v.dft_objects = s.dft_objects
    BY <1>1, <2>3, WaitingKept
  <2> QED BY <2>2, <2>4, <2>5
<1>2. ASSUME Running(s)
      PROVE  /\ v.dft_objects = s.dft_objects /\ v.load_fields_file = s.load_fields_file
             /\ Running(v) /\ v.fields.history = s.fields.history /\ ~ Waiting(s)
             /\ \A i \in 1..Len(s.dft_objects) : DataAt(v, i) = DataAt(s, i)
  <2>1. /\ s = [x \in SimNames |-> s[x]] /\ s.fields = [x \in FieldNames |-> s.fields[x]]
        /\ s.handle = [m \in Monitors |-> s.handle[m]]
    BY <1>2, RunningParts
  <2>2. s.fields.exists = TRUE /\ s.fields.k = s.k_point
    BY <1>2 DEF Running
  <2>3. v = [s EXCEPT !.sources = l, !.fields.sources = <<l>>]
    BY <2>2 DEF change_sources
  <2>4. ~ Waiting(s)
    BY <2>2, WaitingParts
  <2> HIDE DEF v
  <2>5. /\ v = [x \in SimNames |-> v[x]] /\ v.sources = l
        /\ v.fields = [s.fields EXCEPT !.sources = <<l>>]
        /\ \A x \in SimNames \ {"fields", "sources"} : v[x] = s[x]
    BY <2>1, <2>3 DEF SimNames
  <2>6. /\ v.fields = [x \in FieldNames |-> v.fields[x]] /\ v.fields.sources = <<l>>
        /\ \A x \in FieldNames \ {"sources"} : v.fields[x] = s.fields[x]
    BY <2>1, <2>5 DEF FieldNames
  <2>7. v.handle = s.handle /\ v.k_point = s.k_point /\ v.fields.k = s.fields.k
        /\ v.fields.history = s.fields.history
    BY <2>5, <2>6 DEF SimNames, FieldNames
  <2>8. Shaped(v)
    BY <2>1, <2>5, <2>6, <2>7 DEF Shaped
  <2> QED BY <1>2, <2>2, <2>4, <2>5, <2>6, <2>7, <2>8, RunningKept
<1> QED
  BY <1>1, <1>2

\* The fields go: no monitor has chunks any more.
LEMMA DestroyedParts ==
  ASSUME NEW s, Waiting(s) \/ Running(s)
  PROVE  LET v == Destroyed(s)
         IN  /\ v = [x \in SimNames |-> v[x]] /\ v.fields = NoFields
             /\ v.handle = [m \in Monitors |-> v.handle[m]]
             /\ \A m \in Monitors : v.handle[m].state # "attached"
             /\ \A x \in SimNames \ {"fields", "handle"} : v[x] = s[x]
<1> DEFINE v == Destroyed(s)
           H == [m \in Monitors |->
                   IF s.handle[m].state # "attached" THEN s.handle[m]
                   ELSE IF m \in Persistent THEN Detached(DataOf(s, m)) ELSE Freed]
<1>1. s = [x \in SimNames |-> s[x]]
  BY WaitingParts, RunningParts
<1>2. v = [s EXCEPT !.fields = NoFields, !.handle = H]
  BY DEF Destroyed
<1>3. H = [m \in Monitors |-> H[m]]
  OBVIOUS
<1>4. \A m \in Monitors : H[m].state # "attached"
  <2> SUFFICES ASSUME NEW m \in Monitors PROVE H[m].state # "attached"
    OBVIOUS
  <2> DEFINE d == DataOf(s, m)
  <2>1. H[m] = IF s.handle[m].state # "attached" THEN s.handle[m]
               ELSE IF m \in Persistent THEN Detached(d) ELSE Freed
    OBVIOUS
  <2>2. Detached(d).state = "detached" /\ Freed.state = "freed"
    BY DEF Detached, Freed
  <2> HIDE DEF H, d
  <2> QED BY <2>1, <2>2
<1> HIDE DEF H, v
<1>5. /\ v = [x \in SimNames |-> v[x]] /\ v.fields = NoFields /\ v.handle = H
      /\ \A x \in SimNames \ {"fields", "handle"} : v[x] = s[x]
  BY <1>1, <1>2 DEF SimNames
<1> QED
  BY <1>3, <1>4, <1>5 DEF v

\* A simulation that is as new but for its attributes.
LEMMA EmptyWaits ==
  ASSUME NEW v, v = [x \in SimNames |-> v[x]],
         v.fault = "none", v.design = "design",
         v.handle = [m \in Monitors |-> v.handle[m]],
         \A m \in Monitors : v.handle[m].state # "attached",
         v.dft_objects = <<>>, v.fields = NoFields, v.initialized = FALSE,
         v.structure \in {NoStructure, "design"}
  PROVE  Waiting(v)
<1>1. v.dft_objects \in Seq(Fluxes) /\ Len(v.dft_objects) = 0
  BY EmptySeq
<1>2. /\ \A i, j \in 1..Len(v.dft_objects) : v.dft_objects[i] = v.dft_objects[j] => i = j
      /\ \A i \in 1..Len(v.dft_objects) : v.handle[v.dft_objects[i]] = Lazy
  BY <1>1
<1>3. Formed(v)
  BY <1>1, <1>2 DEF Formed
<1> QED
  BY <1>2, <1>3 DEF Waiting

\* A reset leaves a simulation without fields and monitors.
LEMMA ResetWaits ==
  ASSUME NEW s, Waiting(s) \/ Running(s)
  PROVE  LET v == reset_meep(s)
         IN  /\ Waiting(v) /\ v.dft_objects = <<>> /\ v.load_fields_file = s.load_fields_file
<1> DEFINE d == Destroyed(s)
           v == reset_meep(s)
<1>1. /\ d = [x \in SimNames |-> d[x]] /\ d.fields = NoFields
      /\ d.handle = [m \in Monitors |-> d.handle[m]]
      /\ \A m \in Monitors : d.handle[m].state # "attached"
      /\ \A x \in SimNames \ {"fields", "handle"} : d[x] = s[x]
  BY DestroyedParts
<1>2. s.fault = "none" /\ s.design = "design"
  BY DEF Waiting, Running, Formed
<1>3. v = [d EXCEPT !.structure = NoStructure, !.dft_objects = <<>>, !.initialized = FALSE]
  BY DEF reset_meep
<1> HIDE DEF d, v
<1>4. /\ v = [x \in SimNames |-> v[x]]
      /\ v.structure = NoStructure /\ v.dft_objects = <<>> /\ v.initialized = FALSE
      /\ v.fields = d.fields /\ v.handle = d.handle /\ v.fault = d.fault /\ v.design = d.design
      /\ v.load_fields_file = d.load_fields_file
  BY <1>1, <1>3 DEF SimNames
<1>5. d.fault = s.fault /\ d.design = s.design /\ d.load_fields_file = s.load_fields_file
  BY <1>1 DEF SimNames
<1>6. /\ v.fields = NoFields /\ v.handle = [m \in Monitors |-> v.handle[m]]
      /\ \A m \in Monitors : v.handle[m].state # "attached"
      /\ v.fault = "none" /\ v.design = "design"
      /\ v.load_fields_file = s.load_fields_file
  BY <1>1, <1>2, <1>4, <1>5
<1>7. Waiting(v)
  BY <1>4, <1>6, EmptyWaits
<1> QED
  BY <1>4, <1>6, <1>7 DEF v

\* The history is forgotten, in fields that go on or by starting the simulation.
LEMMA RestartedRuns ==
  ASSUME NEW s, Running(s) \/ (Waiting(s) /\ s.load_fields_file = NoFile)
  PROVE  LET v == restarted(s)
         IN  /\ Running(v) /\ v.dft_objects = s.dft_objects /\ v.fields.history = <<>>
             /\ v.load_fields_file = s.load_fields_file
             /\ Running(s) => \A i \in 1..Len(s.dft_objects) : DataAt(v, i) = DataAt(s, i)
             /\ Waiting(s) => \A i \in 1..Len(s.dft_objects) : DataAt(v, i) = <<>>
<1> DEFINE v == restarted(s)
<1>1. CASE Running(s)
  <2>1. /\ s = [x \in SimNames |-> s[x]] /\ s.fields = [x \in FieldNames |-> s.fields[x]]
        /\ s.handle = [m \in Monitors |-> s.handle[m]]
    BY <1>1, RunningParts
  <2>2. s.fields.exists = TRUE /\ s.fields.k = s.k_point /\ s.fields.sources = <<s.sources>>
    BY <1>1 DEF Running
  <2>3. v = [s EXCEPT !.fields.history = <<>>]
    BY <2>2 DEF restarted
  <2>4. ~ Waiting(s)
    BY <2>2, WaitingParts
  <2> HIDE DEF v
  <2>5. /\ v = [x \in SimNames |-> v[x]]
        /\ v.fields = [s.fields EXCEPT !.history = <<>>]
        /\ \A x \in SimNames \ {"fields"} : v[x] = s[x]
    BY <2>1, <2>3 DEF SimNames
  <2>6. /\ v.fields = [x \in FieldNames |-> v.fields[x]] /\ v.fields.history = <<>>
        /\ \A x \in FieldNames \ {"history"} : v.fields[x] = s.fields[x]
    BY <2>1, <2>5 DEF FieldNames
  <2>7. v.handle = s.handle /\ v.k_point = s.k_point /\ v.sources = s.sources
        /\ v.fields.k = s.fields.k /\ v.fields.sources = s.fields.sources
    BY <2>5, <2>6 DEF SimNames, FieldNames
  <2>8. Shaped(v)
    BY <2>1, <2>5, <2>6, <2>7 DEF Shaped
  <2>9. /\ Running(v) /\ v.dft_objects = s.dft_objects
        /\ v.load_fields_file = s.load_fields_file
        /\ \A i \in 1..Len(s.dft_objects) : DataAt(v, i) = DataAt(s, i)
    <3>1. v.fields.k = v.k_point /\ v.fields.sources = <<v.sources>>
      BY <2>2, <2>7
    <3>2. \A x \in SimNames \ {"fields", "k_point", "sources"} : v[x] = s[x]
      BY <2>5
    <3>3. \A x \in FieldNames \ {"k", "sources", "history"} : v.fields[x] = s.fields[x]
      BY <2>6
    <3> QED BY <1>1, <2>8, <3>1, <3>2, <3>3, RunningKept
  <2> QED BY <2>4, <2>6, <2>9, <1>1 DEF v
<1>2. CASE Waiting(s) /\ s.load_fields_file = NoFile
  <2> DEFINE w == [s EXCEPT !.initialized = FALSE]
  <2>1. s.fields.exists = FALSE /\ s.initialized = FALSE /\ s = [x \in SimNames |-> s[x]]
    BY <1>2, WaitingParts
  <2>2. v = init_sim(w) /\ ~ Running(s)
    BY <2>1 DEF restarted, Running
  <2>3. w = s
    <3>1. w = [x \in SimNames |-> w[x]] /\ \A x \in SimNames : w[x] = s[x]
      BY <2>1 DEF SimNames
    <3> QED BY <2>1, <3>1
  <2> HIDE DEF w, v
  <2>4. /\ Running(v) /\ Same(s, v) /\ v.fields.history = <<>>
        /\ \A i \in 1..Len(s.dft_objects) : DataAt(v, i) = <<>>
    BY <1>2, <2>2, <2>3, InitSim
  <2> QED BY <1>2, <2>2, <2>4 DEF Same, v
<1> QED
  BY <1>1, <1>2

\* A new monitor has no chunks and comes last.
LEMMA AddMonitorKeeps ==
  ASSUME NEW s, NEW m, Waiting(s) \/ Running(s), m \in Fluxes,
         \A i \in 1..Len(s.dft_objects) : s.dft_objects[i] # m
  PROVE  LET v == add_monitor(s, m)
         IN  /\ v.dft_objects = Append(s.dft_objects, m)
             /\ v.load_fields_file = s.load_fields_file
             /\ Waiting(s) => Waiting(v)
             /\ Running(s) => /\ Running(v) /\ v.fields = s.fields /\ Count(v) = Count(s)
<1> DEFINE v == add_monitor(s, m)
           L == Len(s.dft_objects)
<1>1. /\ s = [x \in SimNames |-> s[x]] /\ Formed(s) /\ s.dft_objects \in Seq(Fluxes)
      /\ s.fault = "none" /\ s.design = "design" /\ s.handle = [i \in Monitors |-> s.handle[i]]
      /\ \A i, j \in 1..L : s.dft_objects[i] = s.dft_objects[j] => i = j
      /\ \A i \in Monitors : (\A j \in 1..L : s.dft_objects[j] # i)
                               => s.handle[i].state # "attached"
  BY DEF Waiting, Running, Formed
<1>2. m \in Monitors
  BY FluxesAssumption
<1>3. /\ v = [x \in SimNames |-> v[x]] /\ v.dft_objects = Append(s.dft_objects, m)
      /\ v.handle = [s.handle EXCEPT ![m] = Lazy]
      /\ \A x \in SimNames \ {"handle", "dft_objects"} : v[x] = s[x]
  BY <1>1 DEF add_monitor, SimNames
<1> HIDE DEF v
<1>4. /\ v.load_fields_file = s.load_fields_file /\ v.fields = s.fields
      /\ v.fault = s.fault /\ v.design = s.design /\ v.structure = s.structure
      /\ v.initialized = s.initialized /\ v.k_point = s.k_point /\ v.sources = s.sources
  BY <1>3 DEF SimNames
<1>5. L \in Nat /\ \A i \in 1..L : s.dft_objects[i] \in Monitors
  <2>1. L \in Nat /\ \A i \in 1..L : s.dft_objects[i] \in Fluxes
    BY <1>1, LenProperties
  <2> QED BY <2>1, FluxesAssumption
<1>6. /\ v.dft_objects \in Seq(Fluxes) /\ Len(v.dft_objects) = L + 1
      /\ \A i \in 1..L : v.dft_objects[i] = s.dft_objects[i]
      /\ v.dft_objects[L + 1] = m
  <2> DEFINE o == s.dft_objects
  <2>1. o \in Seq(Fluxes) /\ v.dft_objects = Append(o, m)
    BY <1>1, <1>3
  <2> HIDE DEF o
  <2>2. /\ Append(o, m) \in Seq(Fluxes) /\ Len(Append(o, m)) = Len(o) + 1
        /\ \A i \in 1..Len(o) : Append(o, m)[i] = o[i]
        /\ Append(o, m)[Len(o) + 1] = m
    BY <2>1, AppendProperties
  <2> QED BY <2>1, <2>2 DEF o
<1>7. /\ v.handle = [i \in Monitors |-> v.handle[i]] /\ v.handle[m] = Lazy
      /\ \A i \in Monitors \ {m} : v.handle[i] = s.handle[i]
  BY <1>1, <1>2, <1>3
<1>8. \A i \in 1..L : v.handle[s.dft_objects[i]] = s.handle[s.dft_objects[i]]
  BY <1>5, <1>7
<1>9. Formed(v)
  <2>1. \A i, j \in 1..(L + 1) : v.dft_objects[i] = v.dft_objects[j] => i = j
    <3> SUFFICES ASSUME NEW i \in 1..(L + 1), NEW j \in 1..(L + 1),
                        v.dft_objects[i] = v.dft_objects[j]
                 PROVE  i = j
      OBVIOUS
    <3>1. i \in 1..L \/ i = L + 1
      BY <1>5
    <3>2. j \in 1..L \/ j = L + 1
      BY <1>5
    <3> QED BY <1>1, <1>6, <3>1, <3>2
  <2>2. ASSUME NEW i \in Monitors, \A j \in 1..(L + 1) : v.dft_objects[j] # i
        PROVE  v.handle[i].state # "attached"
    <3>1. \A j \in 1..L : s.dft_objects[j] # i
      BY <1>5, <1>6, <2>2
    <3>2. i # m
      BY <1>5, <1>6, <2>2
    <3>3. v.handle[i] = s.handle[i]
      BY <1>7, <3>2
    <3> QED BY <1>1, <3>1, <3>3
  <2>3. \A i, j \in 1..Len(v.dft_objects) : v.dft_objects[i] = v.dft_objects[j] => i = j
    BY <1>6, <2>1
  <2>4. \A i \in Monitors : (\A j \in 1..Len(v.dft_objects) : v.dft_objects[j] # i)
                              => v.handle[i].state # "attached"
    BY <1>6, <2>2
  <2> QED BY <1>1, <1>3, <1>4, <1>6, <1>7, <2>3, <2>4 DEF Formed
<1>10. ASSUME Waiting(s) PROVE Waiting(v)
  <2>1. \A i \in 1..L : s.handle[s.dft_objects[i]] = Lazy
    BY <1>10 DEF Waiting
  <2>2. \A i \in 1..Len(v.dft_objects) : v.handle[v.dft_objects[i]] = Lazy
    <3> SUFFICES ASSUME NEW i \in 1..(L + 1) PROVE v.handle[v.dft_objects[i]] = Lazy
      BY <1>6
    <3>1. CASE i = L + 1
      BY <1>6, <1>7, <3>1
    <3>2. CASE i # L + 1
      <4>1. i \in 1..L
        BY <1>5, <3>2
      <4> QED BY <1>6, <1>8, <2>1, <4>1
    <3> QED BY <3>1, <3>2
  <2> QED BY <1>4, <1>9, <1>10, <2>2 DEF Waiting
<1>11. ASSUME Running(s) PROVE Running(v) /\ Count(v) = Count(s)
  <2>1. Count(v) = Count(s) /\ Count(s) \in Nat /\ Count(s) <= L
    BY <1>4, <1>11, RunningParts DEF Count
  <2>2. Count(v) \in 0..Len(v.dft_objects)
    BY <1>5, <1>6, <2>1
  <2>3. v.fields.monitors =
          [i \in 1..Count(v) |-> Entry(v.dft_objects[i], v.fields.monitors[i].data)]
    <3>1. s.fields.monitors =
            [i \in 1..Count(s) |-> Entry(s.dft_objects[i], s.fields.monitors[i].data)]
      BY <1>11 DEF Running
    <3>2. \A i \in 1..Count(s) : v.dft_objects[i] = s.dft_objects[i]
      BY <1>5, <1>6, <2>1
    <3> QED BY <1>4, <2>1, <3>1, <3>2
  <2>4. \A i \in 1..Len(v.dft_objects) :
          v.handle[v.dft_objects[i]] = IF i <= Count(v) THEN Attached ELSE Lazy
    <3> SUFFICES ASSUME NEW i \in 1..(L + 1)
                 PROVE  v.handle[v.dft_objects[i]] = IF i <= Count(v) THEN Attached ELSE Lazy
      BY <1>6
    <3>1. CASE i = L + 1
      BY <1>5, <1>6, <1>7, <2>1, <3>1
    <3>2. CASE i # L + 1
      <4>1. i \in 1..L
        BY <1>5, <3>2
      <4>2. s.handle[s.dft_objects[i]] = IF i <= Count(s) THEN Attached ELSE Lazy
        BY <1>11, <4>1 DEF Running
      <4> QED BY <1>6, <1>8, <2>1, <4>1, <4>2
    <3> QED BY <3>1, <3>2
  <2>5. /\ v.fields = [x \in FieldNames |-> v.fields[x]]
        /\ v.fields.exists = TRUE /\ v.initialized = TRUE
        /\ v.structure = "design" /\ v.fields.structure = "design"
        /\ v.fields.k = v.k_point /\ v.fields.sources = <<v.sources>>
    BY <1>4, <1>11 DEF Running
  <2> QED BY <1>9, <2>1, <2>2, <2>3, <2>4, <2>5 DEF Running
<1> QED
  BY <1>3, <1>4, <1>10, <1>11 DEF v

\* A Bloch vector that needs complex fields starts a new simulation.
LEMMA ChangeBlochKeeps ==
  ASSUME NEW s, NEW k, Waiting(s) \/ Running(s)
  PROVE  LET v == change_k_point(s, k)
             restarts == s.fields.exists /\ s.fields.real /\ k # 0
         IN  /\ Waiting(s) => /\ Waiting(v) /\ v.dft_objects = s.dft_objects
                              /\ v.load_fields_file = s.load_fields_file
             /\ Running(s) /\ ~ restarts =>
                  /\ Running(v) /\ v.dft_objects = s.dft_objects
                  /\ v.load_fields_file = s.load_fields_file
                  /\ v.fields.history = s.fields.history
                  /\ \A i \in 1..Len(s.dft_objects) : DataAt(v, i) = DataAt(s, i)
             /\ Running(s) /\ restarts /\ s.dft_objects = <<>> /\ s.load_fields_file = NoFile =>
                  /\ Running(v) /\ v.dft_objects = <<>> /\ v.load_fields_file = NoFile
                  /\ v.fields.history = <<>>
<1> DEFINE v == change_k_point(s, k)
           c == [s EXCEPT !.k_point = k]
           restarts == s.fields.exists /\ s.fields.real /\ k # 0
<1>0. s = [x \in SimNames |-> s[x]]
  BY WaitingParts, RunningParts
<1>1. c = [x \in SimNames |-> c[x]] /\ c.k_point = k
      /\ \A x \in SimNames \ {"k_point"} : c[x] = s[x]
  BY <1>0 DEF SimNames
<1>a. v = IF ~ s.fields.exists THEN c
          ELSE IF k # 0 /\ s.fields.real
          THEN init_sim([Destroyed(c) EXCEPT !.initialized = FALSE])
          ELSE [c EXCEPT !.fields.k = k]
  BY DEF change_k_point
<1> HIDE DEF c, v
<1>2. c.load_fields_file = s.load_fields_file /\ c.fields = s.fields /\ c.handle = s.handle
      /\ c.sources = s.sources /\ c.dft_objects = s.dft_objects /\ c.fault = s.fault
      /\ c.design = s.design /\ c.structure = s.structure
  BY <1>1 DEF SimNames
<1>3. ASSUME Waiting(s)
      PROVE  /\ Waiting(v) /\ v.dft_objects = s.dft_objects
             /\ v.load_fields_file = s.load_fields_file /\ ~ Running(s)
  <2>1. s.fields.exists = FALSE
    BY <1>3, WaitingParts
  <2>2. v = c /\ ~ Running(s)
    BY <1>a, <2>1 DEF Running
  <2>3. \A x \in SimNames \ {"k_point", "sources", "load_fields_file"} : c[x] = s[x]
    BY <1>1
  <2>4. Waiting(c)
    BY <1>1, <1>3, <2>3, WaitingKept
  <2> QED BY <1>2, <2>2, <2>4
<1>4. ASSUME Running(s), ~ restarts
      PROVE  /\ Running(v) /\ v.dft_objects = s.dft_objects
             /\ v.load_fields_file = s.load_fields_file
             /\ v.fields.history = s.fields.history
             /\ \A i \in 1..Len(s.dft_objects) : DataAt(v, i) = DataAt(s, i)
  <2>1. s.fields = [x \in FieldNames |-> s.fields[x]] /\ s.handle = [m \in Monitors |-> s.handle[m]]
    BY <1>4, RunningParts
  <2>2. s.fields.exists = TRUE /\ s.fields.sources = <<s.sources>>
    BY <1>4 DEF Running
  <2>3. v = [c EXCEPT !.fields.k = k]
    BY <1>a, <1>4, <2>2
  <2>4. /\ v = [x \in SimNames |-> v[x]] /\ v.fields = [c.fields EXCEPT !.k = k]
        /\ \A x \in SimNames \ {"fields"} : v[x] = c[x]
    BY <1>1, <2>3 DEF SimNames
  <2>5. /\ v.fields = [x \in FieldNames |-> v.fields[x]] /\ v.fields.k = k
        /\ \A x \in FieldNames \ {"k"} : v.fields[x] = s.fields[x]
    BY <1>2, <2>1, <2>4 DEF FieldNames
  <2>6. v.handle = s.handle /\ v.k_point = k /\ v.sources = s.sources
        /\ v.fields.sources = s.fields.sources /\ v.fields.history = s.fields.history
    BY <1>1, <1>2, <2>4, <2>5 DEF SimNames, FieldNames
  <2>7. Shaped(v)
    BY <2>1, <2>4, <2>5, <2>6 DEF Shaped
  <2>8. \A x \in SimNames \ {"fields", "k_point", "sources"} : v[x] = s[x]
    BY <1>1, <2>4
  <2>9. \A x \in FieldNames \ {"k", "sources", "history"} : v.fields[x] = s.fields[x]
    BY <2>5
  <2>10. v.fields.k = v.k_point /\ v.fields.sources = <<v.sources>>
    BY <2>2, <2>5, <2>6
  <2> QED BY <1>4, <2>6, <2>7, <2>8, <2>9, <2>10, RunningKept
<1>5. ASSUME Running(s), restarts, s.dft_objects = <<>>, s.load_fields_file = NoFile
      PROVE  /\ Running(v) /\ v.dft_objects = <<>> /\ v.load_fields_file = NoFile
             /\ v.fields.history = <<>>
  <2> DEFINE d == Destroyed(c)
             w == [d EXCEPT !.initialized = FALSE]
             H == [m \in Monitors |->
                     IF c.handle[m].state # "attached" THEN c.handle[m]
                     ELSE IF m \in Persistent THEN Detached(DataOf(c, m)) ELSE Freed]
  <2>1. v = init_sim(w)
    BY <1>a, <1>5
  <2>2. d = [c EXCEPT !.fields = NoFields, !.handle = H]
    BY DEF Destroyed
  <2>3. /\ w = [x \in SimNames |-> w[x]] /\ w.fields = NoFields /\ w.handle = H
        /\ w.initialized = FALSE
        /\ \A x \in SimNames \ {"fields", "handle", "initialized"} : w[x] = c[x]
    BY <1>1, <2>2 DEF SimNames
  <2>4. \A m \in Monitors : H[m].state # "attached"
    <3> SUFFICES ASSUME NEW m \in Monitors PROVE H[m].state # "attached"
      OBVIOUS
    <3>0. Len(s.dft_objects) = 0
      BY <1>5, EmptySeq
    <3>a. \A i \in 1..Len(s.dft_objects) : s.dft_objects[i] # m
      BY <3>0
    <3>b. (\A i \in 1..Len(s.dft_objects) : s.dft_objects[i] # m) => s.handle[m].state # "attached"
      BY <1>5 DEF Running, Formed
    <3>1. s.handle[m].state # "attached"
      BY <3>a, <3>b
    <3>2. H[m] = s.handle[m]
      BY <1>2, <3>1
    <3> QED BY <3>1, <3>2
  <2>5. H = [m \in Monitors |-> H[m]]
    OBVIOUS
  <2>6. /\ w.dft_objects = <<>> /\ w.fault = "none" /\ w.design = "design"
        /\ w.structure = "design" /\ w.load_fields_file = NoFile
    BY <1>2, <1>5, <2>3 DEF SimNames, Running, Formed
  <2> HIDE DEF w, d, H
  <2>7. Waiting(w)
    <3>1. w.structure \in {NoStructure, "design"} /\ w.handle = [m \in Monitors |-> w.handle[m]]
          /\ \A m \in Monitors : w.handle[m].state # "attached"
      BY <2>3, <2>4, <2>5, <2>6
    <3> QED BY <2>3, <2>6, <3>1, EmptyWaits
  <2>8. Running(v) /\ Same(w, v) /\ v.fields.history = <<>>
    BY <2>1, <2>6, <2>7, InitSim
  <2> QED BY <2>6, <2>8 DEF Same
<1> QED
  BY <1>3, <1>4, <1>5 DEF v

------------------------------------------------------------------------------
(* The steps of a careful script.                                          *)

\* A continuation keeps what is kept, and is as far ahead.
LEMMA ContinuesKept ==
  ASSUME NEW s, NEW v, NEW p, Continues(s, v), Running(s)
  PROVE  /\ Kept(s, p) => Kept(v, p)
         /\ Ahead(s, p) => Ahead(v, p)
<1>1. /\ v.dft_objects = s.dft_objects /\ v.fields.history = s.fields.history
      /\ \A i \in 1..Len(s.dft_objects) : DataAt(v, i) = DataAt(s, i)
  BY DEF Continues, Same
<1>2. Piece(v) = Piece(s)
  BY DEF Continues, Same, Running, Piece
<1>3. Kept(s, p) => Kept(v, p)
  BY <1>1 DEF Kept
<1>4. Ahead(s, p) => Ahead(v, p)
  BY <1>1, <1>2 DEF Ahead
<1> QED
  BY <1>3, <1>4

\* A simulation that starts has what it is promised then.
LEMMA StartsAsPromised ==
  ASSUME ScriptInv, queue = <<>>, Waiting(sim)
  PROVE  LET v == init_sim(sim)
         IN  /\ Running(v) /\ Same(sim, v)
             /\ Kept(v, Promise(v)) /\ PromiseShape(Promise(v))
             /\ sim.load_fields_file = NoFile => Count(v) = 0
<1> DEFINE v == init_sim(sim)
           f == sim.load_fields_file
<1>1. /\ sim.fields.exists = FALSE /\ Len(sim.dft_objects) \in Nat
  BY WaitingParts
<1>2. /\ PromiseShape(promised) /\ FileInv(file) /\ f \in {NoFile, file}
      /\ f = NoFile => Fresh(sim, promised)
      /\ f # NoFile => sim.dft_objects = file.monitors
  <2>1. ~ Running(sim)
    BY <1>1 DEF Running
  <2>2. queue # AfterFields /\ queue # Call("_run_until")
    BY RunQueue
  <2> QED BY <2>1, <2>2 DEF ScriptInv, ScriptState, Progress
<1>3. CASE f = NoFile
  <2>1. /\ Running(v) /\ Same(sim, v) /\ v.fields.history = <<>> /\ Count(v) = 0
        /\ \A i \in 1..Len(sim.dft_objects) : DataAt(v, i) = <<>>
    BY <1>3, InitSim
  <2> HIDE DEF v
  <2>2. Promise(v) = promised
    BY <1>3 DEF Promise, Pending
  <2>3. v.dft_objects = sim.dft_objects
    BY <2>1 DEF Same
  <2>4. Kept(v, promised)
    BY <1>2, <1>3, <2>1, <2>3 DEF Kept, Fresh
  <2> QED BY <1>2, <2>1, <2>2, <2>4 DEF v
<1>4. CASE f # NoFile
  <2>0. f = file
    BY <1>2, <1>4
  <2>1. /\ PromiseShape(file.promised) /\ file.promised.history = file.history
        /\ Len(file.data) = Len(sim.dft_objects)
        /\ \A i \in 1..Len(sim.dft_objects) :
             file.promised.data[sim.dft_objects[i]] = file.data[i]
    BY <1>2, <1>4, <2>0 DEF FileInv
  <2>2. /\ Running(v) /\ Same(sim, v) /\ v.fields.history = file.history
        /\ \A i \in 1..Len(sim.dft_objects) : DataAt(v, i) = file.data[i]
    <3>1. Len(f.data) = Len(sim.dft_objects)
      BY <2>0, <2>1
    <3>2. /\ Running(v) /\ Same(sim, v) /\ v.fields.history = f.history
          /\ \A i \in 1..Len(sim.dft_objects) : DataAt(v, i) = f.data[i]
      BY <1>4, <3>1, InitSim
    <3> QED BY <2>0, <3>2
  <2> HIDE DEF v
  <2>3. v.fields.exists = TRUE /\ v.dft_objects = sim.dft_objects
    BY <2>2 DEF Running, Same
  <2>4. Promise(v) = file.promised
    BY <1>1, <1>4, <2>0, <2>3 DEF Promise, Pending, Started
  <2>5. Kept(v, file.promised)
    BY <2>1, <2>2, <2>3 DEF Kept
  <2> QED BY <1>4, <2>1, <2>2, <2>4, <2>5 DEF v
<1> QED
  BY <1>3, <1>4

\* The parts of the invariant between two calls.
LEMMA IdleParts ==
  ASSUME ScriptInv, queue = <<>>
  PROVE  /\ PromiseShape(promised) /\ FileInv(file)
         /\ sim.load_fields_file \in {NoFile, file}
         /\ Waiting(sim) \/ Running(sim)
         /\ Waiting(sim) => /\ ~ Started(sim)
                            /\ sim.load_fields_file = NoFile => ~ Pending /\ Fresh(sim, promised)
                            /\ sim.load_fields_file # NoFile =>
                                 Pending /\ sim.dft_objects = file.monitors
         /\ Running(sim) => Started(sim) /\ ~ Pending /\ Kept(sim, promised)
<1>1. queue # AfterFields /\ queue # Call("_run_until")
  BY RunQueue
<1>2. Running(sim) => Started(sim) /\ ~ Pending
  BY DEF Running, Started, Pending
<1>3. Waiting(sim) => ~ Started(sim)
  BY WaitingParts DEF Started
<1>4. ScriptState(sim, queue, file, promised)
  BY DEF ScriptInv
<1> QED
  BY <1>1, <1>2, <1>3, <1>4 DEF ScriptState, Progress, Pending

\* The same with what a step leaves.
LEMMA RunningState ==
  ASSUME NEW s, NEW f, NEW p, PromiseShape(p), FileInv(f),
         s.load_fields_file \in {NoFile, f}, Running(s), Kept(s, p)
  PROVE  ScriptState(s, <<>>, f, p)
BY DEF ScriptState, Progress

\* A simulation without fields that still waits keeps the invariant.
LEMMA WaitingState ==
  ASSUME NEW s, NEW f, NEW p, PromiseShape(p), FileInv(f),
         s.load_fields_file \in {NoFile, f}, Waiting(s),
         s.load_fields_file = NoFile => Fresh(s, p),
         s.load_fields_file # NoFile => s.dft_objects = f.monitors
  PROVE  ScriptState(s, <<>>, f, p)
BY DEF ScriptState, Progress

\* The two calls of a run.
LEMMA PerformKeeps ==
  ASSUME ScriptInv, Perform, UNCHANGED <<file, promised>>
  PROVE  ScriptInv'
<1>0. ScriptState(sim, queue, file, promised) /\ file' = file /\ promised' = promised
  BY DEF ScriptInv
<1>1. queue # <<>> /\ sim' = Performed(sim, Head(queue)) /\ queue' = Tail(queue)
  BY DEF Perform, Idle
<1>2. CASE Running(sim) /\ queue = AfterFields /\ Ahead(sim, promised)
  <2>1. sim' = evaluate_dft_objects(sim) /\ queue' = Call("_run_until")
    BY <1>1, <1>2, RunQueue DEF Performed
  <2>2. Continues(sim, sim') /\ Full(sim')
    BY <1>2, <2>1, EvaluateAll
  <2>3. Ahead(sim', promised)
    BY <1>2, <2>2, ContinuesKept
  <2>4. sim'.load_fields_file = sim.load_fields_file
    BY <2>2 DEF Continues, Same
  <2>5. ScriptState(sim', queue', file', promised')
    BY <1>0, <2>1, <2>2, <2>3, <2>4 DEF ScriptState, Progress
  <2> QED BY <2>5 DEF ScriptInv
<1>3. CASE Full(sim) /\ queue = Call("_run_until") /\ Ahead(sim, promised)
  <2>1. sim' = _run_until(sim) /\ queue' = <<>>
    BY <1>1, <1>3, RunQueue DEF Performed
  <2> DEFINE h == Append(sim.fields.history, Piece(sim))
  <2>2. /\ Full(sim') /\ Same(sim, sim') /\ sim'.fields.history = h
        /\ \A i \in 1..Len(sim.dft_objects) : DataAt(sim', i) = Append(DataAt(sim, i), h)
    BY <1>3, <2>1, RunAll
  <2>3. /\ promised.history = h
        /\ \A i \in 1..Len(sim.dft_objects) :
             promised.data[sim.dft_objects[i]] = Append(DataAt(sim, i), h)
    BY <1>3 DEF Ahead
  <2> HIDE DEF h
  <2>4. sim'.dft_objects = sim.dft_objects /\ sim'.load_fields_file = sim.load_fields_file
        /\ Running(sim')
    BY <2>2 DEF Same, Full
  <2>5. Kept(sim', promised)
    BY <2>2, <2>3, <2>4 DEF Kept
  <2>6. ScriptState(sim', <<>>, file, promised)
    BY <1>0, <2>4, <2>5, RunningState DEF ScriptState
  <2> QED BY <1>0, <2>1, <2>6 DEF ScriptInv
<1> QED
  BY <1>0, <1>1, <1>2, <1>3 DEF ScriptState, Progress

\* A promise with other data for one monitor.
LEMMA PromisedData ==
  ASSUME NEW p, PromiseShape(p), NEW m \in Fluxes, NEW d
  PROVE  LET q == [p EXCEPT !.data[m] = d]
         IN  /\ PromiseShape(q) /\ q.history = p.history /\ q.data[m] = d
             /\ \A i \in Fluxes \ {m} : q.data[i] = p.data[i]
<1> DEFINE q == [p EXCEPT !.data[m] = d]
<1>1. /\ q = [x \in PromiseNames |-> q[x]] /\ q.history = p.history
      /\ q.data = [p.data EXCEPT ![m] = d]
  BY DEF PromiseShape, PromiseNames
<1> HIDE DEF q
<1>2. /\ q.data = [i \in Fluxes |-> q.data[i]] /\ q.data[m] = d
      /\ \A i \in Fluxes \ {m} : q.data[i] = p.data[i]
  BY <1>1 DEF PromiseShape
<1> QED
  BY <1>1, <1>2 DEF PromiseShape, q

\* A new monitor waits behind those that have their chunks.
LEMMA AddFluxKeeps ==
  ASSUME CarefulScript, ScriptInv, NEW m \in Fluxes, AddFlux(m)
  PROVE  ScriptInv'
<1> DEFINE L == Len(sim.dft_objects)
<1>1. /\ queue = <<>> /\ queue' = <<>> /\ sim' = add_monitor(sim, m) /\ file' = file
      /\ promised' = [promised EXCEPT !.data[m] = <<>>] /\ ~ Pending
      /\ m \notin ToSet(sim.dft_objects)
  BY DEF AddFlux, Now, Idle, Declared
<1>2. /\ PromiseShape(promised) /\ FileInv(file) /\ sim.load_fields_file \in {NoFile, file}
      /\ Waiting(sim) \/ Running(sim)
      /\ Waiting(sim) => sim.load_fields_file = NoFile /\ Fresh(sim, promised)
      /\ Running(sim) => Kept(sim, promised)
  BY <1>1, IdleParts
<1>3. sim.dft_objects \in Seq(Fluxes) /\ L \in Nat
  BY <1>2, WaitingParts, RunningParts DEF Waiting, Running, Formed
<1>4. \A i \in 1..L : sim.dft_objects[i] # m /\ sim.dft_objects[i] \in Fluxes
  BY <1>1, <1>3, LenProperties DEF ToSet
<1>5. /\ sim'.dft_objects = Append(sim.dft_objects, m)
      /\ sim'.load_fields_file = sim.load_fields_file
      /\ Waiting(sim) => Waiting(sim')
      /\ Running(sim) => /\ Running(sim') /\ sim'.fields = sim.fields
                         /\ Count(sim') = Count(sim)
  BY <1>1, <1>2, <1>4, AddMonitorKeeps
<1>6. /\ PromiseShape(promised') /\ promised'.history = promised.history
      /\ promised'.data[m] = <<>>
      /\ \A i \in Fluxes \ {m} : promised'.data[i] = promised.data[i]
  BY <1>1, <1>2, PromisedData, SMTT(20)
<1>7. /\ Len(sim'.dft_objects) = L + 1 /\ sim'.dft_objects[L + 1] = m
      /\ \A i \in 1..L : sim'.dft_objects[i] = sim.dft_objects[i]
  <2> DEFINE o == sim.dft_objects
  <2>1. o \in Seq(Fluxes) /\ sim'.dft_objects = Append(o, m)
    BY <1>3, <1>5
  <2> HIDE DEF o
  <2> DEFINE p == Append(o, m)
  <2>2. /\ Len(p) = Len(o) + 1 /\ p[Len(o) + 1] = m
        /\ \A i \in 1..Len(o) : p[i] = o[i]
    BY <2>1, AppendProperties
  <2>3. sim'.dft_objects = p
    BY <2>1
  <2> HIDE DEF p
  <2>4. /\ Len(sim'.dft_objects) = Len(o) + 1 /\ sim'.dft_objects[Len(o) + 1] = m
        /\ \A i \in 1..Len(o) : sim'.dft_objects[i] = o[i]
    BY <2>2, <2>3
  <2> QED BY <2>4 DEF o
<1>8. ASSUME NEW i \in 1..(L + 1)
      PROVE  promised'.data[sim'.dft_objects[i]]
               = IF i = L + 1 THEN <<>> ELSE promised.data[sim.dft_objects[i]]
  <2>1. CASE i = L + 1
    BY <1>6, <1>7, <2>1
  <2>2. CASE i # L + 1
    <3>1. i \in 1..L
      BY <1>3, <2>2
    <3> QED BY <1>4, <1>6, <1>7, <2>2, <3>1
  <2> QED BY <2>1, <2>2
<1>9. CASE Waiting(sim)
  <2>1. \A i \in 1..L : promised.data[sim.dft_objects[i]] = <<>>
    BY <1>2, <1>9 DEF Fresh
  <2>2. \A i \in 1..(L + 1) : promised'.data[sim'.dft_objects[i]] = <<>>
    <3> SUFFICES ASSUME NEW i \in 1..(L + 1) PROVE promised'.data[sim'.dft_objects[i]] = <<>>
      OBVIOUS
    <3>1. i # L + 1 => i \in 1..L
      BY <1>3
    <3> QED BY <1>8, <2>1, <3>1
  <2>3. Fresh(sim', promised')
    BY <1>2, <1>6, <1>7, <1>9, <2>2 DEF Fresh
  <2>4. ScriptState(sim', <<>>, file, promised')
    BY <1>2, <1>5, <1>6, <1>9, <2>3, WaitingState
  <2> QED BY <1>1, <2>4 DEF ScriptInv
<1>10. CASE Running(sim)
  <2>1. \A i \in 1..L : promised.data[sim.dft_objects[i]] = DataAt(sim, i)
    BY <1>2, <1>10 DEF Kept
  <2>2. Count(sim) \in Nat /\ Count(sim) <= L
    BY <1>10, RunningParts
  <2>3. \A i \in 1..(L + 1) : promised'.data[sim'.dft_objects[i]] = DataAt(sim', i)
    <3> SUFFICES ASSUME NEW i \in 1..(L + 1)
                 PROVE  promised'.data[sim'.dft_objects[i]] = DataAt(sim', i)
      OBVIOUS
    <3>1. DataAt(sim', i) = DataAt(sim, i)
      BY <1>5, <1>10 DEF DataAt
    <3>2. CASE i = L + 1
      <4>1. DataAt(sim, i) = <<>>
        BY <1>3, <2>2, <3>2 DEF DataAt
      <4> QED BY <1>8, <3>1, <3>2, <4>1
    <3>3. CASE i # L + 1
      <4>1. i \in 1..L
        BY <1>3, <3>3
      <4> QED BY <1>8, <2>1, <3>1, <3>3, <4>1
    <3> QED BY <3>2, <3>3
  <2>4. Kept(sim', promised')
    BY <1>2, <1>5, <1>6, <1>7, <1>10, <2>3 DEF Kept
  <2>5. ScriptState(sim', <<>>, file, promised')
    BY <1>2, <1>5, <1>6, <1>10, <2>4, RunningState
  <2> QED BY <1>1, <2>5 DEF ScriptInv
<1> QED
  BY <1>2, <1>9, <1>10

\* What init_sim has started is what the manual promises.
LEMMA InitializeKeeps ==
  ASSUME ScriptInv, Initialize
  PROVE  ScriptInv'
<1>1. /\ queue = <<>> /\ queue' = <<>> /\ sim' = init_sim(sim) /\ file' = file
      /\ promised' = Promise(sim') /\ ~ Started(sim)
  BY DEF Initialize, Now, Idle
<1>2. Waiting(sim) /\ FileInv(file) /\ sim.load_fields_file \in {NoFile, file}
  BY <1>1, IdleParts
<1>3. /\ Running(sim') /\ Same(sim, sim')
      /\ Kept(sim', promised') /\ PromiseShape(promised')
  BY <1>1, <1>2, StartsAsPromised
<1>4. ScriptState(sim', <<>>, file, promised')
  BY <1>2, <1>3, RunningState DEF Same
<1> QED
  BY <1>1, <1>4 DEF ScriptInv

\* A script that touches its monitors in order gives the first lazy one its
\* chunks.
LEMMA TouchKeeps ==
  ASSUME CarefulScript, ScriptInv, NEW m \in Fluxes, Touch(m)
  PROVE  ScriptInv'
<1> DEFINE L == Len(sim.dft_objects)
<1>1. /\ queue = <<>> /\ queue' = <<>> /\ sim' = swigobj_attr(sim, m) /\ file' = file
      /\ promised' = Promise(sim') /\ ~ Pending /\ m \in ToSet(sim.dft_objects)
      /\ sim.handle[m].state = "lazy"
      /\ \A i, j \in DOMAIN sim.dft_objects :
           i < j /\ sim.dft_objects[j] = m => sim.handle[sim.dft_objects[i]].state # "lazy"
  BY DEF Touch, Now, Idle, Declared
<1>2. /\ PromiseShape(promised) /\ FileInv(file) /\ sim.load_fields_file \in {NoFile, file}
      /\ Waiting(sim) \/ Running(sim)
      /\ Waiting(sim) => ~ Started(sim)
      /\ Running(sim) => Started(sim) /\ Kept(sim, promised)
  BY <1>1, IdleParts
<1>3. promised' = promised
  BY <1>1 DEF Promise
<1> DEFINE w == WithFields(sim)
<1>4. /\ Running(w) /\ Same(sim, w) /\ Kept(w, promised)
      /\ Waiting(sim) => Count(w) = 0
      /\ Running(sim) => w = sim
  <2>1. CASE Waiting(sim)
    <3>1. w = init_sim(sim) /\ Promise(w) = promised
      BY <1>1, <1>2, <2>1 DEF WithFields, Started, Promise
    <3>2. sim.load_fields_file = NoFile /\ ~ Running(sim)
      BY <1>1, <1>2, <2>1 DEF Pending
    <3> HIDE DEF w
    <3> QED BY <1>1, <2>1, <3>1, <3>2, StartsAsPromised
  <2>2. CASE Running(sim)
    <3>1. w = sim
      BY <1>2, <2>2 DEF WithFields, Started
    <3>2. ~ Waiting(sim)
      BY <1>2, <2>2
    <3> QED BY <1>2, <2>2, <3>1, <3>2 DEF Same
  <2> QED BY <1>2, <2>1, <2>2
<1>5. sim' = Attach(w, m)
  BY <1>1 DEF swigobj_attr, Created
<1> HIDE DEF w
<1>6. w.dft_objects = sim.dft_objects /\ w.load_fields_file = sim.load_fields_file
  BY <1>4 DEF Same
<1>7. L \in Nat /\ DOMAIN sim.dft_objects = 1..L
  <2>1. sim.dft_objects \in Seq(Fluxes)
    BY <1>2 DEF Waiting, Running, Formed
  <2> QED BY <2>1, LenProperties
<1>8. PICK j \in 1..L : sim.dft_objects[j] = m
  BY <1>1, <1>7 DEF ToSet
<1>9. Count(w) \in Nat /\ j = Count(w) + 1
  <2>1. Count(w) \in Nat
    BY <1>4, RunningParts
  <2>2. CASE Waiting(sim)
    <3>1. \A i \in 1..L : sim.handle[sim.dft_objects[i]].state = "lazy"
      BY <2>2 DEF Waiting, Lazy
    <3>2. ~ (1 < j)
      BY <1>1, <1>7, <1>8, <3>1
    <3> QED BY <1>4, <1>7, <2>2, <3>2
  <2>3. CASE Running(sim)
    <3>1. w = sim
      BY <1>4, <2>3
    <3>2. \A i \in 1..L :
            sim.handle[sim.dft_objects[i]] = IF i <= Count(sim) THEN Attached ELSE Lazy
      BY <2>3 DEF Running
    <3>3. \A i \in 1..L : sim.handle[sim.dft_objects[i]].state = "lazy" <=> ~ (i <= Count(sim))
      BY <3>2 DEF Attached, Lazy
    <3>4. ~ (j <= Count(sim))
      BY <1>1, <1>8, <3>3
    <3>5. \A i \in 1..L : i < j => i <= Count(sim)
      BY <1>1, <1>7, <1>8, <3>3
    <3>6. j > 1 => j - 1 \in 1..L /\ j - 1 < j
      BY <1>7
    <3>7. j > 1 => j - 1 <= Count(sim)
      BY <3>5, <3>6
    <3> QED BY <1>7, <2>1, <3>1, <3>4, <3>7
  <2> QED BY <1>2, <2>1, <2>2, <2>3
<1>10. m = w.dft_objects[Count(w) + 1] /\ Count(w) < Len(w.dft_objects)
  BY <1>6, <1>7, <1>8, <1>9
<1>11. Continues(w, sim')
  BY <1>4, <1>5, <1>10, AttachNext
<1>12. Running(sim') /\ Kept(sim', promised) /\ sim'.load_fields_file = sim.load_fields_file
  BY <1>4, <1>6, <1>11, ContinuesKept DEF Continues, Same
<1>13. ScriptState(sim', <<>>, file, promised)
  BY <1>2, <1>12, RunningState
<1> QED
  BY <1>1, <1>3, <1>13 DEF ScriptInv


\* A run is promised before its two calls are made.
LEMMA RunOnceKeeps ==
  ASSUME ScriptInv, RunOnce
  PROVE  ScriptInv'
<1> DEFINE p == Promise(sim')
           h == Append(p.history, [k |-> sim.k_point, sources |-> <<sim.sources>>,
                                   structure |-> sim.design])
           L == Len(sim.dft_objects)
<1>1. /\ queue = <<>> /\ queue' = AfterFields /\ sim' = WithFields(sim) /\ file' = file
      /\ promised' = [p EXCEPT !.history = h,
                               !.data = [m \in Fluxes |-> IF m \in ToSet(sim.dft_objects)
                                                          THEN Append(p.data[m], h)
                                                          ELSE p.data[m]]]
  BY DEF RunOnce, Idle, Declared
<1>2. /\ PromiseShape(promised) /\ FileInv(file) /\ sim.load_fields_file \in {NoFile, file}
      /\ Waiting(sim) \/ Running(sim)
      /\ Waiting(sim) => ~ Started(sim)
      /\ Running(sim) => Started(sim) /\ ~ Pending /\ Kept(sim, promised)
  BY <1>1, IdleParts
<1>3. Running(sim') /\ Same(sim, sim') /\ Kept(sim', p) /\ PromiseShape(p)
  <2>1. CASE Waiting(sim)
    <3>1. sim' = init_sim(sim)
      BY <1>1, <1>2, <2>1 DEF WithFields, Started
    <3> QED BY <1>1, <2>1, <3>1, StartsAsPromised
  <2>2. CASE Running(sim)
    <3>1. sim' = sim /\ p = promised
      BY <1>1, <1>2, <2>2 DEF WithFields, Started, Promise
    <3> HIDE DEF p
    <3> QED BY <1>2, <2>2, <3>1 DEF Same
  <2> QED BY <1>2, <2>1, <2>2
<1> HIDE DEF p
<1>4. sim.design = "design"
  BY <1>2 DEF Waiting, Running, Formed
<1>5. h = Append(sim'.fields.history, Piece(sim'))
  <2>1. Piece(sim') = [k |-> sim.k_point, sources |-> <<sim.sources>>, structure |-> sim.design]
    BY <1>3, <1>4 DEF Piece, Running, Same
  <2>2. p.history = sim'.fields.history
    BY <1>3 DEF Kept
  <2> QED BY <2>1, <2>2
<1> HIDE DEF h
<1> DEFINE D == [m \in Fluxes |-> IF m \in ToSet(sim.dft_objects) THEN Append(p.data[m], h)
                                  ELSE p.data[m]]
<1>6. /\ promised' = [x \in PromiseNames |-> promised'[x]]
      /\ promised'.history = h /\ promised'.data = D
  <2>1. promised' = [p EXCEPT !.history = h, !.data = D] /\ p = [x \in PromiseNames |-> p[x]]
    BY <1>1, <1>3 DEF PromiseShape
  <2> HIDE DEF D
  <2> QED BY <2>1 DEF PromiseNames
<1>7. L \in Nat /\ \A i \in 1..L : sim.dft_objects[i] \in Fluxes
                                    /\ sim.dft_objects[i] \in ToSet(sim.dft_objects)
  <2>1. sim.dft_objects \in Seq(Fluxes)
    BY <1>2 DEF Waiting, Running, Formed
  <2> QED BY <2>1, LenProperties DEF ToSet
<1>8. \A i \in 1..L : promised'.data[sim.dft_objects[i]] = Append(DataAt(sim', i), h)
  <2> SUFFICES ASSUME NEW i \in 1..L
               PROVE  promised'.data[sim.dft_objects[i]] = Append(DataAt(sim', i), h)
    OBVIOUS
  <2>1. p.data[sim.dft_objects[i]] = DataAt(sim', i)
    BY <1>3 DEF Kept, Same
  <2>2. D[sim.dft_objects[i]] = Append(p.data[sim.dft_objects[i]], h)
    BY <1>7
  <2> HIDE DEF D
  <2> QED BY <1>6, <2>1, <2>2
<1>9. Ahead(sim', promised')
  BY <1>3, <1>5, <1>6, <1>8 DEF Ahead, Same
<1>10. PromiseShape(promised')
  <2>1. D = [m \in Fluxes |-> D[m]]
    OBVIOUS
  <2> QED BY <1>6, <2>1 DEF PromiseShape
<1>11. ScriptState(sim', AfterFields, file, promised')
  BY <1>2, <1>3, <1>9, <1>10 DEF ScriptState, Progress, Same
<1> QED
  BY <1>1, <1>11 DEF ScriptInv

\* New sources leave what has been accumulated.
LEMMA ChangeSourcesStepKeeps ==
  ASSUME ScriptInv, NEW l \in SourceLists, ChangeSources(l)
  PROVE  ScriptInv'
<1>1. /\ queue = <<>> /\ queue' = <<>> /\ sim' = change_sources(sim, l)
      /\ file' = file /\ promised' = promised
  BY DEF ChangeSources, Now, Idle
<1>2. /\ PromiseShape(promised) /\ FileInv(file) /\ sim.load_fields_file \in {NoFile, file}
      /\ Waiting(sim) \/ Running(sim)
      /\ Waiting(sim) => /\ sim.load_fields_file = NoFile => Fresh(sim, promised)
                         /\ sim.load_fields_file # NoFile => sim.dft_objects = file.monitors
      /\ Running(sim) => Kept(sim, promised)
  BY <1>1, IdleParts
<1>3. /\ sim'.dft_objects = sim.dft_objects /\ sim'.load_fields_file = sim.load_fields_file
      /\ Waiting(sim) => Waiting(sim')
      /\ Running(sim) =>
           /\ Running(sim') /\ sim'.fields.history = sim.fields.history
           /\ \A i \in 1..Len(sim.dft_objects) : DataAt(sim', i) = DataAt(sim, i)
  BY <1>1, <1>2, ChangeSourcesKeeps
<1>4. CASE Waiting(sim)
  <2>1. Fresh(sim, promised) => Fresh(sim', promised)
    BY <1>3 DEF Fresh
  <2>2. ScriptState(sim', <<>>, file, promised)
    BY <1>2, <1>3, <1>4, <2>1, WaitingState
  <2> QED BY <1>1, <2>2 DEF ScriptInv
<1>5. CASE Running(sim)
  <2>1. Kept(sim', promised)
    BY <1>2, <1>3, <1>5 DEF Kept
  <2>2. ScriptState(sim', <<>>, file, promised)
    BY <1>2, <1>3, <1>5, <2>1, RunningState
  <2> QED BY <1>1, <2>2 DEF ScriptInv
<1> QED
  BY <1>2, <1>4, <1>5

\* A promise with no history.
LEMMA PromisedHistory ==
  ASSUME NEW p, PromiseShape(p)
  PROVE  LET q == [p EXCEPT !.history = <<>>]
         IN  PromiseShape(q) /\ q.history = <<>> /\ q.data = p.data
<1> DEFINE q == [p EXCEPT !.history = <<>>]
<1>1. q = [x \in PromiseNames |-> q[x]] /\ q.history = <<>> /\ q.data = p.data
  BY DEF PromiseShape, PromiseNames
<1> HIDE DEF q
<1> QED
  BY <1>1 DEF PromiseShape, q

\* So does a new Bloch vector, unless the fields become complex.
LEMMA ChangeBlochStepKeeps ==
  ASSUME CarefulScript, ScriptInv, NEW k \in BlochVectors, ChangeBlochVector(k)
  PROVE  ScriptInv'
<1> DEFINE restarts == sim.fields.exists /\ sim.fields.real /\ k # 0
<1>1. /\ queue = <<>> /\ queue' = <<>> /\ sim' = change_k_point(sim, k) /\ file' = file
      /\ ~ Pending
      /\ restarts => sim.dft_objects = <<>> /\ sim.load_fields_file = NoFile
      /\ promised' = IF restarts THEN [promised EXCEPT !.history = <<>>] ELSE promised
  BY DEF ChangeBlochVector, Now, Idle, Started
<1>2. /\ PromiseShape(promised) /\ FileInv(file) /\ sim.load_fields_file \in {NoFile, file}
      /\ Waiting(sim) \/ Running(sim)
      /\ Waiting(sim) => sim.load_fields_file = NoFile /\ Fresh(sim, promised)
      /\ Running(sim) => Kept(sim, promised)
  BY <1>1, IdleParts
<1>3. CASE Waiting(sim)
  <2>1. sim.fields.exists = FALSE
    BY <1>3, WaitingParts
  <2>2. /\ Waiting(sim') /\ sim'.dft_objects = sim.dft_objects
        /\ sim'.load_fields_file = sim.load_fields_file /\ promised' = promised
    BY <1>1, <1>3, <2>1, ChangeBlochKeeps
  <2>3. Fresh(sim', promised)
    BY <1>2, <1>3, <2>2 DEF Fresh
  <2>4. ScriptState(sim', <<>>, file, promised)
    BY <1>2, <1>3, <2>2, <2>3, WaitingState
  <2> QED BY <1>1, <2>2, <2>4 DEF ScriptInv
<1>4. CASE Running(sim) /\ ~ restarts
  <2>1. /\ Running(sim') /\ sim'.dft_objects = sim.dft_objects
        /\ sim'.load_fields_file = sim.load_fields_file
        /\ sim'.fields.history = sim.fields.history
        /\ \A i \in 1..Len(sim.dft_objects) : DataAt(sim', i) = DataAt(sim, i)
    BY <1>1, <1>4, ChangeBlochKeeps
  <2>2. promised' = promised
    BY <1>1, <1>4
  <2>3. Kept(sim', promised)
    BY <1>2, <1>4, <2>1 DEF Kept
  <2>4. ScriptState(sim', <<>>, file, promised)
    BY <1>2, <2>1, <2>3, RunningState
  <2> QED BY <1>1, <2>2, <2>4 DEF ScriptInv
<1>5. CASE Running(sim) /\ restarts
  <2>1. /\ Running(sim') /\ sim'.dft_objects = <<>> /\ sim'.load_fields_file = NoFile
        /\ sim'.fields.history = <<>>
    BY <1>1, <1>5, ChangeBlochKeeps
  <2>2. promised' = [promised EXCEPT !.history = <<>>]
    BY <1>1, <1>5
  <2>3. PromiseShape(promised') /\ promised'.history = <<>>
    BY <1>2, <2>2, PromisedHistory
  <2>4. Len(sim'.dft_objects) = 0
    BY <2>1, EmptySeq
  <2>5. Kept(sim', promised')
    BY <2>1, <2>3, <2>4 DEF Kept
  <2>6. ScriptState(sim', <<>>, file, promised')
    BY <1>2, <2>1, <2>3, <2>5, RunningState
  <2> QED BY <1>1, <2>6 DEF ScriptInv
<1> QED
  BY <1>2, <1>3, <1>4, <1>5

\* After restart_fields the fields have no history, and the monitors theirs.
LEMMA RestartFieldsKeeps ==
  ASSUME CarefulScript, ScriptInv, RestartFields
  PROVE  ScriptInv'
<1>1. /\ queue = <<>> /\ queue' = <<>> /\ sim' = restarted(sim) /\ file' = file
      /\ ~ Pending /\ promised' = [promised EXCEPT !.history = <<>>]
  BY DEF RestartFields, Now, Idle, Promise
<1>2. /\ PromiseShape(promised) /\ FileInv(file) /\ sim.load_fields_file \in {NoFile, file}
      /\ Waiting(sim) \/ Running(sim)
      /\ Waiting(sim) => sim.load_fields_file = NoFile /\ Fresh(sim, promised)
      /\ Running(sim) => Kept(sim, promised)
  BY <1>1, IdleParts
<1>3. /\ Running(sim') /\ sim'.dft_objects = sim.dft_objects /\ sim'.fields.history = <<>>
      /\ sim'.load_fields_file = sim.load_fields_file
      /\ Running(sim) => \A i \in 1..Len(sim.dft_objects) : DataAt(sim', i) = DataAt(sim, i)
      /\ Waiting(sim) => \A i \in 1..Len(sim.dft_objects) : DataAt(sim', i) = <<>>
  BY <1>1, <1>2, RestartedRuns
<1>4. PromiseShape(promised') /\ promised'.history = <<>> /\ promised'.data = promised.data
  BY <1>1, <1>2, PromisedHistory
<1>5. \A i \in 1..Len(sim.dft_objects) : promised.data[sim.dft_objects[i]] = DataAt(sim', i)
  <2>1. CASE Waiting(sim)
    BY <1>2, <1>3, <2>1 DEF Fresh
  <2>2. CASE Running(sim)
    BY <1>2, <1>3, <2>2 DEF Kept
  <2> QED BY <1>2, <2>1, <2>2
<1>6. Kept(sim', promised')
  BY <1>3, <1>4, <1>5 DEF Kept
<1>7. ScriptState(sim', <<>>, file, promised')
  BY <1>2, <1>3, <1>4, <1>6, RunningState
<1> QED
  BY <1>1, <1>7 DEF ScriptInv

\* Without monitors nothing is promised to any.
LEMMA ClearMonitorsKeeps ==
  ASSUME ScriptInv, ClearMonitors
  PROVE  ScriptInv'
<1>1. /\ queue = <<>> /\ queue' = <<>> /\ sim' = clear_dft_monitors(sim) /\ file' = file
      /\ Started(sim) /\ promised' = [promised EXCEPT !.data = Nothing.data]
  BY DEF ClearMonitors, Now, Idle
<1>2. /\ PromiseShape(promised) /\ FileInv(file) /\ sim.load_fields_file \in {NoFile, file}
      /\ Running(sim) /\ Kept(sim, promised)
  BY <1>1, IdleParts
<1>3. /\ Running(sim') /\ sim'.dft_objects = <<>>
      /\ sim'.load_fields_file = sim.load_fields_file
      /\ sim'.fields.history = sim.fields.history
  BY <1>1, <1>2, ClearAll
<1>4. PromiseShape(promised') /\ promised'.history = promised.history
  <2> DEFINE d == Nothing.data
  <2>1. d = [m \in Fluxes |-> d[m]]
    BY DEF Nothing
  <2> HIDE DEF d
  <2>2. /\ promised' = [x \in PromiseNames |-> promised'[x]]
        /\ promised'.history = promised.history /\ promised'.data = d
    BY <1>1, <1>2 DEF PromiseShape, PromiseNames, d
  <2> QED BY <2>1, <2>2 DEF PromiseShape
<1>5. Len(sim'.dft_objects) = 0
  BY <1>3, EmptySeq
<1>6. Kept(sim', promised')
  BY <1>2, <1>3, <1>4, <1>5 DEF Kept
<1>7. ScriptState(sim', <<>>, file, promised')
  BY <1>2, <1>3, <1>4, <1>6, RunningState
<1> QED
  BY <1>1, <1>7 DEF ScriptInv

\* What the manual promises of a simulation that has done nothing.
LEMMA NothingPromised ==
  /\ PromiseShape(Nothing) /\ Nothing.history = <<>>
  /\ \A m \in Fluxes : Nothing.data[m] = <<>>
BY DEF Nothing, PromiseShape, PromiseNames

\* After a reset there is nothing, and nothing is promised.
LEMMA ResetMeepKeeps ==
  ASSUME CarefulScript, ScriptInv, ResetMeep
  PROVE  ScriptInv'
<1>1. /\ queue = <<>> /\ queue' = <<>> /\ sim' = reset_meep(sim) /\ file' = file
      /\ sim.load_fields_file = NoFile /\ promised' = Nothing
  BY DEF ResetMeep, Now, Idle
<1>2. FileInv(file) /\ (Waiting(sim) \/ Running(sim))
  BY <1>1, IdleParts
<1>3. /\ Waiting(sim') /\ sim'.dft_objects = <<>>
      /\ sim'.load_fields_file = sim.load_fields_file
  BY <1>1, <1>2, ResetWaits
<1>4. Len(sim'.dft_objects) = 0
  BY <1>3, EmptySeq
<1>5. Fresh(sim', Nothing)
  BY <1>4, NothingPromised DEF Fresh
<1>6. ScriptState(sim', <<>>, file, Nothing)
  BY <1>1, <1>2, <1>3, <1>5, NothingPromised, WaitingState
<1> QED
  BY <1>1, <1>6 DEF ScriptInv

\* A new process starts with nothing but the file.
LEMMA NewProcessKeeps ==
  ASSUME ScriptInv, NewProcess
  PROVE  ScriptInv'
<1>1. PICK l \in SourceLists : sim' = NewSimulation(file.k, l, "design")
  BY DEF NewProcess
<1>2. queue = <<>> /\ queue' = <<>> /\ file' = file /\ promised' = Nothing
  BY DEF NewProcess, Idle
<1>3. Waiting(sim') /\ sim'.dft_objects = <<>> /\ sim'.load_fields_file = NoFile
  BY <1>1, NewSimulationWaits
<1>4. Len(sim'.dft_objects) = 0
  BY <1>3, EmptySeq
<1>5. Fresh(sim', Nothing)
  BY <1>4, NothingPromised DEF Fresh
<1>6. FileInv(file)
  BY <1>2, IdleParts
<1>7. ScriptState(sim', <<>>, file, Nothing)
  BY <1>3, <1>5, <1>6, NothingPromised, WaitingState
<1> QED
  BY <1>2, <1>7 DEF ScriptInv

\* A dump knows its data by position: the list of the fields and the list of
\* monitors have the same length and order.
LEMMA DumpFieldsKeeps ==
  ASSUME CarefulScript, ScriptInv, DumpFields
  PROVE  ScriptInv'
<1> DEFINE M == sim.fields.monitors
           o == sim.dft_objects
           L == Len(o)
           D == [i \in DOMAIN M |-> M[i].data]
<1>1. /\ queue = <<>> /\ queue' = <<>> /\ sim' = sim /\ promised' = promised
      /\ Started(sim) /\ file = NoFile
      /\ file' = [history |-> sim.fields.history, k |-> sim.k_point, monitors |-> o,
                  promised |-> promised, data |-> D]
      /\ \A m \in ToSet(o) : sim.handle[m].state = "attached"
  BY DEF DumpFields, Now, Idle, Declared
<1>2. /\ PromiseShape(promised) /\ sim.load_fields_file \in {NoFile, file}
      /\ Running(sim) /\ Kept(sim, promised)
  BY <1>1, IdleParts
<1>3. /\ L \in Nat /\ Count(sim) \in Nat /\ Count(sim) <= L
      /\ M = [i \in 1..Count(sim) |-> M[i]]
  BY <1>2, RunningParts
<1>4. Count(sim) = L
  <2> SUFFICES ASSUME Count(sim) < L PROVE FALSE
    BY <1>3
  <2>1. L \in 1..L
    BY <1>3
  <2>2. o[L] \in ToSet(o)
    <3>1. o \in Seq(Fluxes)
      BY <1>2 DEF Running, Formed
    <3> QED BY <2>1, <3>1, LenProperties DEF ToSet
  <2>3. sim.handle[o[L]] = Lazy
    BY <1>2, <1>3, <2>1 DEF Running
  <2> QED BY <1>1, <2>2, <2>3 DEF Lazy
<1>5. /\ file'.history = sim.fields.history /\ file'.monitors = o
      /\ file'.promised = promised /\ file'.data = D
  BY <1>1
<1>6. \A i \in 1..L : D[i] = DataAt(sim, i)
  BY <1>3, <1>4 DEF DataAt
<1>7. Len(D) = L
  <2>1. D = [i \in 1..L |-> D[i]]
    BY <1>3, <1>4
  <2> HIDE DEF D, L
  <2> QED BY <1>3, <2>1, ListLen
<1>8. FileInv(file')
  <2> HIDE DEF D
  <2>1. file'.promised.history = file'.history
    BY <1>2, <1>5 DEF Kept
  <2>2. \A i \in 1..Len(file'.monitors) : file'.promised.data[file'.monitors[i]] = file'.data[i]
    BY <1>2, <1>5, <1>6 DEF Kept
  <2> QED BY <1>2, <1>5, <1>7, <2>1, <2>2 DEF FileInv
<1>9. sim.load_fields_file \in {NoFile, file'}
  BY <1>1, <1>2
<1>10. ScriptState(sim, <<>>, file', promised)
  BY <1>2, <1>8, <1>9, RunningState
<1> QED
  BY <1>1, <1>10 DEF ScriptInv

\* A load of a file of the same setup, at once or later.
LEMMA LoadKeeps ==
  ASSUME CarefulScript, ScriptInv, Load
  PROVE  ScriptInv'
<1>1. /\ queue = <<>> /\ queue' = <<>> /\ file' = file /\ file # NoFile
      /\ sim' = IF Started(sim) THEN load_fields(sim, file)
                ELSE [sim EXCEPT !.load_fields_file = file]
      /\ promised' = IF Started(sim) THEN file.promised ELSE promised
      /\ sim.dft_objects = file.monitors
  BY DEF Load, Now, Idle
<1>2. /\ PromiseShape(promised) /\ FileInv(file) /\ sim.load_fields_file \in {NoFile, file}
      /\ Waiting(sim) \/ Running(sim)
      /\ Waiting(sim) => ~ Started(sim)
      /\ Running(sim) => Started(sim)
  BY <1>1, IdleParts
<1>3. /\ PromiseShape(file.promised) /\ file.promised.history = file.history
      /\ Len(file.data) = Len(sim.dft_objects)
      /\ \A i \in 1..Len(sim.dft_objects) :
           file.promised.data[sim.dft_objects[i]] = file.data[i]
  BY <1>1, <1>2 DEF FileInv
<1>4. CASE Waiting(sim)
  <2>1. sim' = [sim EXCEPT !.load_fields_file = file] /\ promised' = promised
    BY <1>1, <1>2, <1>4
  <2>2. sim = [x \in SimNames |-> sim[x]]
    BY <1>4, WaitingParts
  <2>3. /\ sim' = [x \in SimNames |-> sim'[x]] /\ sim'.load_fields_file = file
        /\ \A x \in SimNames \ {"load_fields_file"} : sim'[x] = sim[x]
    BY <2>1, <2>2 DEF SimNames
  <2>4. \A x \in SimNames \ {"k_point", "sources", "load_fields_file"} : sim'[x] = sim[x]
    BY <2>3
  <2>5. Waiting(sim') /\ sim'.dft_objects = sim.dft_objects
    BY <1>4, <2>3, <2>4, WaitingKept
  <2>6. ScriptState(sim', <<>>, file, promised)
    BY <1>1, <1>2, <2>3, <2>5, WaitingState
  <2> QED BY <1>1, <2>1, <2>6 DEF ScriptInv
<1>5. CASE Running(sim)
  <2>1. sim' = load_fields(sim, file) /\ promised' = file.promised
    BY <1>1, <1>2, <1>5
  <2>2. /\ Full(sim') /\ Same(sim, sim') /\ sim'.fields.history = file.history
        /\ \A i \in 1..Len(sim.dft_objects) : DataAt(sim', i) = file.data[i]
    BY <1>3, <1>5, <2>1, LoadAll
  <2>3. Running(sim') /\ sim'.dft_objects = sim.dft_objects
        /\ sim'.load_fields_file = sim.load_fields_file
    BY <2>2 DEF Full, Same
  <2>4. Kept(sim', file.promised)
    BY <1>3, <2>2, <2>3 DEF Kept
  <2>5. ScriptState(sim', <<>>, file, file.promised)
    BY <1>2, <1>3, <2>3, <2>4, RunningState
  <2> QED BY <1>1, <2>1, <2>5 DEF ScriptInv
<1> QED
  BY <1>2, <1>4, <1>5

\* A script starts with nothing accumulated and nothing promised.
LEMMA ScriptStarts ==
  ASSUME ScriptInit
  PROVE  ScriptInv
<1>1. PICK k \in BlochVectors, l \in SourceLists : sim = NewSimulation(k, l, "design")
  BY DEF ScriptInit
<1>2. queue = <<>> /\ file = NoFile /\ promised = Nothing
  BY DEF ScriptInit
<1>3. Waiting(sim) /\ sim.dft_objects = <<>> /\ sim.load_fields_file = NoFile
  BY <1>1, NewSimulationWaits
<1>4. Len(sim.dft_objects) = 0
  BY <1>3, EmptySeq
<1>5. Fresh(sim, Nothing)
  BY <1>4, NothingPromised DEF Fresh
<1>6. FileInv(file)
  BY <1>2 DEF FileInv
<1>7. ScriptState(sim, <<>>, file, Nothing)
  BY <1>3, <1>5, <1>6, NothingPromised, WaitingState
<1> QED
  BY <1>2, <1>7 DEF ScriptInv

\* Every step of a careful script keeps the invariant.
LEMMA ScriptStepKeeps ==
  ASSUME CarefulScript, ScriptInv, [ScriptNext]_scriptVars
  PROVE  ScriptInv'
<1>1. CASE Perform /\ UNCHANGED <<file, promised>>
  BY <1>1, PerformKeeps
<1>2. CASE \E m \in Fluxes : AddFlux(m) \/ Touch(m)
  BY <1>2, AddFluxKeeps, TouchKeeps
<1>3. CASE Initialize
  BY <1>3, InitializeKeeps
<1>4. CASE RunOnce
  BY <1>4, RunOnceKeeps
<1>5. CASE \E k \in BlochVectors : ChangeBlochVector(k)
  BY <1>5, ChangeBlochStepKeeps
<1>6. CASE \E l \in SourceLists : ChangeSources(l)
  BY <1>6, ChangeSourcesStepKeeps
<1>7. CASE RestartFields
  BY <1>7, RestartFieldsKeeps
<1>8. CASE ClearMonitors
  BY <1>8, ClearMonitorsKeeps
<1>9. CASE ResetMeep
  BY <1>9, ResetMeepKeeps
<1>10. CASE DumpFields
  BY <1>10, DumpFieldsKeeps
<1>11. CASE NewProcess
  BY <1>11, NewProcessKeeps
<1>12. CASE Load
  BY <1>12, LoadKeeps
<1>13. CASE UNCHANGED scriptVars
  BY <1>13 DEF scriptVars, ScriptInv
<1> QED
  BY <1>1, <1>2, <1>3, <1>4, <1>5, <1>6, <1>7, <1>8, <1>9, <1>10, <1>11, <1>12, <1>13
  DEF ScriptNext

\* Whatever a careful script does, the monitors with chunks are a beginning of
\* its list, in order; each holds what the calls so far promise it; and a
\* checkpoint holds, position by position, what was promised at its dump
\* (evaluate_dft_objects, init_sim, load_fields).
THEOREM ScriptInvariant ==
  ASSUME CarefulScript
  PROVE  ScriptSpec => []ScriptInv
<1>1. ScriptInit => ScriptInv
  BY ScriptStarts
<1>2. ScriptInv /\ [ScriptNext]_scriptVars => ScriptInv'
  BY ScriptStepKeeps
<1> QED
  BY <1>1, <1>2, PTL DEF ScriptSpec

\* The monitor at a position of the list points to the entry at that position.
LEMMA DataByPosition ==
  ASSUME NEW s, Running(s), NEW i \in 1..Len(s.dft_objects),
         s.handle[s.dft_objects[i]].state = "attached"
  PROVE  DataOf(s, s.dft_objects[i]) = DataAt(s, i)
<1> DEFINE m == s.dft_objects[i]
           M == s.fields.monitors
<1>1. /\ Len(s.dft_objects) \in Nat /\ Count(s) \in Nat /\ Count(s) <= Len(s.dft_objects)
      /\ M = [j \in 1..Count(s) |-> M[j]]
      /\ \A j, l \in 1..Len(s.dft_objects) : s.dft_objects[j] = s.dft_objects[l] => j = l
      /\ \A j \in 1..Count(s) : M[j] = Entry(s.dft_objects[j], M[j].data)
  BY RunningParts
<1>2. s.handle[m] = IF i <= Count(s) THEN Attached ELSE Lazy
  BY DEF Running
<1>3. i \in 1..Count(s)
  BY <1>1, <1>2 DEF Lazy
<1>4. DOMAIN M = 1..Count(s)
  BY <1>1
<1>5. \A j \in DOMAIN M : M[j].who = s.dft_objects[j] /\ M[j].held
  <2>1. TAKE j \in DOMAIN M
  <2>2. M[j] = Entry(s.dft_objects[j], M[j].data)
    BY <1>1, <1>4
  <2> QED
    BY ONLY <2>2 DEF Entry
<1>6. \A j \in DOMAIN M : M[j].who = m => j = i
  BY <1>1, <1>4, <1>5
<1>7. EntryOf(s, m) = i
  BY <1>3, <1>4, <1>5, <1>6 DEF EntryOf
<1> QED
  BY <1>3, <1>7 DEF DataOf, DataAt

\* What the invariant says of the queue: with one only while fields exist.
LEMMA ScriptPhases ==
  ASSUME ScriptInv
  PROVE  /\ Waiting(sim) \/ Running(sim)
         /\ Idle /\ Running(sim) => Kept(sim, promised)
         /\ Running(sim) => sim.fields.exists
         /\ Waiting(sim) => ~ Started(sim)
<1>1. AfterFields # <<>> /\ Call("_run_until") # <<>>
  BY RunQueue
<1>2. Progress(sim, queue, file, promised)
  BY DEF ScriptInv, ScriptState
<1>3. Waiting(sim) => sim.fields = NoFields
  BY DEF Waiting
<1>4. Running(sim) => sim.fields.exists
  BY DEF Running
<1>5. Waiting(sim) => ~ Started(sim)
  BY <1>3 DEF Started, NoFields
<1> QED
  BY <1>1, <1>2, <1>4, <1>5 DEF Progress, Full, Idle, Started

\* The fields hold what the calls before promise, and each monitor its own data.
LEMMA InvContinues ==
  ASSUME ScriptInv
  PROVE  MonitorsContinue
<1> SUFFICES ASSUME Idle, Started(sim)
             PROVE  /\ sim.fields.history = promised.history
                    /\ \A m \in Declared : sim.handle[m].state = "attached" =>
                         DataOf(sim, m) = promised.data[m]
  BY DEF MonitorsContinue
<1>1. Running(sim) /\ Kept(sim, promised)
  BY ScriptPhases
<1>2. DOMAIN sim.dft_objects = 1..Len(sim.dft_objects)
  BY <1>1, LenProperties DEF Running, Formed
<1>3. ASSUME NEW m \in Declared, sim.handle[m].state = "attached"
      PROVE  DataOf(sim, m) = promised.data[m]
  <2>1. PICK i \in 1..Len(sim.dft_objects) : sim.dft_objects[i] = m
    BY <1>2, <1>3 DEF Declared, ToSet
  <2>2. DataOf(sim, m) = DataAt(sim, i)
    BY <1>1, <1>3, <2>1, DataByPosition
  <2> QED
    BY <1>1, <2>1, <2>2 DEF Kept
<1> QED
  BY <1>1, <1>3 DEF Kept

\* Every registered chunk is that of a declared monitor.
LEMMA InvHolds ==
  ASSUME ScriptInv
  PROVE  RegisteredMonitorsAreHeld
<1> SUFFICES ASSUME sim.fields.exists, NEW i \in DOMAIN sim.fields.monitors
             PROVE  /\ sim.fields.monitors[i].held
                    /\ sim.fields.monitors[i].who \in ToSet(sim.dft_objects)
  BY DEF RegisteredMonitorsAreHeld
<1>1. Running(sim)
  BY ScriptPhases DEF Started
<1>2. /\ Len(sim.dft_objects) \in Nat /\ Count(sim) \in Nat
      /\ Count(sim) <= Len(sim.dft_objects)
      /\ sim.fields.monitors = [j \in 1..Count(sim) |-> sim.fields.monitors[j]]
      /\ \A j \in 1..Count(sim) :
           sim.fields.monitors[j] = Entry(sim.dft_objects[j], sim.fields.monitors[j].data)
  BY <1>1, RunningParts
<1>3. DOMAIN sim.dft_objects = 1..Len(sim.dft_objects)
  BY <1>1, LenProperties DEF Running, Formed
<1>4. i \in 1..Count(sim) /\ i \in DOMAIN sim.dft_objects
  BY <1>2, <1>3
<1>5. sim.fields.monitors[i] = Entry(sim.dft_objects[i], sim.fields.monitors[i].data)
  BY <1>2, <1>4
<1> QED
  BY <1>4, <1>5 DEF Entry, ToSet

\* No monitor in the list has lost its chunks.
LEMMA InvDangles ==
  ASSUME ScriptInv
  PROVE  NoDanglingMonitor
<1>1. Waiting(sim) \/ Running(sim)
  BY ScriptPhases
<1>2. sim.fault = "none" /\ DOMAIN sim.dft_objects = 1..Len(sim.dft_objects)
  BY <1>1, LenProperties DEF Running, Waiting, Formed
<1>3. \A i \in 1..Len(sim.dft_objects) :
        sim.handle[sim.dft_objects[i]] \in {Attached, Lazy}
  BY <1>1 DEF Running, Waiting
<1> QED
  BY <1>2, <1>3 DEF NoDanglingMonitor, Attached, Lazy

\* A careful script that loads a checkpoint, at once or when its simulation is
\* initialized, continues as if it had not been stopped; and whenever it looks
\* between two runs, fields and monitors have accumulated what its calls ask
\* for (load_fields, _evaluate_dft_objects, Simulation._run_until).
THEOREM AlwaysContinues ==
  ASSUME CarefulScript
  PROVE  ScriptSpec => []MonitorsContinue
<1>1. ScriptInv => MonitorsContinue
  BY InvContinues
<1> QED
  BY <1>1, ScriptInvariant, PTL

\* The chunks the time stepping updates are those of the declared monitors
\* (clear_dft_monitors and reset_meep leave none behind).
THEOREM AlwaysHeld ==
  ASSUME CarefulScript
  PROVE  ScriptSpec => []RegisteredMonitorsAreHeld
<1>1. ScriptInv => RegisteredMonitorsAreHeld
  BY InvHolds
<1> QED
  BY <1>1, ScriptInvariant, PTL

\* No call of a careful script uses chunks that went with their fields
\* (Simulation.reset_meep and change_k_point destroy the fields).
THEOREM NeverDangles ==
  ASSUME CarefulScript
  PROVE  ScriptSpec => []NoDanglingMonitor
<1>1. ScriptInv => NoDanglingMonitor
  BY InvDangles
<1> QED
  BY <1>1, ScriptInvariant, PTL

------------------------------------------------------------------------------
(* A queue of calls as a whole.  An exception may end it anywhere, so what  *)
(* is said of the last state holds only if the queue gets there, and what   *)
(* the next user of the simulation relies on holds in every state between.  *)

\* What holds between any two calls, with the Bloch vector one of K.
Safe(K, s) ==
  /\ s = [n \in SimNames |-> s[n]]
  /\ s.handle = [m \in Monitors |-> s.handle[m]]
  /\ s.k_point \in K /\ s.load_fields_file = NoFile
  /\ s.fault = "none"
  /\ \A i \in DOMAIN s.dft_objects : s.handle[s.dft_objects[i]].state # "freed"
  /\ s.fields.exists => \A i \in DOMAIN s.fields.monitors :
       s.fields.monitors[i].held /\ s.fields.monitors[i].who \in ToSet(s.dft_objects)

\* The calls q lead from s to v through such states.
Leads(K, s, q, v) ==
  /\ \E C : q \in Seq(C)
  /\ \E a : /\ a[0] = s /\ a[Len(q)] = v
            /\ \A i \in 1..Len(q) : a[i] = Performed(a[i - 1], q[i])
            /\ \A i \in 0..Len(q) : Safe(K, a[i])

\* Nothing to do.
LEMMA NoCalls ==
  ASSUME NEW K, NEW s, Safe(K, s)
  PROVE  Leads(K, s, <<>>, s)
<1>1. <<>> \in Seq({}) /\ Len(<<>>) = 0
  BY EmptySeq
<1> DEFINE a == [i \in 0..0 |-> s]
<1>2. a[0] = s /\ \A i \in 0..0 : a[i] = s
  OBVIOUS
<1> HIDE DEF a
<1>3. a[Len(<<>>)] = s /\ (\A i \in 0..Len(<<>>) : Safe(K, a[i])) /\ 1..Len(<<>>) = {}
  BY <1>1, <1>2
<1> QED
  BY <1>1, <1>2, <1>3 DEF Leads

\* A single call.
LEMMA OneCall ==
  ASSUME NEW K, NEW s, NEW c, Safe(K, s), Safe(K, Performed(s, c))
  PROVE  Leads(K, s, <<c>>, Performed(s, c))
<1> DEFINE v == Performed(s, c)
           a == [i \in 0..1 |-> IF i = 0 THEN s ELSE v]
           q == <<c>>
<1>1. q \in Seq({c}) /\ Len(q) = 1 /\ q[1] = c
  OBVIOUS
<1>2. a[0] = s /\ a[1] = v
  OBVIOUS
<1>3. v = Performed(s, c)
  OBVIOUS
<1> HIDE DEF a, q, v
<1>4. \A i \in 1..Len(q) : a[i] = Performed(a[i - 1], q[i])
  <2>1. \A i \in 1..Len(q) : i = 1
    BY <1>1
  <2>2. a[1] = Performed(a[1 - 1], q[1])
    BY <1>1, <1>2, <1>3
  <2> QED BY <2>1, <2>2
<1>5. \A i \in 0..Len(q) : Safe(K, a[i])
  <2>1. \A i \in 0..Len(q) : i = 0 \/ i = 1
    BY <1>1
  <2> QED BY <1>2, <1>3, <2>1
<1>6. a[Len(q)] = v
  BY <1>1, <1>2
<1>7. Leads(K, s, q, v)
  BY <1>1, <1>2, <1>4, <1>5, <1>6 DEF Leads
<1> QED
  BY <1>3, <1>7 DEF q

\* Both ends are safe, and without calls they are one.
LEMMA SafeEnds ==
  ASSUME NEW K, NEW s, NEW q, NEW v, Leads(K, s, q, v)
  PROVE  Safe(K, s) /\ Safe(K, v) /\ (q = <<>> => v = s)
<1>1. PICK C : q \in Seq(C)
  BY DEF Leads
<1>2. PICK a : a[0] = s /\ a[Len(q)] = v /\ \A i \in 0..Len(q) : Safe(K, a[i])
  BY DEF Leads
<1>3. Len(q) \in Nat
  BY <1>1, LenProperties
<1>4. Safe(K, a[0]) /\ Safe(K, a[Len(q)])
  BY <1>2, <1>3
<1>5. q = <<>> => Len(q) = 0
  BY EmptySeq
<1> QED
  BY <1>2, <1>4, <1>5

\* The first call of a queue.
LEMMA FirstCall ==
  ASSUME NEW K, NEW s, NEW q, NEW v, Leads(K, s, q, v), q # <<>>
  PROVE  Leads(K, Performed(s, Head(q)), Tail(q), v)
<1>1. PICK C : q \in Seq(C)
  BY DEF Leads
<1>2. PICK a : /\ a[0] = s /\ a[Len(q)] = v
               /\ \A i \in 1..Len(q) : a[i] = Performed(a[i - 1], q[i])
               /\ \A i \in 0..Len(q) : Safe(K, a[i])
  BY DEF Leads
<1>3. PICK n \in Nat : Len(q) = n + 1
  <2>1. Len(q) \in Nat /\ Len(q) # 0
    BY <1>1, EmptySeq, LenProperties
  <2>2. Len(q) - 1 \in Nat /\ Len(q) = (Len(q) - 1) + 1
    BY <2>1
  <2> QED BY <2>2
<1> DEFINE r == Tail(q)
           b == [i \in 0..n |-> a[i + 1]]
<1>4. r \in Seq(C) /\ Len(r) = n /\ (\A i \in 1..n : r[i] = q[i + 1]) /\ Head(q) = q[1]
  BY <1>1, <1>3, HeadTailProperties
<1>5. \A i \in 0..n : b[i] = a[i + 1]
  OBVIOUS
<1> HIDE DEF b, r
<1>6. a[1] = Performed(s, Head(q))
  <2>1. 1 \in 1..Len(q) /\ 1 - 1 = 0
    BY <1>3
  <2>2. a[1] = Performed(a[1 - 1], q[1])
    BY <1>2, <2>1
  <2> QED BY <1>2, <1>4, <2>1, <2>2
<1>7. b[0] = Performed(s, Head(q)) /\ b[Len(r)] = v
  <2>1. b[0] = a[0 + 1] /\ b[n] = a[n + 1]
    BY <1>5
  <2>2. 0 + 1 = 1
    OBVIOUS
  <2> QED BY <1>2, <1>3, <1>4, <1>6, <2>1, <2>2
<1>8. \A i \in 1..Len(r) : b[i] = Performed(b[i - 1], r[i])
  <2> SUFFICES ASSUME NEW i \in 1..n PROVE b[i] = Performed(b[i - 1], r[i])
    BY <1>4
  <2>1. i + 1 \in 1..Len(q) /\ (i + 1) - 1 = i /\ (i - 1) + 1 = i /\ i \in 0..n /\ i - 1 \in 0..n
    BY <1>3
  <2>2. a[i + 1] = Performed(a[(i + 1) - 1], q[i + 1])
    BY <1>2, <2>1
  <2>3. b[i] = a[i + 1] /\ b[i - 1] = a[(i - 1) + 1] /\ r[i] = q[i + 1]
    BY <1>4, <1>5, <2>1
  <2> QED BY <2>1, <2>2, <2>3
<1>9. \A i \in 0..Len(r) : Safe(K, b[i])
  <2> SUFFICES ASSUME NEW i \in 0..n PROVE Safe(K, b[i])
    BY <1>4
  <2>1. i + 1 \in 0..Len(q) /\ b[i] = a[i + 1]
    BY <1>3, <1>5
  <2> QED BY <1>2, <2>1
<1> QED
  BY <1>4, <1>7, <1>8, <1>9 DEF Leads, r

\* One queue after the other.
LEMMA ThenCalls ==
  ASSUME NEW K, NEW s, NEW p, NEW v, NEW q, NEW u, Leads(K, s, p, v), Leads(K, v, q, u)
  PROVE  Leads(K, s, p \o q, u)
<1>1. PICK B : p \in Seq(B)
  BY DEF Leads
<1>2. PICK C : q \in Seq(C)
  BY DEF Leads
<1>3. PICK a : /\ a[0] = s /\ a[Len(p)] = v
               /\ \A i \in 1..Len(p) : a[i] = Performed(a[i - 1], p[i])
               /\ \A i \in 0..Len(p) : Safe(K, a[i])
  BY DEF Leads
<1>4. PICK b : /\ b[0] = v /\ b[Len(q)] = u
               /\ \A i \in 1..Len(q) : b[i] = Performed(b[i - 1], q[i])
               /\ \A i \in 0..Len(q) : Safe(K, b[i])
  BY DEF Leads
<1>5. PICK m \in Nat, n \in Nat : m = Len(p) /\ n = Len(q)
  BY <1>1, <1>2, LenProperties
<1> DEFINE r == p \o q
           c == [i \in 0..(m + n) |-> IF i <= m THEN a[i] ELSE b[i - m]]
<1>6. /\ r \in Seq(B \cup C) /\ Len(r) = m + n
      /\ \A i \in 1..(m + n) : r[i] = IF i <= m THEN p[i] ELSE q[i - m]
  <2>1. p \in Seq(B \cup C) /\ q \in Seq(B \cup C)
    BY <1>1, <1>2, SeqMonotonic
  <2> QED BY <1>5, <2>1, ConcatProperties
<1>7. \A i \in 0..(m + n) : c[i] = IF i <= m THEN a[i] ELSE b[i - m]
  OBVIOUS
<1> HIDE DEF c, r
<1>8. c[m] = b[0] /\ \A i \in m..(m + n) : c[i] = b[i - m]
  <2>1. m \in 0..(m + n) /\ m <= m
    OBVIOUS
  <2>2. c[m] = b[0]
    BY <1>3, <1>4, <1>5, <1>7, <2>1
  <2>3. ASSUME NEW i \in m..(m + n) PROVE c[i] = b[i - m]
    <3>1. CASE i = m
      <4>1. i - m = 0
        BY <3>1
      <4> QED BY <2>2, <3>1, <4>1
    <3>2. CASE i # m
      BY <1>7, <3>2
    <3> QED BY <3>1, <3>2
  <2> QED BY <2>2, <2>3
<1>9. c[0] = s /\ c[Len(r)] = u
  <2>1. c[0] = a[0]
    BY <1>7
  <2>2. m + n \in m..(m + n) /\ (m + n) - m = n
    OBVIOUS
  <2>3. c[m + n] = b[(m + n) - m]
    BY <1>8, <2>2
  <2> QED BY <1>3, <1>4, <1>5, <1>6, <2>1, <2>2, <2>3
<1>10. \A i \in 1..Len(r) : c[i] = Performed(c[i - 1], r[i])
  <2> SUFFICES ASSUME NEW i \in 1..(m + n) PROVE c[i] = Performed(c[i - 1], r[i])
    BY <1>6
  <2>1. CASE i <= m
    <3>1. i \in 1..Len(p) /\ i \in 0..(m + n) /\ i - 1 \in 0..(m + n) /\ i - 1 <= m
      BY <1>5, <2>1
    <3>2. c[i] = a[i] /\ c[i - 1] = a[i - 1] /\ r[i] = p[i]
      BY <1>6, <1>7, <2>1, <3>1
    <3> QED BY <1>3, <3>1, <3>2
  <2>2. CASE ~ (i <= m)
    <3>1. i - m \in 1..Len(q) /\ i \in m..(m + n) /\ i - 1 \in m..(m + n)
          /\ (i - 1) - m = (i - m) - 1
      BY <1>5, <2>2
    <3>2. c[i] = b[i - m] /\ c[i - 1] = b[(i - 1) - m] /\ r[i] = q[i - m]
      BY <1>6, <1>8, <2>2, <3>1
    <3>3. b[i - m] = Performed(b[(i - m) - 1], q[i - m])
      BY <1>4, <3>1
    <3> QED BY <3>1, <3>2, <3>3
  <2> QED BY <2>1, <2>2
<1>11. \A i \in 0..Len(r) : Safe(K, c[i])
  <2> SUFFICES ASSUME NEW i \in 0..(m + n) PROVE Safe(K, c[i])
    BY <1>6
  <2>1. CASE i <= m
    <3>1. i \in 0..Len(p) /\ c[i] = a[i]
      BY <1>5, <1>7, <2>1
    <3> QED BY <1>3, <3>1
  <2>2. CASE ~ (i <= m)
    <3>1. i - m \in 0..Len(q) /\ c[i] = b[i - m]
      BY <1>5, <1>7, <2>2
    <3> QED BY <1>4, <3>1
  <2> QED BY <2>1, <2>2
<1> QED
  BY <1>6, <1>9, <1>10, <1>11 DEF Leads, r

------------------------------------------------------------------------------
(* What the optimizer and the JAX wrapper know of their simulation.        *)

\* Before there are fields, and from then on: the first of the monitors
\* `objects' have accumulated `data', `saved' are the data of monitors that
\* are no longer the simulation's.
Ready(k, sources, design, objects) ==
  [started |-> FALSE, k |-> k, sources |-> sources, design |-> design,
   objects |-> objects, history |-> <<>>, data |-> <<>>, saved |-> {}]
Live(k, sources, design, objects, history, data, saved) ==
  [started |-> TRUE, k |-> k, sources |-> sources, design |-> design,
   objects |-> objects, history |-> history, data |-> data, saved |-> saved]

Saved(m, data) == [who |-> m, data |-> data]
Real(k) == k = 0
Registered(objects, data) == [i \in DOMAIN data |-> Entry(objects[i], data[i])]
FieldsAre(f, k, sources, design, history, monitors) ==
  /\ f = [n \in FieldNames |-> f[n]]
  /\ f.exists = TRUE /\ f.real = Real(k) /\ f.k = k /\ f.sources = <<sources>>
  /\ f.structure = design /\ f.history = history /\ f.monitors = monitors

\* The monitor objects of the program.
Handles(h, objects, data, saved) ==
  /\ h = [m \in Monitors |-> h[m]]
  /\ DOMAIN data \subseteq DOMAIN objects /\ ToSet(objects) \subseteq Monitors
  /\ \A i \in DOMAIN objects : h[objects[i]] = IF i \in DOMAIN data THEN Attached ELSE Lazy
  /\ \A m \in Monitors : m \notin ToSet(objects) => h[m].state # "attached"
  /\ \A p \in saved : /\ p.who \in Monitors \ ToSet(objects)
                      /\ h[p.who] = Detached(p.data)

Is(s, x) ==
  /\ s = [n \in SimNames |-> s[n]]
  /\ s.k_point = x.k /\ s.sources = x.sources /\ s.design = x.design
  /\ s.dft_objects = x.objects /\ s.initialized = x.started
  /\ s.structure = IF x.started THEN x.design ELSE NoStructure
  /\ ~ x.started => s.fields = NoFields
  /\ x.started => FieldsAre(s.fields, x.k, x.sources, x.design, x.history,
                            Registered(x.objects, x.data))
  /\ s.load_fields_file = NoFile /\ s.fault = "none"
  /\ Handles(s.handle, x.objects, x.data, x.saved)

\* The calls q take what is known from x to y.
Moves(K, x, q, y) == \A s : Is(s, x) => \E v : Leads(K, s, q, v) /\ Is(v, y)

\* Such a simulation is safe to give to the next user.
LEMMA IsSafe ==
  ASSUME NEW K, NEW s, NEW x, Is(s, x), x.k \in K
  PROVE  Safe(K, s)
<1>1. /\ s = [n \in SimNames |-> s[n]] /\ s.k_point \in K
      /\ s.load_fields_file = NoFile /\ s.fault = "none"
      /\ s.dft_objects = x.objects /\ Handles(s.handle, x.objects, x.data, x.saved)
  BY DEF Is
<1>2. s.handle = [m \in Monitors |-> s.handle[m]]
  BY <1>1 DEF Handles
<1>3. \A i \in DOMAIN s.dft_objects : s.handle[s.dft_objects[i]].state # "freed"
  BY <1>1, SMTT(20) DEF Handles, Attached, Lazy
<1>4. ASSUME s.fields.exists, NEW i \in DOMAIN s.fields.monitors
      PROVE  s.fields.monitors[i].held /\ s.fields.monitors[i].who \in ToSet(s.dft_objects)
  <2>2. s.fields.monitors = Registered(x.objects, x.data)
    BY <1>4 DEF Is, NoFields, FieldsAre
  <2>3. i \in DOMAIN x.data /\ i \in DOMAIN x.objects
    BY <1>1, <1>4, <2>2 DEF Registered, Handles
  <2>4. s.fields.monitors[i] = Entry(x.objects[i], x.data[i])
    BY <2>2, <2>3 DEF Registered
  <2> QED BY <1>1, <2>3, <2>4 DEF Entry, ToSet
<1> QED
  BY <1>1, <1>2, <1>3, <1>4 DEF Safe

\* One call after the other.
LEMMA MovesThen ==
  ASSUME NEW K, NEW x, NEW p, NEW y, NEW q, NEW z, Moves(K, x, p, y), Moves(K, y, q, z)
  PROVE  Moves(K, x, p \o q, z)
<1> SUFFICES ASSUME NEW s, Is(s, x) PROVE \E u : Leads(K, s, p \o q, u) /\ Is(u, z)
  BY DEF Moves
<1>1. PICK v : Leads(K, s, p, v) /\ Is(v, y)
  BY DEF Moves
<1>2. PICK u : Leads(K, v, q, u) /\ Is(u, z)
  BY <1>1 DEF Moves
<1> QED
  BY <1>1, <1>2, ThenCalls

\* No call at all.
LEMMA MovesNot ==
  ASSUME NEW K, NEW x, x.k \in K
  PROVE  Moves(K, x, <<>>, x)
BY NoCalls, IsSafe DEF Moves

\* A single call that takes what is known from x to y.
LEMMA MovesOnce ==
  ASSUME NEW K, NEW x, NEW y, NEW c, x.k \in K, y.k \in K,
         \A s : Is(s, x) => Is(Performed(s, c), y)
  PROVE  Moves(K, x, <<c>>, y)
<1> SUFFICES ASSUME NEW s, Is(s, x) PROVE \E v : Leads(K, s, <<c>>, v) /\ Is(v, y)
  BY DEF Moves
<1>1. Is(Performed(s, c), y)
  OBVIOUS
<1>2. Safe(K, s) /\ Safe(K, Performed(s, c))
  BY <1>1, IsSafe
<1> QED
  BY <1>1, <1>2, OneCall

\* What each of the calls does.
LEMMA CallMeans ==
  ASSUME NEW s, NEW a
  PROVE  LET Does(method) == Performed(s, [method |-> method, argument |-> a])
         IN  /\ Does("WithFields") = WithFields(s) /\ Does("init_sim") = init_sim(s)
             /\ Does("evaluate_dft_objects") = evaluate_dft_objects(s)
             /\ Does("_run_until") = _run_until(s)
             /\ Does("add_monitor") = add_monitor(s, a)
             /\ Does("clear_dft_monitors") = clear_dft_monitors(s)
             /\ Does("change_k_point") = change_k_point(s, a)
             /\ Does("change_sources") = change_sources(s, a)
             /\ Does("reset_meep") = reset_meep(s)
             /\ Does("restart_fields") = restarted(s)
             /\ Does("update_design_parameters") = [s EXCEPT !.design = a]
BY DEF Performed

\* What the two views say of a simulation.
ReadySim(s, k, sources, design, objects) ==
  /\ s = [n \in SimNames |-> s[n]]
  /\ s.k_point = k /\ s.sources = sources /\ s.design = design
  /\ s.dft_objects = objects /\ s.initialized = FALSE
  /\ s.structure = NoStructure /\ s.fields = NoFields
  /\ s.load_fields_file = NoFile /\ s.fault = "none"
  /\ Handles(s.handle, objects, <<>>, {})

LiveSim(s, k, sources, design, objects, history, data, saved) ==
  /\ s = [n \in SimNames |-> s[n]]
  /\ s.k_point = k /\ s.sources = sources /\ s.design = design
  /\ s.dft_objects = objects /\ s.initialized = TRUE /\ s.structure = design
  /\ FieldsAre(s.fields, k, sources, design, history, Registered(objects, data))
  /\ s.load_fields_file = NoFile /\ s.fault = "none"
  /\ Handles(s.handle, objects, data, saved)

\* Is, for a simulation without fields.
LEMMA IsReady ==
  ASSUME NEW s, NEW k, NEW sources, NEW design, NEW objects
  PROVE  Is(s, Ready(k, sources, design, objects)) <=> ReadySim(s, k, sources, design, objects)
<1> DEFINE x == Ready(k, sources, design, objects)
<1>1. /\ x.started = FALSE /\ x.k = k /\ x.sources = sources /\ x.design = design
      /\ x.objects = objects /\ x.data = <<>> /\ x.saved = {}
  BY DEF Ready
<1> HIDE DEF x
<1>2. Is(s, x) <=> ReadySim(s, k, sources, design, objects)
  BY <1>1 DEF Is, ReadySim
<1> QED
  BY <1>2 DEF x

\* Is, for a simulation with fields.
LEMMA IsLive ==
  ASSUME NEW s, NEW k, NEW sources, NEW design, NEW objects, NEW history, NEW data, NEW saved
  PROVE  Is(s, Live(k, sources, design, objects, history, data, saved)) <=>
           LiveSim(s, k, sources, design, objects, history, data, saved)
<1> DEFINE x == Live(k, sources, design, objects, history, data, saved)
<1>1. /\ x.started = TRUE /\ x.k = k /\ x.sources = sources /\ x.design = design
      /\ x.objects = objects /\ x.history = history /\ x.data = data /\ x.saved = saved
  BY DEF Live
<1> HIDE DEF x
<1>3. Is(s, x) <=> LiveSim(s, k, sources, design, objects, history, data, saved)
  BY <1>1 DEF Is, LiveSim
<1> QED
  BY <1>3 DEF x

\* Sources are changed in place.
LEMMA SourcesReady ==
  ASSUME NEW s, NEW k, NEW src, NEW d, NEW o, NEW new, ReadySim(s, k, src, d, o)
  PROVE  ReadySim(change_sources(s, new), k, new, d, o)
<1> DEFINE v == change_sources(s, new)
<1>1. /\ s = [n \in SimNames |-> s[n]] /\ s.k_point = k /\ s.design = d
      /\ s.dft_objects = o /\ s.initialized = FALSE /\ s.structure = NoStructure
      /\ s.fields = NoFields /\ s.load_fields_file = NoFile /\ s.fault = "none"
      /\ Handles(s.handle, o, <<>>, {})
  BY DEF ReadySim
<1>2. v = [s EXCEPT !.sources = new]
  BY <1>1 DEF change_sources, NoFields
<1> HIDE DEF v
<1>3. /\ v = [n \in SimNames |-> v[n]] /\ v.k_point = k /\ v.sources = new /\ v.design = d
      /\ v.dft_objects = o /\ v.initialized = FALSE /\ v.structure = NoStructure
      /\ v.fields = NoFields /\ v.load_fields_file = NoFile /\ v.fault = "none"
      /\ v.handle = s.handle
  BY <1>1, <1>2 DEF SimNames
<1>4. ReadySim(v, k, new, d, o)
  BY <1>1, <1>3 DEF ReadySim
<1> QED
  BY <1>4 DEF v

\* The sources of fields that exist are replaced by the new one.
LEMMA SourcesLive ==
  ASSUME NEW s, NEW k, NEW src, NEW d, NEW o, NEW h, NEW D, NEW S, NEW new,
         LiveSim(s, k, src, d, o, h, D, S)
  PROVE  LiveSim(change_sources(s, new), k, new, d, o, h, D, S)
<1> DEFINE v == change_sources(s, new)
<1>1. /\ s = [n \in SimNames |-> s[n]] /\ s.k_point = k /\ s.design = d
      /\ s.dft_objects = o /\ s.initialized = TRUE /\ s.structure = d
      /\ FieldsAre(s.fields, k, src, d, h, Registered(o, D)) /\ s.load_fields_file = NoFile
      /\ s.fault = "none" /\ Handles(s.handle, o, D, S)
  BY DEF LiveSim
<1>2. v = [s EXCEPT !.sources = new, !.fields.sources = <<new>>]
  BY <1>1 DEF change_sources, FieldsAre
<1> HIDE DEF v
<1>3. /\ v = [n \in SimNames |-> v[n]] /\ v.k_point = k /\ v.sources = new /\ v.design = d
      /\ v.dft_objects = o /\ v.initialized = TRUE /\ v.structure = d
      /\ v.fields = [s.fields EXCEPT !.sources = <<new>>]
      /\ v.load_fields_file = NoFile /\ v.fault = "none" /\ v.handle = s.handle
  BY <1>1, <1>2 DEF SimNames
<1>4. FieldsAre(v.fields, k, new, d, h, Registered(o, D))
  BY <1>1, <1>3 DEF FieldsAre, FieldNames
<1>5. LiveSim(v, k, new, d, o, h, D, S)
  BY <1>1, <1>3, <1>4 DEF LiveSim
<1> QED
  BY <1>5 DEF v

\* So is the Bloch vector of complex fields.
LEMMA BlochLive ==
  ASSUME NEW s, NEW k, NEW src, NEW d, NEW o, NEW h, NEW D, NEW S, NEW new,
         LiveSim(s, k, src, d, o, h, D, S), k # 0, new # 0
  PROVE  LiveSim(change_k_point(s, new), new, src, d, o, h, D, S)
<1> DEFINE v == change_k_point(s, new)
<1>1. /\ s = [n \in SimNames |-> s[n]] /\ s.sources = src /\ s.design = d
      /\ s.dft_objects = o /\ s.initialized = TRUE /\ s.structure = d
      /\ FieldsAre(s.fields, k, src, d, h, Registered(o, D)) /\ s.load_fields_file = NoFile
      /\ s.fault = "none" /\ Handles(s.handle, o, D, S)
  BY DEF LiveSim
<1>0. Real(k) = FALSE /\ Real(new) = FALSE
  BY DEF Real
<1>2. s.fields.exists = TRUE /\ s.fields.real = FALSE
  BY <1>0, <1>1 DEF FieldsAre
<1>3. v = [s EXCEPT !.k_point = new, !.fields.k = new]
  BY <1>2 DEF change_k_point
<1> HIDE DEF v
<1>4. /\ v = [n \in SimNames |-> v[n]] /\ v.k_point = new /\ v.sources = src /\ v.design = d
      /\ v.dft_objects = o /\ v.initialized = TRUE /\ v.structure = d
      /\ v.fields = [s.fields EXCEPT !.k = new]
      /\ v.load_fields_file = NoFile /\ v.fault = "none" /\ v.handle = s.handle
  BY <1>1, <1>3 DEF SimNames
<1>5. FieldsAre(v.fields, new, src, d, h, Registered(o, D))
  BY <1>0, <1>1, <1>4 DEF FieldsAre, FieldNames
<1>6. LiveSim(v, new, src, d, o, h, D, S)
  BY <1>1, <1>4, <1>5 DEF LiveSim
<1> QED
  BY <1>6 DEF v

\* The fields start again, the monitors do not.
LEMMA RestartLive ==
  ASSUME NEW s, NEW k, NEW src, NEW d, NEW o, NEW h, NEW D, NEW S,
         LiveSim(s, k, src, d, o, h, D, S)
  PROVE  LiveSim(restarted(s), k, src, d, o, <<>>, D, S)
<1> DEFINE v == restarted(s)
<1>1. /\ s = [n \in SimNames |-> s[n]] /\ s.k_point = k /\ s.sources = src /\ s.design = d
      /\ s.dft_objects = o /\ s.initialized = TRUE /\ s.structure = d
      /\ FieldsAre(s.fields, k, src, d, h, Registered(o, D)) /\ s.load_fields_file = NoFile
      /\ s.fault = "none" /\ Handles(s.handle, o, D, S)
  BY DEF LiveSim
<1>2. v = [s EXCEPT !.fields.history = <<>>]
  BY <1>1 DEF restarted, FieldsAre
<1> HIDE DEF v
<1>3. /\ v = [n \in SimNames |-> v[n]] /\ v.k_point = k /\ v.sources = src /\ v.design = d
      /\ v.dft_objects = o /\ v.initialized = TRUE /\ v.structure = d
      /\ v.fields = [s.fields EXCEPT !.history = <<>>]
      /\ v.load_fields_file = NoFile /\ v.fault = "none" /\ v.handle = s.handle
  BY <1>1, <1>2 DEF SimNames
<1>4. FieldsAre(v.fields, k, src, d, <<>>, Registered(o, D))
  BY <1>1, <1>3 DEF FieldsAre, FieldNames
<1>5. LiveSim(v, k, src, d, o, <<>>, D, S)
  BY <1>1, <1>3, <1>4 DEF LiveSim
<1> QED
  BY <1>5 DEF v

\* Nothing is left to initialize.
LEMMA InitLive ==
  ASSUME NEW s, NEW k, NEW src, NEW d, NEW o, NEW h, NEW D, NEW S,
         LiveSim(s, k, src, d, o, h, D, S)
  PROVE  init_sim(s) = s /\ WithFields(s) = s
<1>1. s.initialized = TRUE /\ FieldsAre(s.fields, k, src, d, h, Registered(o, D))
  BY DEF LiveSim
<1> QED
  BY <1>1 DEF init_sim, WithFields, FieldsAre

\* The structure and the fields are those of the design, without monitors.
LEMMA InitReady ==
  ASSUME NEW s, NEW k, NEW src, NEW d, NEW o, ReadySim(s, k, src, d, o)
  PROVE  /\ LiveSim(init_sim(s), k, src, d, o, <<>>, <<>>, {})
         /\ WithFields(s) = init_sim(s)
<1> DEFINE v == init_sim(s)
<1>1. /\ s = [n \in SimNames |-> s[n]] /\ s.k_point = k /\ s.sources = src /\ s.design = d
      /\ s.dft_objects = o /\ s.initialized = FALSE /\ s.structure = NoStructure
      /\ s.fields = NoFields /\ s.load_fields_file = NoFile /\ s.fault = "none"
      /\ Handles(s.handle, o, <<>>, {})
  BY DEF ReadySim
<1>2. WithFields(s) = v
  BY <1>1 DEF WithFields, NoFields
<1>3. \A m \in Monitors : s.handle[m].state # "attached"
  <2>1. \A i \in DOMAIN o : s.handle[o[i]] = Lazy
    BY <1>1 DEF Handles
  <2>2. \A m \in Monitors : m \notin ToSet(o) => s.handle[m].state # "attached"
    BY <1>1 DEF Handles
  <2> QED BY <2>1, <2>2 DEF ToSet, Lazy
<1> DEFINE e == Destroyed(s)
           g == [e EXCEPT !.structure = IF @ = NoStructure THEN s.design ELSE @]
           up == [g EXCEPT !.fields = NewFields(g), !.initialized = TRUE]
<1>4. v = up
  BY <1>1 DEF init_sim
<1>5. /\ e = [n \in SimNames |-> e[n]] /\ e.k_point = k /\ e.sources = src /\ e.design = d
      /\ e.dft_objects = o /\ e.initialized = FALSE /\ e.structure = NoStructure
      /\ e.load_fields_file = NoFile /\ e.fault = "none"
      /\ e.handle = [m \in Monitors |->
                       IF s.handle[m].state # "attached" THEN s.handle[m]
                       ELSE IF m \in Persistent THEN Detached(DataOf(s, m)) ELSE Freed]
  BY <1>1 DEF Destroyed, SimNames
<1> HIDE DEF e
<1>6. e.handle = s.handle
  BY <1>1, <1>3, <1>5 DEF Handles
<1>7. /\ g = [n \in SimNames |-> g[n]] /\ g.k_point = k /\ g.sources = src /\ g.design = d
      /\ g.dft_objects = o /\ g.structure = d
      /\ g.load_fields_file = NoFile /\ g.fault = "none" /\ g.handle = s.handle
  BY <1>1, <1>5, <1>6 DEF SimNames
<1> HIDE DEF g
<1>8. /\ up = [n \in SimNames |-> up[n]] /\ up.k_point = k /\ up.sources = src /\ up.design = d
      /\ up.dft_objects = o /\ up.structure = d /\ up.initialized = TRUE
      /\ up.fields = NewFields(g)
      /\ up.load_fields_file = NoFile /\ up.fault = "none" /\ up.handle = s.handle
  BY <1>7 DEF SimNames
<1> HIDE DEF up
<1>9. FieldsAre(NewFields(g), k, src, d, <<>>, Registered(o, <<>>))
  <2>1. Registered(o, <<>>) = <<>>
    BY DEF Registered
  <2> QED BY <1>7, <2>1 DEF NewFields, FieldsAre, FieldNames, using_real_fields, Real
<1>10. LiveSim(up, k, src, d, o, <<>>, <<>>, {})
  BY <1>1, <1>8, <1>9 DEF LiveSim
<1> QED
  BY <1>2, <1>4, <1>10 DEF v

\* Lists of monitors and of what they hold.
IsList(q) == Len(q) \in Nat /\ q = [i \in 1..Len(q) |-> q[i]]
Distinct(o) == \A i, j \in DOMAIN o : o[i] = o[j] => i = j

\* A new monitor.
LEMMA HandlesAdded ==
  ASSUME NEW h, NEW o, NEW D, NEW S, NEW m \in Monitors, Handles(h, o, D, S), IsList(o),
         m \notin ToSet(o), \A p \in S : p.who # m
  PROVE  Handles([h EXCEPT ![m] = Lazy], Append(o, m), D, S)
<1> DEFINE g == [h EXCEPT ![m] = Lazy]
           q == Append(o, m)
<1>0. PICK n \in Nat : n = Len(o)
  BY DEF IsList
<1>1. /\ h = [x \in Monitors |-> h[x]] /\ DOMAIN D \subseteq DOMAIN o
      /\ \A i \in DOMAIN o : h[o[i]] = IF i \in DOMAIN D THEN Attached ELSE Lazy
      /\ \A x \in Monitors : x \notin ToSet(o) => h[x].state # "attached"
      /\ \A p \in S : h[p.who] = Detached(p.data) /\ p.who \in Monitors \ ToSet(o)
      /\ ToSet(o) \subseteq Monitors
  BY DEF Handles
<1>2. g = [x \in Monitors |-> g[x]] /\ g[m] = Lazy /\ \A x \in Monitors \ {m} : g[x] = h[x]
  BY <1>1
<1>3. q = [i \in 1..(n + 1) |-> IF i = n + 1 THEN m ELSE o[i]] /\ o = [i \in 1..n |-> o[i]]
  BY <1>0, ListAppend DEF IsList
<1> HIDE DEF g, q
<1>4. /\ DOMAIN o = 1..n /\ DOMAIN q = 1..(n + 1) /\ q[n + 1] = m
      /\ \A i \in 1..n : q[i] = o[i]
  BY <1>3
<1>5. \A i \in DOMAIN o : o[i] # m
  BY DEF ToSet
<1>6. ToSet(q) = ToSet(o) \cup {m}
  BY <1>4 DEF ToSet
<1>7. \A i \in DOMAIN q : g[q[i]] = IF i \in DOMAIN D THEN Attached ELSE Lazy
  <2> SUFFICES ASSUME NEW i \in 1..(n + 1)
               PROVE  g[q[i]] = IF i \in DOMAIN D THEN Attached ELSE Lazy
    BY <1>4
  <2>1. CASE i = n + 1
    <3>1. i \notin DOMAIN D
      BY <1>1, <1>4, <2>1
    <3> QED BY <1>2, <1>4, <2>1, <3>1
  <2>2. CASE i # n + 1
    <3>1. i \in DOMAIN o /\ q[i] = o[i]
      BY <1>4, <2>2
    <3>2. o[i] \in Monitors \ {m}
      BY <1>1, <1>5, <3>1 DEF ToSet
    <3> QED BY <1>1, <1>2, <3>1, <3>2
  <2> QED BY <2>1, <2>2
<1>8. \A x \in Monitors : x \notin ToSet(q) => g[x].state # "attached"
  BY <1>1, <1>2, <1>6
<1>9. \A p \in S : g[p.who] = Detached(p.data) /\ p.who \in Monitors \ ToSet(q)
  BY <1>1, <1>2, <1>6
<1>10. DOMAIN D \subseteq DOMAIN q /\ ToSet(q) \subseteq Monitors
  BY <1>1, <1>4, <1>6
<1>11. Handles(g, q, D, S)
  BY <1>2, <1>7, <1>8, <1>9, <1>10 DEF Handles
<1> QED
  BY <1>11 DEF g, q

\* A monitor is declared before there are fields.
LEMMA AddReady ==
  ASSUME NEW s, NEW k, NEW src, NEW d, NEW o, NEW m \in Monitors,
         ReadySim(s, k, src, d, o), IsList(o), m \notin ToSet(o)
  PROVE  ReadySim(add_monitor(s, m), k, src, d, Append(o, m))
<1> DEFINE v == add_monitor(s, m)
<1>1. /\ s = [n \in SimNames |-> s[n]] /\ s.k_point = k /\ s.sources = src /\ s.design = d
      /\ s.dft_objects = o /\ s.initialized = FALSE /\ s.structure = NoStructure
      /\ s.fields = NoFields /\ s.load_fields_file = NoFile /\ s.fault = "none"
      /\ Handles(s.handle, o, <<>>, {})
  BY DEF ReadySim
<1>2. v = [s EXCEPT !.handle[m] = Lazy, !.dft_objects = Append(@, m)]
  BY DEF add_monitor
<1> HIDE DEF v
<1>3. /\ v = [n \in SimNames |-> v[n]] /\ v.k_point = k /\ v.sources = src /\ v.design = d
      /\ v.dft_objects = Append(o, m) /\ v.initialized = FALSE /\ v.structure = NoStructure
      /\ v.fields = NoFields /\ v.load_fields_file = NoFile /\ v.fault = "none"
      /\ v.handle = [s.handle EXCEPT ![m] = Lazy]
  BY <1>1, <1>2 DEF SimNames
<1>4. Handles(v.handle, Append(o, m), <<>>, {})
  <2>1. \A p \in {} : p.who # m
    OBVIOUS
  <2>2. Handles([s.handle EXCEPT ![m] = Lazy], Append(o, m), <<>>, {})
    BY ONLY <1>1, <2>1, HandlesAdded, IsList(o), m \notin ToSet(o), m \in Monitors
  <2> QED BY <1>3, <2>2
<1>5. ReadySim(v, k, src, d, Append(o, m))
  BY <1>3, <1>4 DEF ReadySim
<1> QED
  BY <1>5 DEF v

\* A monitor is declared while there are fields: it has no chunks yet.
LEMMA AddLive ==
  ASSUME NEW s, NEW k, NEW src, NEW d, NEW o, NEW h, NEW D, NEW S, NEW m \in Monitors,
         LiveSim(s, k, src, d, o, h, D, S), IsList(o), m \notin ToSet(o), \A p \in S : p.who # m
  PROVE  LiveSim(add_monitor(s, m), k, src, d, Append(o, m), h, D, S)
<1> DEFINE v == add_monitor(s, m)
<1>1. /\ s = [n \in SimNames |-> s[n]] /\ s.k_point = k /\ s.sources = src /\ s.design = d
      /\ s.dft_objects = o /\ s.initialized = TRUE /\ s.structure = d
      /\ FieldsAre(s.fields, k, src, d, h, Registered(o, D)) /\ s.load_fields_file = NoFile
      /\ s.fault = "none" /\ Handles(s.handle, o, D, S)
  BY DEF LiveSim
<1>2. v = [s EXCEPT !.handle[m] = Lazy, !.dft_objects = Append(@, m)]
  BY DEF add_monitor
<1> HIDE DEF v
<1>3. /\ v = [n \in SimNames |-> v[n]] /\ v.k_point = k /\ v.sources = src /\ v.design = d
      /\ v.dft_objects = Append(o, m) /\ v.initialized = TRUE /\ v.structure = d
      /\ v.fields = s.fields /\ v.load_fields_file = NoFile /\ v.fault = "none"
      /\ v.handle = [s.handle EXCEPT ![m] = Lazy]
  BY <1>1, <1>2 DEF SimNames
<1>4. Handles(v.handle, Append(o, m), D, S)
  <2>1. \A p \in S : p.who # m
    OBVIOUS
  <2>2. Handles([s.handle EXCEPT ![m] = Lazy], Append(o, m), D, S)
    BY ONLY <1>1, <2>1, HandlesAdded, IsList(o), m \notin ToSet(o), m \in Monitors
  <2> QED BY <1>3, <2>2
<1>5. Registered(Append(o, m), D) = Registered(o, D)
  <2>1. PICK n \in Nat : n = Len(o) /\ o = [i \in 1..n |-> o[i]]
    BY DEF IsList
  <2>2. Append(o, m) = [i \in 1..(n + 1) |-> IF i = n + 1 THEN m ELSE o[i]]
    BY <2>1, ListAppend
  <2>3. DOMAIN D \subseteq 1..n
    BY <1>1, <2>1 DEF Handles
  <2>4. \A i \in DOMAIN D : Append(o, m)[i] = o[i]
    BY <2>2, <2>3
  <2> QED BY <2>4 DEF Registered
<1>6. LiveSim(v, k, src, d, Append(o, m), h, D, S)
  BY <1>1, <1>3, <1>4, <1>5 DEF LiveSim
<1> QED
  BY <1>6 DEF v

\* The next monitor of the list gets its chunks.
LEMMA AttachLive ==
  ASSUME NEW s, NEW k, NEW src, NEW d, NEW o, NEW h, NEW D, NEW S,
         LiveSim(s, k, src, d, o, h, D, S), IsList(o), IsList(D), Distinct(o),
         Len(D) < Len(o)
  PROVE  LiveSim(Attach(s, o[Len(D) + 1]), k, src, d, o, h, Append(D, <<>>), S)
<1>0. PICK n \in Nat, c \in Nat : /\ n = Len(o) /\ o = [i \in 1..n |-> o[i]] /\ c < n
                                  /\ c = Len(D) /\ D = [i \in 1..c |-> D[i]]
  BY DEF IsList
<1> DEFINE m == o[c + 1]
           M == s.fields.monitors
           E == Append(D, <<>>)
           N == Append(M, Entry(m, <<>>))
           v == Attach(s, m)
<1>1. /\ s = [x \in SimNames |-> s[x]] /\ s.k_point = k /\ s.sources = src /\ s.design = d
      /\ s.dft_objects = o /\ s.initialized = TRUE /\ s.structure = d
      /\ FieldsAre(s.fields, k, src, d, h, Registered(o, D)) /\ s.load_fields_file = NoFile
      /\ s.fault = "none" /\ Handles(s.handle, o, D, S)
  BY DEF LiveSim
<1>2. M = [i \in 1..c |-> Entry(o[i], D[i])] /\ DOMAIN D = 1..c /\ DOMAIN o = 1..n
  <2>1. M = Registered(o, D)
    BY <1>1 DEF FieldsAre
  <2>2. DOMAIN D = 1..c /\ DOMAIN o = 1..n
    BY <1>0
  <2> QED BY <2>1, <2>2 DEF Registered
<1>3. c + 1 \in DOMAIN o /\ m \in Monitors /\ m \in ToSet(o)
  <2>1. c + 1 \in DOMAIN o /\ ToSet(o) \subseteq Monitors
    BY <1>0, <1>1, <1>2 DEF Handles
  <2> QED BY <2>1 DEF ToSet
<1>4. \A i \in 1..c : [M[i] EXCEPT !.held = @ /\ M[i].who # m] = M[i]
  <2> SUFFICES ASSUME NEW i \in 1..c
               PROVE  [M[i] EXCEPT !.held = @ /\ M[i].who # m] = M[i]
    OBVIOUS
  <2>1. o[i] # m
    <3>1. i \in DOMAIN o /\ i # c + 1
      BY <1>0, <1>2
    <3> QED BY <1>3, <3>1 DEF Distinct
  <2> DEFINE e == M[i]
             l == o[i]
             b == D[i]
  <2>2. e = Entry(l, b)
    BY <1>2
  <2>3. l # m
    BY <2>1
  <2> HIDE DEF e, l, b, m
  <2>4. [e EXCEPT !.held = @ /\ e.who # m] = e
    BY <2>2, <2>3 DEF Entry
  <2> QED BY <2>4 DEF e
<1>5. [i \in DOMAIN M |-> [M[i] EXCEPT !.held = @ /\ M[i].who # m]] = M
  <2>1. DOMAIN M = 1..c /\ M = [i \in 1..c |-> M[i]]
    BY <1>2
  <2> HIDE DEF M
  <2> QED BY <1>4, <2>1
<1>6. v = [s EXCEPT !.fields.monitors = N, !.handle[m] = Attached]
  BY <1>5 DEF Attach, Entry
<1>7. /\ E = [i \in 1..(c + 1) |-> IF i = c + 1 THEN <<>> ELSE D[i]]
      /\ N = [i \in 1..(c + 1) |-> IF i = c + 1 THEN Entry(m, <<>>) ELSE M[i]]
  <2>1. E = [i \in 1..(c + 1) |-> IF i = c + 1 THEN <<>> ELSE D[i]]
    BY <1>0, ListAppend
  <2>2. M = [i \in 1..c |-> M[i]]
    BY <1>2
  <2> HIDE DEF M
  <2> QED BY <2>1, <2>2, ListAppend
<1> HIDE DEF E, N, v, M
<1>8. N = Registered(o, E)
  <2>1. DOMAIN E = 1..(c + 1) /\ N = [i \in 1..(c + 1) |-> N[i]]
    BY <1>7
  <2>2. \A i \in 1..(c + 1) : N[i] = Entry(o[i], E[i])
    BY <1>2, <1>7 DEF M
  <2>3. N = [i \in 1..(c + 1) |-> Entry(o[i], E[i])]
    BY <2>1, <2>2
  <2> QED BY <2>1, <2>3 DEF Registered
<1> HIDE DEF m
<1>9. /\ v = [x \in SimNames |-> v[x]] /\ v.k_point = k /\ v.sources = src /\ v.design = d
      /\ v.dft_objects = o /\ v.initialized = TRUE /\ v.structure = d
      /\ v.fields = [s.fields EXCEPT !.monitors = N]
      /\ v.load_fields_file = NoFile /\ v.fault = "none"
      /\ v.handle = [s.handle EXCEPT ![m] = Attached]
  BY <1>1, <1>6 DEF SimNames
<1>10. FieldsAre(v.fields, k, src, d, h, Registered(o, E))
  BY <1>1, <1>8, <1>9 DEF FieldsAre, FieldNames
<1>11. Handles(v.handle, o, E, S)
  <2> DEFINE g == s.handle
             f == v.handle
  <2>1. /\ g = [x \in Monitors |-> g[x]]
        /\ ToSet(o) \subseteq Monitors
        /\ \A i \in DOMAIN o : g[o[i]] = IF i \in DOMAIN D THEN Attached ELSE Lazy
        /\ \A x \in Monitors : x \notin ToSet(o) => g[x].state # "attached"
        /\ \A p \in S : g[p.who] = Detached(p.data) /\ p.who \in Monitors \ ToSet(o)
    BY <1>1 DEF Handles
  <2>2. f = [x \in Monitors |-> f[x]] /\ f[m] = Attached /\ \A x \in Monitors \ {m} : f[x] = g[x]
    BY <1>3, <1>9, <2>1
  <2> HIDE DEF f, g
  <2>3. DOMAIN E = 1..(c + 1)
    BY <1>7
  <2>4. \A i \in DOMAIN o : f[o[i]] = IF i \in DOMAIN E THEN Attached ELSE Lazy
    <3> SUFFICES ASSUME NEW i \in DOMAIN o
                 PROVE  f[o[i]] = IF i \in DOMAIN E THEN Attached ELSE Lazy
      OBVIOUS
    <3>1. CASE i = c + 1
      BY <2>2, <2>3, <3>1 DEF m
    <3>2. CASE i # c + 1
      <4>1. o[i] \in Monitors \ {m}
        BY <1>3, <2>1, <3>2 DEF m, Distinct, ToSet
      <4>2. i \in DOMAIN E <=> i \in DOMAIN D
        BY <1>2, <2>3, <3>2
      <4> QED BY <2>1, <2>2, <4>1, <4>2
    <3> QED BY <3>1, <3>2
  <2>5. \A x \in Monitors : x \notin ToSet(o) => f[x].state # "attached"
    BY <1>3, <2>1, <2>2
  <2>6. \A p \in S : f[p.who] = Detached(p.data) /\ p.who \in Monitors \ ToSet(o)
    BY <1>3, <2>1, <2>2
  <2>7. DOMAIN E \subseteq DOMAIN o
    BY <1>0, <1>2, <2>3
  <2> QED BY <2>1, <2>2, <2>4, <2>5, <2>6, <2>7 DEF Handles, f
<1>12. LiveSim(v, k, src, d, o, h, E, S)
  BY <1>9, <1>10, <1>11 DEF LiveSim
<1> QED
  BY <1>0, <1>12 DEF v, m, E

\* All monitors get their chunks, and none has accumulated anything yet.
Empty(n) == [i \in 1..n |-> <<>>]

\* Monitors that have no chunks get them in the order of the list.
LEMMA EvaluateLive ==
  ASSUME NEW s, NEW k, NEW src, NEW d, NEW o, NEW h, NEW S,
         LiveSim(s, k, src, d, o, h, <<>>, S), IsList(o), Distinct(o)
  PROVE  LiveSim(evaluate_dft_objects(s), k, src, d, o, h, Empty(Len(o)), S)
<1>0. PICK n \in Nat : n = Len(o) /\ o = [i \in 1..n |-> o[i]]
  BY DEF IsList
<1>1. s.dft_objects = o
  BY DEF LiveSim
<1>2. o \in Seq({o[i] : i \in 1..n})
  BY <1>0
<1>3. PICK f : Unrolled(f, "evaluate", s) /\ evaluate_dft_objects(s) = f[n]
  BY <1>0, <1>1, <1>2, LoopValue
<1>4. /\ f[0] = s
      /\ \A i \in 0..(n - 1) : f[i + 1] = IF f[i].handle[o[i + 1]].state = "lazy"
                                          THEN Attach(f[i], o[i + 1]) ELSE f[i]
  BY <1>0, <1>1, <1>3 DEF Unrolled, Advance
<1> DEFINE T == {i \in Nat : i <= n => LiveSim(f[i], k, src, d, o, h, Empty(i), S)}
<1>5. 0 \in T
  <2>1. Empty(0) = <<>>
    BY DEF Empty
  <2> QED BY <1>4, <2>1
<1>6. ASSUME NEW i \in T PROVE i + 1 \in T
  <2> SUFFICES ASSUME i + 1 <= n PROVE LiveSim(f[i + 1], k, src, d, o, h, Empty(i + 1), S)
    OBVIOUS
  <2>1. i \in Nat /\ i <= n /\ i \in 0..(n - 1) /\ i + 1 \in DOMAIN o
    BY <1>0
  <2>2. LiveSim(f[i], k, src, d, o, h, Empty(i), S)
    BY <2>1
  <2> DEFINE D == Empty(i)
  <2>3. D = [j \in 1..i |-> D[j]] /\ Empty(i + 1) = [j \in 1..(i + 1) |-> <<>>]
        /\ \A j \in 1..i : D[j] = <<>>
    BY DEF Empty
  <2> HIDE DEF D, T
  <2>4. Len(D) = i /\ Append(D, <<>>) = [j \in 1..(i + 1) |-> IF j = i + 1 THEN <<>> ELSE D[j]]
    BY <2>1, <2>3, ListAppend
  <2>5. Append(D, <<>>) = Empty(i + 1)
    <3>1. \A j \in 1..(i + 1) : (IF j = i + 1 THEN <<>> ELSE D[j]) = <<>>
      BY <2>1, <2>3
    <3> QED BY <2>3, <2>4, <3>1
  <2>6. IsList(D)
    BY <2>1, <2>3, <2>4 DEF IsList
  <2>7. LiveSim(Attach(f[i], o[i + 1]), k, src, d, o, h, Empty(i + 1), S)
    <3>1. LiveSim(f[i], k, src, d, o, h, D, S) /\ Len(D) < Len(o)
      BY <1>0, <2>1, <2>2, <2>4 DEF D
    <3>2. LiveSim(Attach(f[i], o[Len(D) + 1]), k, src, d, o, h, Append(D, <<>>), S)
      BY ONLY <2>6, <3>1, AttachLive, IsList(o), Distinct(o)
    <3> QED BY <2>4, <2>5, <3>2
  <2>8. f[i].handle[o[i + 1]].state = "lazy"
    <3>1. i + 1 \notin DOMAIN D
      BY <2>1, <2>3
    <3>2. Handles(f[i].handle, o, D, S)
      BY <2>2 DEF LiveSim, D
    <3>3. f[i].handle[o[i + 1]] = Lazy
      BY <2>1, <3>1, <3>2 DEF Handles
    <3> QED BY <3>3 DEF Lazy
  <2> QED BY <1>4, <2>1, <2>7, <2>8
<1>7. n \in T
  <2> HIDE DEF T
  <2>1. T \subseteq Nat
    BY DEF T
  <2> QED BY <1>5, <1>6, <2>1, SetInduction
<1> QED
  BY <1>0, <1>3, <1>7

\* Once they have them the call has no effect.
LEMMA EvaluateAgain ==
  ASSUME NEW s, NEW k, NEW src, NEW d, NEW o, NEW h, NEW D, NEW S,
         LiveSim(s, k, src, d, o, h, D, S), IsList(o), DOMAIN D = DOMAIN o
  PROVE  evaluate_dft_objects(s) = s
<1>0. PICK n \in Nat : n = Len(o) /\ o = [i \in 1..n |-> o[i]]
  BY DEF IsList
<1>1. s.dft_objects = o /\ Handles(s.handle, o, D, S)
  BY DEF LiveSim
<1>2. o \in Seq({o[i] : i \in 1..n})
  BY <1>0
<1>3. PICK f : Unrolled(f, "evaluate", s) /\ evaluate_dft_objects(s) = f[n]
  BY <1>0, <1>1, <1>2, LoopValue
<1>4. /\ f[0] = s
      /\ \A i \in 0..(n - 1) : f[i + 1] = IF f[i].handle[o[i + 1]].state = "lazy"
                                          THEN Attach(f[i], o[i + 1]) ELSE f[i]
  BY <1>0, <1>1, <1>3 DEF Unrolled, Advance
<1> DEFINE T == {i \in Nat : i <= n => f[i] = s}
<1>5. 0 \in T
  BY <1>4
<1>6. ASSUME NEW i \in T PROVE i + 1 \in T
  <2> SUFFICES ASSUME i + 1 <= n PROVE f[i + 1] = s
    OBVIOUS
  <2>1. i \in Nat /\ i <= n /\ i \in 0..(n - 1) /\ i + 1 \in DOMAIN o /\ f[i] = s
    BY <1>0
  <2>2. s.handle[o[i + 1]].state # "lazy"
    BY <1>1, <2>1 DEF Handles, Attached
  <2> QED BY <1>4, <2>1, <2>2
<1>7. n \in T
  <2> HIDE DEF T
  <2>1. T \subseteq Nat
    BY DEF T
  <2> QED BY <1>5, <1>6, <2>1, SetInduction
<1> QED
  BY <1>3, <1>7

\* A run is one piece more for the fields and every monitor.
LEMMA RunLive ==
  ASSUME NEW s, NEW k, NEW src, NEW d, NEW o, NEW h, NEW D, NEW S, NEW g, NEW E,
         LiveSim(s, k, src, d, o, h, D, S),
         g = Append(h, [k |-> k, sources |-> <<src>>, structure |-> d]),
         E = [i \in DOMAIN D |-> Append(D[i], g)]
  PROVE  LiveSim(_run_until(s), k, src, d, o, g, E, S)
<1> DEFINE v == _run_until(s)
           M == s.fields.monitors
           N == [i \in DOMAIN M |-> [M[i] EXCEPT !.data = Append(@, g)]]
<1>1. /\ s = [n \in SimNames |-> s[n]] /\ s.k_point = k /\ s.sources = src /\ s.design = d
      /\ s.dft_objects = o /\ s.initialized = TRUE /\ s.structure = d
      /\ FieldsAre(s.fields, k, src, d, h, Registered(o, D)) /\ s.load_fields_file = NoFile
      /\ s.fault = "none" /\ Handles(s.handle, o, D, S)
  BY DEF LiveSim
<1>2. Append(s.fields.history, Piece(s)) = g /\ M = Registered(o, D)
  BY <1>1 DEF Piece, FieldsAre
<1>3. N = Registered(o, E)
  <2>1. DOMAIN M = DOMAIN D /\ \A i \in DOMAIN D : M[i] = Entry(o[i], D[i])
    BY <1>2 DEF Registered
  <2>2. DOMAIN E = DOMAIN D /\ \A i \in DOMAIN D : E[i] = Append(D[i], g)
    OBVIOUS
  <2>3. \A i \in DOMAIN D : [M[i] EXCEPT !.data = Append(@, g)] = Entry(o[i], E[i])
    <3> SUFFICES ASSUME NEW i \in DOMAIN D
                 PROVE  [M[i] EXCEPT !.data = Append(@, g)] = Entry(o[i], E[i])
      OBVIOUS
    <3> DEFINE m == M[i]
               b == D[i]
               l == o[i]
    <3>1. m = Entry(l, b) /\ E[i] = Append(b, g)
      BY <2>1, <2>2
    <3> HIDE DEF m, b, l, M
    <3>2. m.data = b
      BY <3>1 DEF Entry
    <3>3. [m EXCEPT !.data = Append(@, g)] = [m EXCEPT !.data = Append(b, g)]
      BY <3>2
    <3> DEFINE c == Append(b, g)
    <3> HIDE DEF c
    <3>4. [m EXCEPT !.data = c] = Entry(l, c)
      BY <3>1, EntryData
    <3> QED BY <3>1, <3>3, <3>4 DEF m, l, c
  <2>4. N = [i \in DOMAIN D |-> Entry(o[i], E[i])]
    BY <2>1, <2>3
  <2> QED BY <2>2, <2>4 DEF Registered
<1>4. v = [s EXCEPT !.fields.history = g, !.fields.monitors = N]
  BY <1>1, <1>2 DEF _run_until
<1> HIDE DEF v, N
<1>5. /\ v = [n \in SimNames |-> v[n]] /\ v.k_point = k /\ v.sources = src /\ v.design = d
      /\ v.dft_objects = o /\ v.initialized = TRUE /\ v.structure = d
      /\ v.fields = [[s.fields EXCEPT !.history = g] EXCEPT !.monitors = N]
      /\ v.load_fields_file = NoFile /\ v.fault = "none" /\ v.handle = s.handle
  BY <1>1, <1>4 DEF SimNames
<1>6. FieldsAre(v.fields, k, src, d, g, N)
  BY <1>1, <1>5 DEF FieldsAre, FieldNames
<1>7. Handles(s.handle, o, E, S)
  BY <1>1 DEF Handles
<1>8. LiveSim(v, k, src, d, o, g, E, S)
  BY <1>3, <1>5, <1>6, <1>7 DEF LiveSim
<1> QED
  BY <1>8 DEF v

\* A new start: all fields and monitors go.
LEMMA ResetSafe ==
  ASSUME NEW K, NEW s, Safe(K, s)
  PROVE  ReadySim(reset_meep(s), s.k_point, s.sources, s.design, <<>>)
<1> DEFINE v == reset_meep(s)
           H == [m \in Monitors |->
                   IF s.handle[m].state # "attached" THEN s.handle[m]
                   ELSE IF m \in Persistent THEN Detached(DataOf(s, m)) ELSE Freed]
<1>1. /\ s = [n \in SimNames |-> s[n]] /\ s.load_fields_file = NoFile /\ s.fault = "none"
  BY DEF Safe
<1>2. \A m \in Monitors : H[m].state # "attached"
  BY DEF Detached, Freed
<1>3. H = [m \in Monitors |-> H[m]]
  OBVIOUS
<1>4. v = [[s EXCEPT !.fields = NoFields, !.handle = H]
             EXCEPT !.structure = NoStructure, !.dft_objects = <<>>, !.initialized = FALSE]
  BY DEF reset_meep, Destroyed
<1> HIDE DEF v, H
<1>5. /\ v = [n \in SimNames |-> v[n]] /\ v.k_point = s.k_point /\ v.sources = s.sources
      /\ v.design = s.design /\ v.dft_objects = <<>> /\ v.initialized = FALSE
      /\ v.structure = NoStructure /\ v.fields = NoFields
      /\ v.load_fields_file = NoFile /\ v.fault = "none" /\ v.handle = H
  BY <1>1, <1>4 DEF SimNames
<1>6. Handles(H, <<>>, <<>>, {})
  <2>1. DOMAIN <<>> = {} /\ ToSet(<<>>) = {}
    BY DEF ToSet
  <2> QED BY <1>2, <1>3, <2>1 DEF Handles
<1> QED
  BY <1>5, <1>6 DEF ReadySim, v

\* Another state of the monitors of a simulation.
Regained(s, g, M) == [s EXCEPT !.handle = g, !.fields.monitors = M]

\* What is left after the monitors of a simulation have been cleared: H are
\* the handles, whatever the fields had registered on the way.
LEMMA ClearedLive ==
  ASSUME NEW s, NEW k, NEW src, NEW d, NEW o, NEW h, NEW D, NEW S, NEW r, NEW H, NEW g, NEW M,
         LiveSim(s, k, src, d, o, h, D, S),
         r = Regained(s, g, M),
         H = [m \in Monitors |-> IF g[m].state = "attached" THEN Detached(DataOf(r, m)) ELSE g[m]]
  PROVE  /\ r.handle = g /\ r.fields.monitors = M
         /\ \A T : Handles(H, <<>>, <<>>, T) =>
                     LiveSim(WithoutMonitors(r), k, src, d, <<>>, h, <<>>, T)
<1>1. /\ s = [n \in SimNames |-> s[n]] /\ s.k_point = k /\ s.sources = src /\ s.design = d
      /\ s.initialized = TRUE /\ s.structure = d
      /\ FieldsAre(s.fields, k, src, d, h, Registered(o, D)) /\ s.load_fields_file = NoFile
      /\ s.fault = "none"
  BY DEF LiveSim
<1>2. /\ r = [n \in SimNames |-> r[n]] /\ r.k_point = k /\ r.sources = src /\ r.design = d
      /\ r.initialized = TRUE /\ r.structure = d
      /\ r.fields = [s.fields EXCEPT !.monitors = M]
      /\ r.load_fields_file = NoFile /\ r.fault = "none" /\ r.handle = g
  BY <1>1 DEF SimNames, Regained
<1>3. FieldsAre(r.fields, k, src, d, h, M)
  BY ONLY <1>1, <1>2 DEF FieldsAre, FieldNames
<1> DEFINE v == WithoutMonitors(r)
<1>4. v = [r EXCEPT !.dft_objects = <<>>, !.handle = H, !.fields.monitors = <<>>]
  <2>1. H = [m \in Monitors |->
               IF r.handle[m].state = "attached" THEN Detached(DataOf(r, m)) ELSE r.handle[m]]
    BY <1>2
  <2> QED BY ONLY <2>1 DEF WithoutMonitors
<1> HIDE DEF v
<1>5. /\ v = [n \in SimNames |-> v[n]] /\ v.k_point = k /\ v.sources = src /\ v.design = d
      /\ v.dft_objects = <<>> /\ v.initialized = TRUE /\ v.structure = d
      /\ v.fields = [r.fields EXCEPT !.monitors = <<>>]
      /\ v.load_fields_file = NoFile /\ v.fault = "none" /\ v.handle = H
  BY <1>2, <1>4 DEF SimNames
<1>6. FieldsAre(v.fields, k, src, d, h, <<>>)
  BY <1>3, <1>5 DEF FieldsAre, FieldNames
<1>7. Registered(<<>>, <<>>) = <<>>
  BY DEF Registered
<1>8. \A T : Handles(H, <<>>, <<>>, T) => LiveSim(v, k, src, d, <<>>, h, <<>>, T)
  BY <1>5, <1>6, <1>7 DEF LiveSim
<1> QED
  BY <1>2, <1>3, <1>8 DEF v, FieldsAre

\* A persistent monitor of its own keeps its data.
LEMMA ClearOne ==
  ASSUME NEW s, NEW k, NEW src, NEW d, NEW a, NEW h, NEW A, NEW S, a \in Persistent,
         LiveSim(s, k, src, d, <<a>>, h, <<A>>, S)
  PROVE  LiveSim(clear_dft_monitors(s), k, src, d, <<>>, h, <<>>, S \cup {Saved(a, A)})
<1> DEFINE g == s.handle
           M == s.fields.monitors
           H == [m \in Monitors |->
                   IF g[m].state = "attached" THEN Detached(DataOf(s, m)) ELSE g[m]]
           T == S \cup {Saved(a, A)}
<1>1. /\ s = [n \in SimNames |-> s[n]] /\ s.dft_objects = <<a>>
      /\ FieldsAre(s.fields, k, src, d, h, Registered(<<a>>, <<A>>))
      /\ Handles(g, <<a>>, <<A>>, S)
  BY DEF LiveSim
<1>2. M = <<Entry(a, A)>>
  <2>1. M = Registered(<<a>>, <<A>>)
    BY <1>1 DEF FieldsAre
  <2>2. Registered(<<a>>, <<A>>) = [i \in 1..1 |-> Entry(<<a>>[i], <<A>>[i])]
    BY DEF Registered
  <2>3. \A i \in 1..1 : Entry(<<a>>[i], <<A>>[i]) = Entry(a, A)
    OBVIOUS
  <2> QED BY <2>1, <2>2, <2>3
<1>3. /\ a \in Monitors /\ g[a] = Attached /\ g = [m \in Monitors |-> g[m]]
      /\ \A m \in Monitors \ {a} : g[m].state # "attached"
      /\ \A p \in S : p.who \in Monitors \ {a} /\ g[p.who] = Detached(p.data)
  <2>1. ToSet(<<a>>) = {a} /\ 1 \in DOMAIN <<a>> /\ 1 \in DOMAIN <<A>> /\ <<a>>[1] = a
    BY DEF ToSet
  <2> QED BY <1>1, <2>1 DEF Handles
<1>4. DataOf(s, a) = A
  <2>1. \A i \in DOMAIN M : i = 1
    BY <1>2
  <2>2. 1 \in DOMAIN M /\ M[1].who = a /\ M[1].held /\ M[1].data = A
    BY <1>2 DEF Entry
  <2>3. EntryOf(s, a) = 1
    BY <2>1, <2>2 DEF EntryOf
  <2> QED BY <1>3, <2>2, <2>3 DEF DataOf, Attached
<1>5. H[a] = Detached(A) /\ \A m \in Monitors \ {a} : H[m] = g[m]
  BY <1>3, <1>4 DEF Attached
<1>6. Handles(H, <<>>, <<>>, T)
  <2>1. DOMAIN <<>> = {} /\ ToSet(<<>>) = {}
    BY DEF ToSet
  <2>2. H = [m \in Monitors |-> H[m]]
    OBVIOUS
  <2>3. \A m \in Monitors : H[m].state # "attached"
    BY <1>3, <1>5 DEF Detached
  <2> HIDE DEF H
  <2>4. \A p \in T : p.who \in Monitors /\ H[p.who] = Detached(p.data)
    BY <1>3, <1>5 DEF Saved
  <2> HIDE DEF T
  <2> QED BY <2>1, <2>2, <2>3, <2>4 DEF Handles
<1>7. clear_dft_monitors(s) = WithoutMonitors(s)
  <2>1. <<a>> \in Seq({a}) /\ Len(<<a>>) = 1 /\ <<a>>[1] = a
    OBVIOUS
  <2>2. PICK f : Unrolled(f, "clear", s) /\ clear_dft_monitors(s) = WithoutMonitors(f[1])
    BY <1>1, <2>1, LoopValue
  <2>3. Len(s.dft_objects) = 1 /\ s.dft_objects[1] = a
    BY <1>1, <2>1
  <2>a. 0 \in 0..(Len(s.dft_objects) - 1) /\ 0 + 1 = 1
    BY <2>3
  <2>b. f[0] = s /\ f[0 + 1] = Advance("clear", f[0], s.dft_objects[0 + 1])
    BY ONLY <2>2, <2>a DEF Unrolled
  <2>4. f[1] = Dropped(s, a)
    BY ONLY <2>3, <2>a, <2>b DEF Advance
  <2>5. Dropped(s, a) = s
    BY <1>3 DEF Dropped, swigobj_attr, Attached
  <2> QED BY <2>2, <2>4, <2>5
<1>8. s = Regained(s, g, M)
  <2> DEFINE v == Regained(s, g, M)
  <2>1. /\ v = [n \in SimNames |-> v[n]] /\ v.fields = [s.fields EXCEPT !.monitors = M]
        /\ v.handle = g /\ \A n \in SimNames \ {"fields", "handle"} : v[n] = s[n]
    BY <1>1 DEF SimNames, Regained
  <2> HIDE DEF v
  <2>2. v.fields = s.fields
    BY <1>1, <2>1 DEF FieldsAre, FieldNames
  <2>3. \A n \in SimNames : v[n] = s[n]
    BY <2>1, <2>2
  <2>4. v = s
    BY <1>1, <2>1, <2>3
  <2> QED BY <2>4 DEF v
<1>9. \A TT : Handles(H, <<>>, <<>>, TT) =>
                LiveSim(WithoutMonitors(s), k, src, d, <<>>, h, <<>>, TT)
  <2>1. H = [m \in Monitors |-> IF g[m].state = "attached" THEN Detached(DataOf(s, m)) ELSE g[m]]
    OBVIOUS
  <2> HIDE DEF H, g, M
  <2>2. LiveSim(s, k, src, d, <<a>>, h, <<A>>, S)
    OBVIOUS
  <2> QED BY ONLY <1>8, <2>1, <2>2, ClearedLive
<1> HIDE DEF H
<1> QED
  BY <1>6, <1>7, <1>9

\* The first of two.
LEMMA FirstRemoved ==
  ASSUME NEW x, NEW y
  PROVE  RemoveAt(<<x, y>>, 1) = <<y>>
<1> DEFINE q == <<x, y>>
<1>1. q \in Seq({x, y}) /\ Len(q) = 2 /\ q[2] = y
  OBVIOUS
<1>2. SubSeq(q, 1, 0) = <<>>
  OBVIOUS
<1>3. SubSeq(q, 2, 2) = <<y>>
  <2>1. /\ SubSeq(q, 2, 2) \in Seq({x, y}) /\ Len(SubSeq(q, 2, 2)) = 1
        /\ SubSeq(q, 2, 2)[1] = q[2]
    <3>1. 2 \in 1..(Len(q) + 1) /\ 2 \in 0..Len(q) /\ 2 - 2 + 1 = 1
      BY <1>1
    <3> HIDE DEF q
    <3> QED BY <1>1, <3>1, SubSeqProperties
  <2>2. <<y>> \in Seq({x, y}) /\ Len(<<y>>) = 1 /\ <<y>>[1] = y
    OBVIOUS
  <2>3. \A i \in 1..1 : SubSeq(q, 2, 2)[i] = <<y>>[i]
    BY <1>1, <2>1, <2>2
  <2> HIDE DEF q
  <2> QED BY <2>1, <2>2, <2>3, SeqEqual
<1>4. <<>> \o <<y>> = <<y>>
  <2>1. <<>> \in Seq({y}) /\ <<y>> \in Seq({y}) /\ Len(<<>>) = 0 /\ Len(<<y>>) = 1
    BY EmptySeq
  <2>2. <<>> \o <<y>> \in Seq({y}) /\ Len(<<>> \o <<y>>) = 1
    BY <2>1, ConcatProperties
  <2>3. (<<>> \o <<y>>)[1] = <<y>>[1 - 0]
    BY <2>1, ConcatProperties
  <2>4. \A i \in 1..1 : (<<>> \o <<y>>)[i] = <<y>>[i]
    BY <2>3
  <2> QED BY <2>1, <2>2, <2>4, SeqEqual
<1>5. RemoveAt(q, 1) = SubSeq(q, 1, 1 - 1) \o SubSeq(q, 1 + 1, Len(q))
  BY DEF RemoveAt
<1> HIDE DEF q
<1> QED
  BY <1>1, <1>2, <1>3, <1>4, <1>5 DEF q

\* The objective loses its data, the persistent monitor of the design region
\* keeps them.
LEMMA ClearTwo ==
  ASSUME NEW s, NEW k, NEW src, NEW d, NEW a, NEW b, NEW h, NEW A, NEW B, NEW S,
         a \notin Persistent, b \in Persistent,
         LiveSim(s, k, src, d, <<a, b>>, h, <<A, B>>, S)
  PROVE  LiveSim(clear_dft_monitors(s), k, src, d, <<>>, h, <<>>, S \cup {Saved(b, B)})
<1> DEFINE g == [s.handle EXCEPT ![a] = Freed]
           M == <<Entry(b, B)>>
           r == Regained(s, g, M)
           H == [m \in Monitors |->
                   IF g[m].state = "attached" THEN Detached(DataOf(r, m)) ELSE g[m]]
           T == S \cup {Saved(b, B)}
<1>0. a # b
  OBVIOUS
<1>1. /\ s = [n \in SimNames |-> s[n]] /\ s.dft_objects = <<a, b>>
      /\ FieldsAre(s.fields, k, src, d, h, Registered(<<a, b>>, <<A, B>>))
      /\ Handles(s.handle, <<a, b>>, <<A, B>>, S)
  BY DEF LiveSim
<1>2. s.fields.monitors = <<Entry(a, A), Entry(b, B)>>
  <2>1. s.fields.monitors = Registered(<<a, b>>, <<A, B>>)
    BY <1>1 DEF FieldsAre
  <2>2. Registered(<<a, b>>, <<A, B>>) = [i \in 1..2 |-> Entry(<<a, b>>[i], <<A, B>>[i])]
    BY DEF Registered
  <2>3. \A i \in 1..2 : Entry(<<a, b>>[i], <<A, B>>[i]) = <<Entry(a, A), Entry(b, B)>>[i]
    OBVIOUS
  <2> QED BY <2>1, <2>2, <2>3
<1>3. /\ a \in Monitors /\ b \in Monitors /\ s.handle[a] = Attached /\ s.handle[b] = Attached
      /\ s.handle = [m \in Monitors |-> s.handle[m]]
      /\ \A m \in Monitors \ {a, b} : s.handle[m].state # "attached"
      /\ \A p \in S : p.who \in Monitors \ {a, b} /\ s.handle[p.who] = Detached(p.data)
  <2>1. /\ ToSet(<<a, b>>) = {a, b} /\ 1 \in DOMAIN <<a, b>> /\ 2 \in DOMAIN <<a, b>>
        /\ 1 \in DOMAIN <<A, B>> /\ 2 \in DOMAIN <<A, B>>
        /\ <<a, b>>[1] = a /\ <<a, b>>[2] = b
    BY DEF ToSet
  <2> QED BY <1>1, <2>1 DEF Handles
<1>4. EntryOf(s, a) = 1
  <2> DEFINE N == s.fields.monitors
  <2>1. /\ DOMAIN N = 1..2 /\ N[1].who = a /\ N[1].held /\ N[2].who = b
    BY <1>2 DEF Entry
  <2>2. 1 \in DOMAIN N /\ \A i \in DOMAIN N : N[i].who = a => i = 1
    BY <1>0, <2>1
  <2> QED BY <2>1, <2>2 DEF EntryOf
<1>5. remove(s, a) = r
  <2>1. remove(s, a) = [s EXCEPT !.handle[a] = Freed,
                                 !.fields.monitors = RemoveAt(@, EntryOf(s, a))]
    BY <1>3 DEF remove, Attached
  <2>2. RemoveAt(s.fields.monitors, EntryOf(s, a)) = M
    BY <1>2, <1>4, FirstRemoved
  <2>3. [s EXCEPT !.handle[a] = Freed, !.fields.monitors = RemoveAt(@, EntryOf(s, a))]
          = [s EXCEPT !.handle = g, !.fields.monitors = M]
    BY <2>2
  <2> QED BY <2>1, <2>3 DEF Regained
<1>6. /\ g = [m \in Monitors |-> g[m]] /\ g[a] = Freed /\ g[b] = Attached
      /\ \A m \in Monitors \ {a} : g[m] = s.handle[m]
  BY <1>0, <1>3
<1> HIDE DEF g
<1>7. H = [m \in Monitors |-> IF g[m].state = "attached" THEN Detached(DataOf(r, m)) ELSE g[m]]
  OBVIOUS
<1>8. r = Regained(s, g, M)
  OBVIOUS
<1> HIDE DEF r, H, M
<1>9. /\ r.handle = g /\ r.fields.monitors = M
      /\ \A TT : Handles(H, <<>>, <<>>, TT) =>
                   LiveSim(WithoutMonitors(r), k, src, d, <<>>, h, <<>>, TT)
  <2>1. LiveSim(s, k, src, d, <<a, b>>, h, <<A, B>>, S)
    OBVIOUS
  <2> QED BY ONLY <1>7, <1>8, <2>1, ClearedLive
<1>10. DataOf(r, b) = B
  <2>1. \A i \in DOMAIN M : i = 1
    BY DEF M
  <2>2. 1 \in DOMAIN M /\ M[1].who = b /\ M[1].held /\ M[1].data = B
    BY DEF M, Entry
  <2>3. EntryOf(r, b) = 1
    BY <1>9, <2>1, <2>2 DEF EntryOf
  <2> QED BY <1>6, <1>9, <2>2, <2>3 DEF DataOf, Attached
<1>11. H[b] = Detached(B) /\ \A m \in Monitors \ {b} : H[m] = g[m]
  <2>1. g[b].state = "attached" /\ \A m \in Monitors \ {b} : g[m].state # "attached"
    BY <1>3, <1>6 DEF Attached, Freed
  <2> QED BY <1>3, <1>7, <1>10, <2>1
<1>12. Handles(H, <<>>, <<>>, T)
  <2>1. DOMAIN <<>> = {} /\ ToSet(<<>>) = {}
    BY DEF ToSet
  <2>2. H = [m \in Monitors |-> H[m]]
    BY <1>7
  <2>3. \A m \in Monitors : H[m].state # "attached"
    BY <1>3, <1>6, <1>11 DEF Detached, Freed
  <2>4. \A p \in T : p.who \in Monitors /\ H[p.who] = Detached(p.data)
    <3> SUFFICES ASSUME NEW p \in T PROVE p.who \in Monitors /\ H[p.who] = Detached(p.data)
      OBVIOUS
    <3>1. CASE p \in S
      BY <1>3, <1>6, <1>11, <3>1
    <3>2. CASE p = Saved(b, B)
      BY <1>3, <1>11, <3>2 DEF Saved
    <3> QED BY <3>1, <3>2
  <2> HIDE DEF T
  <2> QED BY <2>1, <2>2, <2>3, <2>4 DEF Handles
<1>13. clear_dft_monitors(s) = WithoutMonitors(r)
  <2>1. <<a, b>> \in Seq({a, b}) /\ Len(<<a, b>>) = 2 /\ <<a, b>>[1] = a /\ <<a, b>>[2] = b
    OBVIOUS
  <2>2. PICK f : Unrolled(f, "clear", s) /\ clear_dft_monitors(s) = WithoutMonitors(f[2])
    BY <1>1, <2>1, LoopValue
  <2>3. Len(s.dft_objects) = 2 /\ s.dft_objects[1] = a /\ s.dft_objects[2] = b
    BY <1>1, <2>1
  <2>4. 0 \in 0..(Len(s.dft_objects) - 1) /\ 1 \in 0..(Len(s.dft_objects) - 1)
        /\ 0 + 1 = 1 /\ 1 + 1 = 2
    BY <2>3
  <2>5. /\ f[0] = s /\ f[0 + 1] = Advance("clear", f[0], s.dft_objects[0 + 1])
        /\ f[1 + 1] = Advance("clear", f[1], s.dft_objects[1 + 1])
    BY ONLY <2>2, <2>4 DEF Unrolled
  <2>6. f[1] = Dropped(s, a) /\ f[2] = Dropped(f[1], b)
    BY ONLY <2>3, <2>4, <2>5 DEF Advance
  <2>7. Dropped(s, a) = r
    <3>1. swigobj_attr(s, a) = s
      BY <1>3 DEF swigobj_attr, Attached
    <3> QED BY <1>5, <3>1 DEF Dropped
  <2>8. Dropped(r, b) = r
    BY <1>6, <1>9 DEF Dropped, swigobj_attr, Attached
  <2> QED BY <2>2, <2>6, <2>7, <2>8
<1> HIDE DEF T
<1>14. LiveSim(WithoutMonitors(r), k, src, d, <<>>, h, <<>>, T)
  BY <1>9, <1>12
<1> QED
  BY <1>13, <1>14 DEF T

------------------------------------------------------------------------------
(* The same of calls.                                                      *)

Does(s, method, a) == Performed(s, [method |-> method, argument |-> a])

\* One call that takes one view to another.
LEMMA MovesBy ==
  ASSUME NEW K, NEW x, NEW y, NEW method, NEW a, x.k \in K, y.k \in K,
         \A s : Is(s, x) => Is(Does(s, method, a), y)
  PROVE  /\ Moves(K, x, CallWith(method, a), y)
         /\ a = <<>> => Moves(K, x, Call(method), y)
<1> DEFINE c == [method |-> method, argument |-> a]
<1>1. \A s : Is(s, x) => Is(Performed(s, c), y)
  BY DEF Does
<1>2. CallWith(method, a) = <<c>> /\ (a = <<>> => Call(method) = <<c>>)
  BY DEF Call, CallWith
<1> HIDE DEF c
<1>3. Moves(K, x, <<c>>, y)
  BY <1>1, MovesOnce
<1> QED
  BY <1>2, <1>3

\* The Bloch vector of a view.
LEMMA ViewK ==
  ASSUME NEW k, NEW src, NEW d, NEW o, NEW h, NEW D, NEW S
  PROVE  Ready(k, src, d, o).k = k /\ Live(k, src, d, o, h, D, S).k = k
BY DEF Ready, Live

\* The calls on a simulation without fields.
LEMMA MovesReady ==
  ASSUME NEW K, NEW k \in K, NEW src, NEW d, NEW o
  PROVE  LET x == Ready(k, src, d, o)
         IN  /\ \A new : Moves(K, x, CallWith("change_sources", new), Ready(k, new, d, o))
             /\ \A m \in Monitors : IsList(o) /\ m \notin ToSet(o) =>
                  Moves(K, x, CallWith("add_monitor", m), Ready(k, src, d, Append(o, m)))
             /\ Moves(K, x, Call("init_sim"), Live(k, src, d, o, <<>>, <<>>, {}))
             /\ Moves(K, x, Call("WithFields"), Live(k, src, d, o, <<>>, <<>>, {}))
<1> DEFINE x == Ready(k, src, d, o)
           y == Live(k, src, d, o, <<>>, <<>>, {})
<1>0. x.k \in K /\ y.k \in K
  BY ViewK
<1>1. \A s : Is(s, x) => ReadySim(s, k, src, d, o)
  BY IsReady
<1>2. ASSUME NEW new PROVE Moves(K, x, CallWith("change_sources", new), Ready(k, new, d, o))
  <2> DEFINE z == Ready(k, new, d, o)
  <2>1. z.k \in K
    BY ViewK
  <2>2. ASSUME NEW s, Is(s, x) PROVE Is(Does(s, "change_sources", new), z)
    <3>1. Does(s, "change_sources", new) = change_sources(s, new)
      BY CallMeans DEF Does
    <3>2. ReadySim(change_sources(s, new), k, new, d, o)
      BY <1>1, <2>2, SourcesReady
    <3> QED BY <3>1, <3>2, IsReady
  <2> HIDE DEF x, z
  <2> QED BY <1>0, <2>1, <2>2, MovesBy DEF z
<1>3. ASSUME NEW m \in Monitors, IsList(o), m \notin ToSet(o)
      PROVE  Moves(K, x, CallWith("add_monitor", m), Ready(k, src, d, Append(o, m)))
  <2> DEFINE z == Ready(k, src, d, Append(o, m))
  <2>1. z.k \in K
    BY ViewK
  <2>2. ASSUME NEW s, Is(s, x) PROVE Is(Does(s, "add_monitor", m), z)
    <3>1. Does(s, "add_monitor", m) = add_monitor(s, m)
      BY CallMeans DEF Does
    <3>2. ReadySim(s, k, src, d, o)
      BY <1>1, <2>2
    <3>3. ReadySim(add_monitor(s, m), k, src, d, Append(o, m))
      BY ONLY <1>3, <3>2, m \in Monitors, AddReady
    <3> QED BY <3>1, <3>3, IsReady
  <2> HIDE DEF x, z
  <2> QED BY <1>0, <2>1, <2>2, MovesBy DEF z
<1>4. Moves(K, x, Call("init_sim"), y) /\ Moves(K, x, Call("WithFields"), y)
  <2>1. ASSUME NEW s, Is(s, x)
        PROVE  Is(Does(s, "init_sim", <<>>), y) /\ Is(Does(s, "WithFields", <<>>), y)
    <3>1. Does(s, "init_sim", <<>>) = init_sim(s) /\ Does(s, "WithFields", <<>>) = WithFields(s)
      BY CallMeans DEF Does
    <3>2. LiveSim(init_sim(s), k, src, d, o, <<>>, <<>>, {}) /\ WithFields(s) = init_sim(s)
      BY <1>1, <2>1, InitReady
    <3>3. Is(init_sim(s), y)
      BY <3>2, IsLive
    <3> QED BY <3>1, <3>2, <3>3
  <2> HIDE DEF x, y
  <2> QED BY <1>0, <2>1, MovesBy
<1> QED
  BY <1>2, <1>3, <1>4

\* The calls on a simulation with fields.
LEMMA MovesLive ==
  ASSUME NEW K, NEW k \in K, NEW src, NEW d, NEW o, NEW h, NEW D, NEW S
  PROVE  LET x == Live(k, src, d, o, h, D, S)
         IN  /\ \A new : Moves(K, x, CallWith("change_sources", new),
                               Live(k, new, d, o, h, D, S))
             /\ \A new \in K : k # 0 /\ new # 0 =>
                  Moves(K, x, CallWith("change_k_point", new), Live(new, src, d, o, h, D, S))
             /\ \A m \in Monitors : IsList(o) /\ m \notin ToSet(o) /\ (\A p \in S : p.who # m) =>
                  Moves(K, x, CallWith("add_monitor", m), Live(k, src, d, Append(o, m), h, D, S))
             /\ Moves(K, x, Call("restart_fields"), Live(k, src, d, o, <<>>, D, S))
             /\ Moves(K, x, Call("init_sim"), x)
             /\ Moves(K, x, Call("WithFields"), x)
<1> DEFINE x == Live(k, src, d, o, h, D, S)
<1>0. x.k \in K
  BY ViewK
<1>1. \A s : Is(s, x) => LiveSim(s, k, src, d, o, h, D, S)
  BY IsLive
<1>2. ASSUME NEW new
      PROVE  Moves(K, x, CallWith("change_sources", new), Live(k, new, d, o, h, D, S))
  <2> DEFINE z == Live(k, new, d, o, h, D, S)
  <2>1. z.k \in K
    BY ViewK
  <2>2. ASSUME NEW s, Is(s, x) PROVE Is(Does(s, "change_sources", new), z)
    <3>1. Does(s, "change_sources", new) = change_sources(s, new)
      BY CallMeans DEF Does
    <3>2. LiveSim(change_sources(s, new), k, new, d, o, h, D, S)
      BY <1>1, <2>2, SourcesLive
    <3> QED BY <3>1, <3>2, IsLive
  <2> HIDE DEF x, z
  <2> QED BY <1>0, <2>1, <2>2, MovesBy DEF z
<1>3. ASSUME NEW new \in K, k # 0, new # 0
      PROVE  Moves(K, x, CallWith("change_k_point", new), Live(new, src, d, o, h, D, S))
  <2> DEFINE z == Live(new, src, d, o, h, D, S)
  <2>1. z.k \in K
    BY ViewK
  <2>2. ASSUME NEW s, Is(s, x) PROVE Is(Does(s, "change_k_point", new), z)
    <3>1. Does(s, "change_k_point", new) = change_k_point(s, new)
      BY CallMeans DEF Does
    <3>2. LiveSim(change_k_point(s, new), new, src, d, o, h, D, S)
      BY <1>1, <1>3, <2>2, BlochLive
    <3> QED BY <3>1, <3>2, IsLive
  <2> HIDE DEF x, z
  <2> QED BY <1>0, <2>1, <2>2, MovesBy DEF z
<1>4. ASSUME NEW m \in Monitors, IsList(o), m \notin ToSet(o), \A p \in S : p.who # m
      PROVE  Moves(K, x, CallWith("add_monitor", m), Live(k, src, d, Append(o, m), h, D, S))
  <2> DEFINE z == Live(k, src, d, Append(o, m), h, D, S)
  <2>1. z.k \in K
    BY ViewK
  <2>2. ASSUME NEW s, Is(s, x) PROVE Is(Does(s, "add_monitor", m), z)
    <3>1. Does(s, "add_monitor", m) = add_monitor(s, m)
      BY CallMeans DEF Does
    <3>2. LiveSim(s, k, src, d, o, h, D, S)
      BY <1>1, <2>2
    <3>3. LiveSim(add_monitor(s, m), k, src, d, Append(o, m), h, D, S)
      BY ONLY <1>4, <3>2, m \in Monitors, AddLive
    <3> QED BY <3>1, <3>3, IsLive
  <2> HIDE DEF x, z
  <2> QED BY <1>0, <2>1, <2>2, MovesBy DEF z
<1>5. Moves(K, x, Call("restart_fields"), Live(k, src, d, o, <<>>, D, S))
  <2> DEFINE z == Live(k, src, d, o, <<>>, D, S)
  <2>1. z.k \in K
    BY ViewK
  <2>2. ASSUME NEW s, Is(s, x) PROVE Is(Does(s, "restart_fields", <<>>), z)
    <3>1. Does(s, "restart_fields", <<>>) = restarted(s)
      BY CallMeans DEF Does
    <3>2. LiveSim(restarted(s), k, src, d, o, <<>>, D, S)
      BY <1>1, <2>2, RestartLive
    <3> QED BY <3>1, <3>2, IsLive
  <2> HIDE DEF x, z
  <2> QED BY <1>0, <2>1, <2>2, MovesBy DEF z
<1>6. Moves(K, x, Call("init_sim"), x) /\ Moves(K, x, Call("WithFields"), x)
  <2>1. ASSUME NEW s, Is(s, x)
        PROVE  Is(Does(s, "init_sim", <<>>), x) /\ Is(Does(s, "WithFields", <<>>), x)
    <3>1. Does(s, "init_sim", <<>>) = init_sim(s) /\ Does(s, "WithFields", <<>>) = WithFields(s)
      BY CallMeans DEF Does
    <3>2. init_sim(s) = s /\ WithFields(s) = s
      BY <1>1, <2>1, InitLive
    <3> QED BY <2>1, <3>1, <3>2
  <2> HIDE DEF x
  <2> QED BY <1>0, <2>1, MovesBy
<1> QED
  BY <1>2, <1>3, <1>4, <1>5, <1>6

\* What a run of a simulation at time zero adds to the fields and to each of
\* n monitors.
PieceOf(k, src, d) == [k |-> k, sources |-> <<src>>, structure |-> d]
RunData(n, k, src, d) == [i \in 1..n |-> OneRun(k, src, d)]

\* The monitors that have no chunks yet get them.
LEMMA MovesEvaluate ==
  ASSUME NEW K, NEW k \in K, NEW src, NEW d, NEW o, NEW h, NEW D, NEW S,
         IsList(o), Distinct(o), D = <<>> \/ D = Empty(Len(o))
  PROVE  Moves(K, Live(k, src, d, o, h, D, S), Call("evaluate_dft_objects"),
               Live(k, src, d, o, h, Empty(Len(o)), S))
<1> DEFINE x == Live(k, src, d, o, h, D, S)
           y == Live(k, src, d, o, h, Empty(Len(o)), S)
<1>0. x.k \in K /\ y.k \in K
  BY ViewK
<1>1. \A s : Is(s, x) => LiveSim(s, k, src, d, o, h, D, S)
  BY IsLive
<1>2. DOMAIN Empty(Len(o)) = DOMAIN o
  <2>1. PICK n \in Nat : n = Len(o) /\ o = [i \in 1..n |-> o[i]]
    BY DEF IsList
  <2> QED BY <2>1 DEF Empty
<1>3. ASSUME NEW s, Is(s, x) PROVE Is(Does(s, "evaluate_dft_objects", <<>>), y)
  <2>1. Does(s, "evaluate_dft_objects", <<>>) = evaluate_dft_objects(s)
    BY CallMeans DEF Does
  <2>2. LiveSim(s, k, src, d, o, h, D, S)
    BY <1>1, <1>3
  <2>3. LiveSim(evaluate_dft_objects(s), k, src, d, o, h, Empty(Len(o)), S)
    <3>1. CASE D = <<>>
      BY <2>2, <3>1, EvaluateLive
    <3>2. CASE D = Empty(Len(o))
      <4>1. evaluate_dft_objects(s) = s
        BY <1>2, <2>2, <3>2, EvaluateAgain
      <4> QED BY <2>2, <3>2, <4>1
    <3> QED BY <3>1, <3>2
  <2> QED BY <2>1, <2>3, IsLive
<1> HIDE DEF x, y
<1>4. Moves(K, x, Call("evaluate_dft_objects"), y)
  BY <1>0, <1>3, MovesBy
<1> QED
  BY <1>4 DEF x, y

\* All of them accumulate the run.
LEMMA MovesRun ==
  ASSUME NEW K, NEW k \in K, NEW src, NEW d, NEW o, NEW S, NEW n \in Nat
  PROVE  Moves(K, Live(k, src, d, o, <<>>, Empty(n), S), Call("_run_until"),
               Live(k, src, d, o, <<PieceOf(k, src, d)>>, RunData(n, k, src, d), S))
<1> DEFINE p == PieceOf(k, src, d)
           D == Empty(n)
           E == RunData(n, k, src, d)
           x == Live(k, src, d, o, <<>>, D, S)
           y == Live(k, src, d, o, <<p>>, E, S)
<1>0. x.k \in K /\ y.k \in K
  BY ViewK
<1>1. \A s : Is(s, x) => LiveSim(s, k, src, d, o, <<>>, D, S)
  BY IsLive
<1>2. <<p>> = Append(<<>>, [k |-> k, sources |-> <<src>>, structure |-> d])
  BY DEF PieceOf
<1>3. E = [i \in DOMAIN D |-> Append(D[i], <<p>>)]
  <2>1. DOMAIN D = 1..n /\ \A i \in 1..n : D[i] = <<>>
    BY DEF Empty
  <2>2. \A q : Append(<<>>, q) = <<q>>
    OBVIOUS
  <2>3. OneRun(k, src, d) = <<<<p>>>>
    BY DEF OneRun, PieceOf
  <2> HIDE DEF D, p
  <2>4. [i \in DOMAIN D |-> Append(D[i], <<p>>)] = [i \in 1..n |-> <<<<p>>>>]
    BY <2>1, <2>2
  <2> QED BY <2>3, <2>4 DEF RunData
<1> HIDE DEF D, E, p
<1>4. ASSUME NEW s, Is(s, x) PROVE Is(Does(s, "_run_until", <<>>), y)
  <2>1. Does(s, "_run_until", <<>>) = _run_until(s)
    BY CallMeans DEF Does
  <2>2. LiveSim(s, k, src, d, o, <<>>, D, S)
    BY <1>1, <1>4
  <2>3. LiveSim(_run_until(s), k, src, d, o, <<p>>, E, S)
    BY ONLY <1>2, <1>3, <2>2, RunLive
  <2> QED BY <2>1, <2>3, IsLive
<1> HIDE DEF x, y
<1>5. Moves(K, x, Call("_run_until"), y)
  BY <1>0, <1>4, MovesBy
<1> QED
  BY <1>5 DEF x, y, D, E, p

\* The monitors are cleared.
LEMMA MovesClear ==
  ASSUME NEW K, NEW k \in K, NEW src, NEW d, NEW a, NEW b, NEW h, NEW A, NEW B, NEW S,
         b \in Persistent
  PROVE  /\ Moves(K, Live(k, src, d, <<b>>, h, <<B>>, S), Call("clear_dft_monitors"),
                  Live(k, src, d, <<>>, h, <<>>, S \cup {Saved(b, B)}))
         /\ a \notin Persistent =>
            Moves(K, Live(k, src, d, <<a, b>>, h, <<A, B>>, S), Call("clear_dft_monitors"),
                  Live(k, src, d, <<>>, h, <<>>, S \cup {Saved(b, B)}))
<1> DEFINE x == Live(k, src, d, <<b>>, h, <<B>>, S)
           z == Live(k, src, d, <<a, b>>, h, <<A, B>>, S)
           T == S \cup {Saved(b, B)}
           y == Live(k, src, d, <<>>, h, <<>>, T)
<1>0. x.k \in K /\ y.k \in K /\ z.k \in K
  BY ViewK
<1>1. \A s : Is(s, x) => LiveSim(s, k, src, d, <<b>>, h, <<B>>, S)
  BY IsLive
<1>2. \A s : Is(s, z) => LiveSim(s, k, src, d, <<a, b>>, h, <<A, B>>, S)
  BY IsLive
<1>3. \A s : Does(s, "clear_dft_monitors", <<>>) = clear_dft_monitors(s)
  BY CallMeans DEF Does
<1>4. ASSUME NEW s, Is(s, x) PROVE Is(Does(s, "clear_dft_monitors", <<>>), y)
  <2>2. LiveSim(s, k, src, d, <<b>>, h, <<B>>, S)
    BY <1>1, <1>4
  <2>3. LiveSim(clear_dft_monitors(s), k, src, d, <<>>, h, <<>>, T)
    BY ONLY <2>2, b \in Persistent, ClearOne
  <2> QED BY <1>3, <2>3, IsLive
<1>5. ASSUME NEW s, Is(s, z), a \notin Persistent
      PROVE  Is(Does(s, "clear_dft_monitors", <<>>), y)
  <2>2. LiveSim(s, k, src, d, <<a, b>>, h, <<A, B>>, S)
    BY <1>2, <1>5
  <2>3. LiveSim(clear_dft_monitors(s), k, src, d, <<>>, h, <<>>, T)
    BY ONLY <1>5, <2>2, b \in Persistent, ClearTwo
  <2> QED BY <1>3, <2>3, IsLive
<1> HIDE DEF x, y, z, T
<1>6. Moves(K, x, Call("clear_dft_monitors"), y)
  BY <1>0, <1>4, MovesBy
<1>7. a \notin Persistent => Moves(K, z, Call("clear_dft_monitors"), y)
  BY <1>0, <1>5, MovesBy
<1> QED
  BY <1>6, <1>7 DEF x, y, z, T

\* The whole of a run from time zero.
LEMMA MovesRunCalls ==
  ASSUME NEW K, NEW k \in K, NEW src, NEW d, NEW o, NEW D, NEW S, NEW n \in Nat, n = Len(o),
         IsList(o), Distinct(o), D = <<>> \/ D = Empty(n)
  PROVE  LET y == Live(k, src, d, o, <<PieceOf(k, src, d)>>, RunData(n, k, src, d), S)
         IN  /\ Moves(K, Live(k, src, d, o, <<>>, D, S), RunCalls, y)
             /\ S = {} => Moves(K, Ready(k, src, d, o), RunCalls, y)
<1> DEFINE y == Live(k, src, d, o, <<PieceOf(k, src, d)>>, RunData(n, k, src, d), S)
           e == Live(k, src, d, o, <<>>, Empty(n), S)
           x == Live(k, src, d, o, <<>>, D, S)
           z == Live(k, src, d, o, <<>>, <<>>, S)
           r == Ready(k, src, d, o)
<1>1. Moves(K, e, Call("_run_until"), y)
  BY MovesRun
<1>2. Moves(K, x, Call("evaluate_dft_objects"), e)
  BY MovesEvaluate
<1>3. Moves(K, z, Call("evaluate_dft_objects"), e)
  BY MovesEvaluate
<1>4. Moves(K, x, Call("WithFields"), x)
  BY MovesLive
<1>5. S = {} => Moves(K, r, Call("WithFields"), z)
  BY MovesReady
<1> HIDE DEF x, y, z, e, r
<1>6. Moves(K, x, AfterFields, y) /\ Moves(K, z, AfterFields, y)
  BY <1>1, <1>2, <1>3, MovesThen DEF AfterFields
<1>7. Moves(K, x, RunCalls, y) /\ (S = {} => Moves(K, r, RunCalls, y))
  BY <1>4, <1>5, <1>6, MovesThen DEF RunCalls
<1> QED
  BY <1>7 DEF x, y, r

------------------------------------------------------------------------------
(* The queues of the optimizer and of the JAX wrapper.                     *)

\* The calls q lead from s to what x says.
Reaches(K, s, q, x) == \E v : Leads(K, s, q, v) /\ Is(v, x)

\* From a known end on.
LEMMA ReachesThen ==
  ASSUME NEW K, NEW s, NEW p, NEW x, NEW q, NEW y, Reaches(K, s, p, x), Moves(K, x, q, y)
  PROVE  Reaches(K, s, p \o q, y)
<1>1. PICK v : Leads(K, s, p, v) /\ Is(v, x)
  BY DEF Reaches
<1>2. PICK u : Leads(K, v, q, u) /\ Is(u, y)
  BY <1>1 DEF Moves
<1> QED
  BY <1>1, <1>2, ThenCalls DEF Reaches

\* From any end on.
LEMMA ThenReaches ==
  ASSUME NEW K, NEW s, NEW p, NEW v, NEW q, NEW x, Leads(K, s, p, v), Reaches(K, v, q, x)
  PROVE  Reaches(K, s, p \o q, x)
<1>1. PICK u : Leads(K, v, q, u) /\ Is(u, x)
  BY DEF Reaches
<1> QED
  BY <1>1, ThenCalls DEF Reaches

\* Whatever was done before, a reset makes a simulation ready; the two views
\* of it can be told apart by nothing but the four things they name.
LEMMA ResetReaches ==
  ASSUME NEW K, NEW s, Safe(K, s)
  PROVE  Reaches(K, s, Call("reset_meep"), Ready(s.k_point, s.sources, s.design, <<>>))
<1> DEFINE c == [method |-> "reset_meep", argument |-> <<>>]
           x == Ready(s.k_point, s.sources, s.design, <<>>)
<1>1. Performed(s, c) = reset_meep(s)
  BY CallMeans
<1>2. Is(Performed(s, c), x) /\ x.k \in K
  <2>1. ReadySim(reset_meep(s), s.k_point, s.sources, s.design, <<>>)
    BY ResetSafe
  <2>2. x.k = s.k_point /\ s.k_point \in K
    BY ViewK DEF Safe
  <2> QED BY <1>1, <2>1, <2>2, IsReady
<1>3. Call("reset_meep") = <<c>>
  BY DEF Call, CallWith
<1> HIDE DEF c, x
<1>4. Safe(K, Performed(s, c))
  BY <1>2, IsSafe
<1>5. Leads(K, s, <<c>>, Performed(s, c))
  BY <1>4, OneCall
<1> QED
  BY <1>2, <1>3, <1>5 DEF Reaches, x

\* A new design alone changes nothing else.
LEMMA DesignLeads ==
  ASSUME NEW K, NEW s, NEW d, Safe(K, s)
  PROVE  \E v : /\ Leads(K, s, CallWith("update_design_parameters", d), v)
                /\ v.design = d /\ v.k_point = s.k_point
<1> DEFINE c == [method |-> "update_design_parameters", argument |-> d]
           v == Performed(s, c)
<1>1. v = [s EXCEPT !.design = d]
  BY CallMeans
<1>2. CallWith("update_design_parameters", d) = <<c>>
  BY DEF CallWith
<1>3. s = [n \in SimNames |-> s[n]]
  BY DEF Safe
<1> HIDE DEF v
<1>4. /\ v = [n \in SimNames |-> v[n]] /\ v.design = d
      /\ v.handle = s.handle /\ v.k_point = s.k_point /\ v.fault = s.fault
      /\ v.load_fields_file = s.load_fields_file /\ v.dft_objects = s.dft_objects
      /\ v.fields = s.fields
  BY <1>1, <1>3 DEF SimNames
<1>5. Safe(K, v)
  BY <1>4 DEF Safe
<1>6. Leads(K, s, <<c>>, v)
  BY <1>5, OneCall DEF v
<1> QED
  BY <1>2, <1>4, <1>6

\* A ready simulation takes the new design.
LEMMA MovesDesign ==
  ASSUME NEW K, NEW k \in K, NEW src, NEW d, NEW o, NEW new
  PROVE  Moves(K, Ready(k, src, d, o), CallWith("update_design_parameters", new),
               Ready(k, src, new, o))
<1> DEFINE x == Ready(k, src, d, o)
           y == Ready(k, src, new, o)
<1>0. x.k \in K /\ y.k \in K
  BY ViewK
<1>1. \A s : Is(s, x) => ReadySim(s, k, src, d, o)
  BY IsReady
<1>2. ASSUME NEW s, Is(s, x) PROVE Is(Does(s, "update_design_parameters", new), y)
  <2> DEFINE v == Does(s, "update_design_parameters", new)
  <2>1. v = [s EXCEPT !.design = new]
    BY CallMeans DEF Does
  <2>2. ReadySim(s, k, src, d, o)
    BY <1>1, <1>2
  <2> HIDE DEF v
  <2>3. s = [n \in SimNames |-> s[n]]
    BY <2>2 DEF ReadySim
  <2>4. /\ v = [n \in SimNames |-> v[n]] /\ v.design = new
        /\ v.handle = s.handle /\ v.k_point = s.k_point /\ v.fault = s.fault
        /\ v.load_fields_file = s.load_fields_file /\ v.dft_objects = s.dft_objects
        /\ v.fields = s.fields /\ v.sources = s.sources /\ v.initialized = s.initialized
        /\ v.structure = s.structure
    BY <2>1, <2>3 DEF SimNames
  <2>5. ReadySim(v, k, src, new, o)
    BY <2>2, <2>4 DEF ReadySim
  <2> QED BY <2>5, IsReady DEF v
<1> HIDE DEF x, y
<1>3. Moves(K, x, CallWith("update_design_parameters", new), y)
  BY <1>0, <1>2, MovesBy
<1> QED
  BY <1>3 DEF x, y

\* update_design: the new design with nothing of the old one.
LEMMA NewDesignReaches ==
  ASSUME NEW K, NEW s, NEW d, Safe(K, s)
  PROVE  \E src : Reaches(K, s, NewDesign(d), Ready(s.k_point, src, d, <<>>))
<1>1. PICK v : /\ Leads(K, s, CallWith("update_design_parameters", d), v)
               /\ v.design = d /\ v.k_point = s.k_point
  BY DesignLeads
<1>2. Safe(K, v)
  BY <1>1, SafeEnds
<1>3. Reaches(K, v, Call("reset_meep"), Ready(s.k_point, v.sources, d, <<>>))
  BY <1>1, <1>2, ResetReaches
<1> QED
  BY <1>1, <1>3, ThenReaches DEF NewDesign

\* Lists of one or two monitors.
LEMMA ShortLists ==
  ASSUME NEW a, NEW b
  PROVE  /\ IsList(<<>>) /\ IsList(<<a>>) /\ IsList(<<a, b>>)
         /\ Len(<<a>>) = 1 /\ Len(<<a, b>>) = 2
         /\ Append(<<>>, a) = <<a>> /\ Append(<<a>>, b) = <<a, b>>
         /\ ToSet(<<>>) = {} /\ ToSet(<<a>>) = {a}
         /\ Distinct(<<a>>) /\ (a # b => Distinct(<<a, b>>))
<1>1. Len(<<>>) = 0 /\ <<>> = [i \in 1..0 |-> <<>>[i]]
  BY EmptySeq
<1>2. Len(<<a>>) = 1 /\ <<a>> = [i \in 1..1 |-> <<a>>[i]]
  OBVIOUS
<1>3. Len(<<a, b>>) = 2 /\ <<a, b>> = [i \in 1..2 |-> <<a, b>>[i]]
  <2> DEFINE q == <<a, b>>
  <2>1. q \in Seq({a, b}) /\ Len(q) = 2
    OBVIOUS
  <2> HIDE DEF q
  <2>2. q \in [1..2 -> {a, b}]
    BY <2>1, LenProperties
  <2>3. q = [i \in 1..2 |-> q[i]]
    BY <2>2
  <2> QED BY <2>1, <2>3 DEF q
<1>4. Append(<<>>, a) = <<a>> /\ Append(<<a>>, b) = <<a, b>>
  <2> DEFINE C == {a, b}
             q == <<a>>
  <2>1. q \in Seq(C) /\ <<>> \in Seq(C) /\ a \in C /\ b \in C
    BY EmptySeq
  <2>2. q \o <<b>> = <<a, b>>
    BY TwoCalls
  <2>3. q = <<a>>
    OBVIOUS
  <2> HIDE DEF C, q
  <2>4. <<>> \o q = q
    BY <2>1, ConcatEmptySeq
  <2>5. Append(<<>>, a) = <<>> \o <<a>> /\ Append(q, b) = q \o <<b>>
    BY <2>1, AppendIsConcat
  <2> QED BY <2>2, <2>3, <2>4, <2>5
<1>5. ToSet(<<>>) = {} /\ ToSet(<<a>>) = {a}
  BY DEF ToSet
<1>6. Distinct(<<a>>)
  <2>1. \A i \in DOMAIN <<a>> : i = 1
    OBVIOUS
  <2> QED BY <2>1 DEF Distinct
<1>7. a # b => Distinct(<<a, b>>)
  <2>1. \A i \in DOMAIN <<a, b>> : i = 1 \/ i = 2
    OBVIOUS
  <2>2. <<a, b>>[1] = a /\ <<a, b>>[2] = b
    OBVIOUS
  <2> QED BY <2>1, <2>2 DEF Distinct
<1>8. IsList(<<>>) /\ IsList(<<a>>) /\ IsList(<<a, b>>)
  BY <1>1, <1>2, <1>3 DEF IsList
<1> QED
  BY <1>2, <1>3, <1>4, <1>5, <1>6, <1>7, <1>8

\* The monitors of a problem are different objects of the program.
LEMMA ProblemMonitors ==
  /\ "forward" \in Persistent /\ "adjoint1" \in Persistent /\ "adjoint2" \in Persistent
  /\ "objective" \notin Persistent
  /\ "objective" \in Monitors /\ "forward" \in Monitors
  /\ "adjoint1" \in Monitors /\ "adjoint2" \in Monitors
  /\ AdjointMonitor[1] = "adjoint1" /\ AdjointMonitor[2] = "adjoint2"
BY MonitorsAssumption, ProblemMonitorsAssumption DEF AdjointMonitor

\* After a run from time zero of a simulation with the monitors o.
AfterRun(k, src, d, o, saved) ==
  Live(k, src, d, o, <<PieceOf(k, src, d)>>, RunData(Len(o), k, src, d), saved)
Forward(k, d, m) == AfterRun(k, ForwardSources, d, <<"objective", m>>, {})

\* A forward run, with the monitor m in the design region.
LEMMA ForwardMoves ==
  ASSUME NEW K, NEW k \in K, NEW src, NEW d, NEW m \in Monitors, m # "objective"
  PROVE  LET a == Ready(k, src, d, <<>>)
             b == Ready(k, ForwardSources, d, <<>>)
             c == Ready(k, ForwardSources, d, <<"objective">>)
             e == Ready(k, ForwardSources, d, <<"objective", m>>)
             l == Live(k, ForwardSources, d, <<"objective", m>>, <<>>, <<>>, {})
         IN  /\ Moves(K, a, CallWith("change_sources", ForwardSources), b)
             /\ Moves(K, b, CallWith("add_monitor", "objective"), c)
             /\ Moves(K, c, CallWith("add_monitor", m), e)
             /\ Moves(K, e, RunCalls, Forward(k, d, m))
             /\ Moves(K, e, Call("init_sim"), l)
             /\ Moves(K, l, RunCalls, Forward(k, d, m))
<1> DEFINE F == ForwardSources
           p == "objective"
           a == Ready(k, src, d, <<>>)
           b == Ready(k, F, d, <<>>)
           c == Ready(k, F, d, <<p>>)
           e == Ready(k, F, d, <<p, m>>)
           l == Live(k, F, d, <<p, m>>, <<>>, <<>>, {})
           f == Forward(k, d, m)
<1>1. Moves(K, a, CallWith("change_sources", F), b)
  BY MovesReady
<1>2. Moves(K, b, CallWith("add_monitor", p), c)
  <2>1. IsList(<<>>) /\ p \notin ToSet(<<>>) /\ Append(<<>>, p) = <<p>> /\ p \in Monitors
    BY ShortLists, ProblemMonitors
  <2> HIDE DEF p
  <2>2. Moves(K, b, CallWith("add_monitor", p), Ready(k, F, d, Append(<<>>, p)))
    BY <2>1, MovesReady
  <2> QED BY <2>1, <2>2
<1>3. Moves(K, c, CallWith("add_monitor", m), e)
  <2>1. IsList(<<p>>) /\ m \notin ToSet(<<p>>) /\ Append(<<p>>, m) = <<p, m>>
    BY ShortLists
  <2> HIDE DEF p
  <2>2. Moves(K, c, CallWith("add_monitor", m), Ready(k, F, d, Append(<<p>>, m)))
    BY <2>1, MovesReady
  <2> QED BY <2>1, <2>2
<1>4. Moves(K, e, RunCalls, f) /\ Moves(K, l, RunCalls, f)
  <2> DEFINE o == <<p, m>>
  <2>1. IsList(o) /\ Distinct(o) /\ Len(o) = 2
    BY ShortLists
  <2>2. f = Live(k, F, d, o, <<PieceOf(k, F, d)>>, RunData(2, k, F, d), {})
    BY <2>1 DEF Forward, AfterRun
  <2> HIDE DEF o, f, F
  <2>3. \A n \in Nat : n = Len(o) =>
          LET y == Live(k, F, d, o, <<PieceOf(k, F, d)>>, RunData(n, k, F, d), {})
          IN  /\ Moves(K, Live(k, F, d, o, <<>>, <<>>, {}), RunCalls, y)
              /\ Moves(K, Ready(k, F, d, o), RunCalls, y)
    BY <2>1, MovesRunCalls
  <2> QED BY <2>1, <2>2, <2>3 DEF o
<1>5. Moves(K, e, Call("init_sim"), l)
  BY MovesReady
<1> HIDE DEF a, b, c, e, f, l
<1> QED
  BY <1>1, <1>2, <1>3, <1>4, <1>5 DEF a, b, c, e, f, l

\* prepare_forward_run and the run.
LEMMA ForwardReaches ==
  ASSUME NEW K, NEW s, Safe(K, s)
  PROVE  /\ \E v : Leads(K, s, prepare_forward_run, v)
         /\ Reaches(K, s, prepare_forward_run \o RunCalls, Forward(s.k_point, s.design, "forward"))
<1> DEFINE k == s.k_point
           d == s.design
           F == ForwardSources
           m == "forward"
           a == Ready(k, s.sources, d, <<>>)
           b == Ready(k, F, d, <<>>)
           c == Ready(k, F, d, <<"objective">>)
           e == Ready(k, F, d, <<"objective", m>>)
           f == Forward(k, d, m)
<1>1. k \in K /\ m \in Monitors /\ m # "objective"
  BY ProblemMonitors DEF Safe
<1>2. /\ Moves(K, a, CallWith("change_sources", F), b)
      /\ Moves(K, b, CallWith("add_monitor", "objective"), c)
      /\ Moves(K, c, CallWith("add_monitor", m), e)
      /\ Moves(K, e, RunCalls, f)
  <2> HIDE DEF k, d, m
  <2> QED BY <1>1, ForwardMoves
<1>3. Reaches(K, s, Call("reset_meep"), a)
  BY ResetReaches
<1> HIDE DEF a, b, c, e, f
<1>4. Reaches(K, s, Call("reset_meep") \o CallWith("change_sources", F), b)
  BY <1>2, <1>3, ReachesThen
<1>5. Reaches(K, s, Call("reset_meep") \o CallWith("change_sources", F)
                      \o CallWith("add_monitor", "objective"), c)
  BY <1>2, <1>4, ReachesThen
<1>6. Reaches(K, s, prepare_forward_run, e)
  <2>1. Reaches(K, s, Call("reset_meep") \o CallWith("change_sources", F)
                        \o CallWith("add_monitor", "objective") \o CallWith("add_monitor", m), e)
    BY <1>2, <1>5, ReachesThen
  <2> QED BY <2>1 DEF prepare_forward_run
<1>7. Reaches(K, s, prepare_forward_run \o RunCalls, f)
  BY <1>2, <1>6, ReachesThen
<1> QED
  BY <1>6, <1>7 DEF f, Reaches

\* The queue of a value, and of a value with a gradient later, under JAX.
LEMMA JaxForwardReaches ==
  ASSUME NEW K, NEW s, NEW d, NEW m \in Monitors, m # "objective", Safe(K, s)
  PROVE  Reaches(K, s, _run_fwd_simulation(d, m), Forward(s.k_point, d, m))
<1>0. PICK src : Reaches(K, s, NewDesign(d), Ready(s.k_point, src, d, <<>>))
  BY NewDesignReaches
<1> DEFINE k == s.k_point
           F == ForwardSources
           a == Ready(k, src, d, <<>>)
           b == Ready(k, F, d, <<>>)
           c == Ready(k, F, d, <<"objective">>)
           e == Ready(k, F, d, <<"objective", m>>)
           l == Live(k, F, d, <<"objective", m>>, <<>>, <<>>, {})
           f == Forward(k, d, m)
           I == Call("init_sim")
<1>1. k \in K
  BY DEF Safe
<1>2. /\ Moves(K, a, CallWith("change_sources", F), b)
      /\ Moves(K, b, CallWith("add_monitor", "objective"), c)
      /\ Moves(K, c, CallWith("add_monitor", m), e)
      /\ Moves(K, e, I, l)
      /\ Moves(K, l, RunCalls, f)
  <2> HIDE DEF k
  <2> QED BY <1>1, ForwardMoves
<1>3. Reaches(K, s, NewDesign(d), a)
  BY <1>0
<1> HIDE DEF a, b, c, e, f, l, I
<1>4. Reaches(K, s, NewDesign(d) \o CallWith("change_sources", F), b)
  BY <1>2, <1>3, ReachesThen
<1>5. Reaches(K, s, NewDesign(d) \o CallWith("change_sources", F)
                      \o CallWith("add_monitor", "objective"), c)
  BY <1>2, <1>4, ReachesThen
<1>6. Reaches(K, s, NewDesign(d) \o CallWith("change_sources", F)
                      \o CallWith("add_monitor", "objective") \o CallWith("add_monitor", m), e)
  BY <1>2, <1>5, ReachesThen
<1>7. Reaches(K, s, NewDesign(d) \o CallWith("change_sources", F)
                      \o CallWith("add_monitor", "objective") \o CallWith("add_monitor", m)
                      \o I, l)
  BY <1>2, <1>6, ReachesThen
<1>8. Reaches(K, s, NewDesign(d) \o CallWith("change_sources", F)
                      \o CallWith("add_monitor", "objective") \o CallWith("add_monitor", m)
                      \o I \o RunCalls, f)
  BY <1>2, <1>7, ReachesThen
<1> QED
  BY <1>8 DEF f, I, _run_fwd_simulation

\* An adjoint run from time zero, after the monitors have been cleared.
LEMMA AdjointMoves ==
  ASSUME NEW K, NEW k \in K, NEW src, NEW new, NEW d, NEW o, NEW h, NEW D, NEW S, NEW T,
         NEW m \in Monitors, \A p \in T : p.who # m,
         Moves(K, Live(k, src, d, o, <<>>, D, S), Call("clear_dft_monitors"),
                  Live(k, src, d, <<>>, <<>>, <<>>, T))
  PROVE  LET x == Live(k, src, d, o, h, D, S)
             calls == Call("restart_fields") \o Call("clear_dft_monitors")
                        \o CallWith("change_sources", new) \o CallWith("add_monitor", m)
             y == AfterRun(k, new, d, <<m>>, T)
         IN  /\ Moves(K, x, calls \o Call("evaluate_dft_objects") \o RunCalls, y)
             /\ Moves(K, x, calls \o Call("init_sim") \o RunCalls, y)
<1> DEFINE o1 == <<m>>
           x == Live(k, src, d, o, h, D, S)
           x0 == Live(k, src, d, o, <<>>, D, S)
           x1 == Live(k, src, d, <<>>, <<>>, <<>>, T)
           x2 == Live(k, new, d, <<>>, <<>>, <<>>, T)
           x3 == Live(k, new, d, o1, <<>>, <<>>, T)
           x4 == Live(k, new, d, o1, <<>>, Empty(1), T)
           y == AfterRun(k, new, d, o1, T)
           p == Call("restart_fields") \o Call("clear_dft_monitors")
           q == p \o CallWith("change_sources", new)
           r == q \o CallWith("add_monitor", m)
<1>1. IsList(o1) /\ Distinct(o1) /\ Len(o1) = 1
  BY ShortLists
<1>2. Moves(K, x, Call("restart_fields"), x0)
  BY MovesLive
<1>3. Moves(K, x1, CallWith("change_sources", new), x2)
  BY MovesLive
<1>4. Moves(K, x2, CallWith("add_monitor", m), x3)
  <2>1. IsList(<<>>) /\ m \notin ToSet(<<>>) /\ Append(<<>>, m) = o1
    BY ShortLists
  <2>2. \A v \in T : v.who # m
    OBVIOUS
  <2>3. Moves(K, x2, CallWith("add_monitor", m), Live(k, new, d, Append(<<>>, m), <<>>, <<>>, T))
    BY ONLY <2>1, <2>2, MovesLive, k \in K, m \in Monitors
  <2> QED BY <2>1, <2>3
<1>5. y = Live(k, new, d, o1, <<PieceOf(k, new, d)>>, RunData(1, k, new, d), T)
  BY <1>1 DEF AfterRun
<1> HIDE DEF o1, y
<1>6. Moves(K, x3, Call("evaluate_dft_objects"), x4)
  <2>1. Moves(K, Live(k, new, d, o1, <<>>, <<>>, T), Call("evaluate_dft_objects"),
              Live(k, new, d, o1, <<>>, Empty(Len(o1)), T))
    BY ONLY <1>1, MovesEvaluate, k \in K
  <2> QED BY <1>1, <2>1
<1>7. Moves(K, x3, Call("init_sim"), x3)
  BY MovesLive
<1>8. ASSUME NEW E, E = <<>> \/ E = Empty(1)
      PROVE  Moves(K, Live(k, new, d, o1, <<>>, E, T), RunCalls, y)
  <2>1. \A n \in Nat : n = Len(o1) /\ (E = <<>> \/ E = Empty(n)) =>
          LET z == Live(k, new, d, o1, <<PieceOf(k, new, d)>>, RunData(n, k, new, d), T)
          IN  Moves(K, Live(k, new, d, o1, <<>>, E, T), RunCalls, z)
    BY ONLY <1>1, MovesRunCalls, k \in K
  <2> QED BY <1>1, <1>5, <1>8, <2>1
<1>9. Moves(K, x3, RunCalls, y) /\ Moves(K, x4, RunCalls, y)
  BY <1>8
<1>10. Moves(K, x0, Call("clear_dft_monitors"), x1)
  OBVIOUS
<1> HIDE DEF x, x0, x1, x2, x3, x4
<1>11. Moves(K, x, p, x1)
  BY <1>2, <1>10, MovesThen
<1> HIDE DEF p
<1>12. Moves(K, x, q, x2)
  BY <1>3, <1>11, MovesThen
<1> HIDE DEF q
<1>13. Moves(K, x, r, x3)
  BY <1>4, <1>12, MovesThen
<1> HIDE DEF r
<1>14. Moves(K, x, r \o Call("evaluate_dft_objects"), x4) /\ Moves(K, x, r \o Call("init_sim"), x3)
  BY <1>6, <1>7, <1>13, MovesThen
<1>15. /\ Moves(K, x, r \o Call("evaluate_dft_objects") \o RunCalls, y)
       /\ Moves(K, x, r \o Call("init_sim") \o RunCalls, y)
  BY <1>9, <1>14, MovesThen
<1> QED
  BY <1>15 DEF x, y, r, q, p, o1

\* What full monitors hold.
LEMMA FullValues ==
  ASSUME NEW k, NEW src, NEW d
  PROVE  /\ RunData(1, k, src, d) = <<OneRun(k, src, d)>>
         /\ RunData(2, k, src, d) = <<OneRun(k, src, d), OneRun(k, src, d)>>
         /\ OneRun(k, src, d) = <<<<PieceOf(k, src, d)>>>>
<1> DEFINE R == OneRun(k, src, d)
<1>1. R = <<<<PieceOf(k, src, d)>>>>
  BY DEF OneRun, PieceOf
<1> HIDE DEF R
<1>2. [i \in 1..1 |-> R] = <<R>> /\ [i \in 1..2 |-> R] = <<R, R>>
  OBVIOUS
<1> QED
  BY <1>1, <1>2 DEF RunData, R

\* The Bloch vectors of a problem, and the change from one to the other.
Bloch(k) == {k, -k}

\* Negating the Bloch vector there and back.
LEMMA FlipMoves ==
  ASSUME NEW k \in Int, NEW src, NEW d, NEW o, NEW h, NEW D, NEW S
  PROVE  /\ Moves(Bloch(k), Live(k, src, d, o, h, D, S), flip(k), Live(-k, src, d, o, h, D, S))
         /\ Moves(Bloch(k), Live(-k, src, d, o, h, D, S), flip(-k), Live(k, src, d, o, h, D, S))
<1>1. /\ k \in Bloch(k) /\ -k \in Bloch(k) /\ -(-k) = k /\ (k = 0 <=> -k = 0)
      /\ (k = 0 => -k = k)
  BY DEF Bloch
<1> DEFINE K == Bloch(k)
           l == -k
           x == Live(k, src, d, o, h, D, S)
           y == Live(l, src, d, o, h, D, S)
<1>2. k \in K /\ l \in K /\ -l = k /\ (k = 0 <=> l = 0) /\ (k = 0 => l = k)
  BY <1>1
<1>3. x.k = k /\ y.k = l
  BY ViewK
<1> HIDE DEF K, l
<1>4. k # 0 => Moves(K, x, CallWith("change_k_point", l), y)
  BY <1>2, MovesLive
<1>5. l # 0 => Moves(K, y, CallWith("change_k_point", k), x)
  BY <1>2, MovesLive
<1>6. k = 0 => x = y
  BY <1>2
<1> HIDE DEF x, y
<1>7. Moves(K, x, <<>>, x)
  BY <1>2, <1>3, MovesNot
<1>8. flip(k) = (IF k = 0 THEN <<>> ELSE CallWith("change_k_point", l))
      /\ flip(l) = IF l = 0 THEN <<>> ELSE CallWith("change_k_point", k)
  BY <1>2 DEF flip, l
<1>9. Moves(K, x, flip(k), y) /\ Moves(K, y, flip(l), x)
  <2>1. CASE k = 0
    BY <1>2, <1>6, <1>7, <1>8, <2>1
  <2>2. CASE k # 0
    BY <1>2, <1>4, <1>5, <1>8, <2>2
  <2> QED BY <2>1, <2>2
<1> QED
  BY <1>9 DEF x, y, l, K

\* What is left after the adjoint runs of a design.
Adjoint(k, d, first, second) ==
  Live(k, second, d, <<"adjoint2">>, <<PieceOf(-k, second, d)>>, RunData(1, -k, second, d),
       {Saved("forward", OneRun(k, ForwardSources, d)), Saved("adjoint1", OneRun(-k, first, d))})

\* The queue of adjoint_run, from the forward run of the design.
LEMMA AdjointReaches ==
  ASSUME NEW k \in Int, NEW d, NEW s, NEW first, NEW second, Is(s, Forward(k, d, "forward"))
  PROVE  Reaches(Bloch(k), s,
                 Call("WithFields") \o flip(s.k_point) \o RunAdjoint(1, first)
                   \o RunAdjoint(2, second) \o flip(-s.k_point),
                 Adjoint(k, d, first, second))
<1>0. s.k_point = k
  BY DEF Is, Forward, AfterRun, Live
<1>1. /\ k \in Bloch(k) /\ -k \in Bloch(k)
  BY DEF Bloch
<1> DEFINE K == Bloch(k)
           l == -k
           F == ForwardSources
           R == OneRun(k, F, d)
           Q == OneRun(l, first, d)
           h == <<PieceOf(k, F, d)>>
           T == {} \cup {Saved("forward", R)}
           U == T \cup {Saved("adjoint1", Q)}
           o == <<"objective", "forward">>
           x == Live(k, F, d, o, h, <<R, R>>, {})
           y == Live(l, F, d, o, h, <<R, R>>, {})
           a1 == AfterRun(l, first, d, <<"adjoint1">>, T)
           a2 == AfterRun(l, second, d, <<"adjoint2">>, U)
           z == Adjoint(k, d, first, second)
<1>2. x = Forward(k, d, "forward")
  <2>1. Len(o) = 2 /\ RunData(2, k, F, d) = <<R, R>>
    BY ShortLists, FullValues
  <2> QED BY <2>1 DEF Forward, AfterRun
<1>3. a1 = Live(l, first, d, <<"adjoint1">>, <<PieceOf(l, first, d)>>, <<Q>>, T)
  <2>1. Len(<<"adjoint1">>) = 1 /\ RunData(1, l, first, d) = <<Q>>
    BY ShortLists, FullValues
  <2> HIDE DEF l, T
  <2> QED BY <2>1 DEF AfterRun
<1>4. /\ z = Live(k, second, d, <<"adjoint2">>,
                  <<PieceOf(l, second, d)>>, RunData(1, l, second, d), U)
      /\ a2 = Live(l, second, d, <<"adjoint2">>,
                   <<PieceOf(l, second, d)>>, RunData(1, l, second, d), U)
  <2>1. Len(<<"adjoint2">>) = 1
    BY ShortLists
  <2>2. U = {Saved("forward", R), Saved("adjoint1", Q)}
    OBVIOUS
  <2> HIDE DEF U
  <2> QED BY <2>1, <2>2 DEF Adjoint, AfterRun
<1>5. Moves(K, x, Call("WithFields"), x)
  <2>1. Moves(K, Live(k, F, d, o, h, <<R, R>>, {}), Call("WithFields"),
                 Live(k, F, d, o, h, <<R, R>>, {}))
    <3> HIDE DEF K, F, o, h, R
    <3> QED BY <1>1, MovesLive DEF K
  <2> QED BY <2>1
<1>6. Moves(K, x, flip(k), y)
  <2> HIDE DEF F, o, h, R
  <2> QED BY FlipMoves
<1>7. Moves(K, y, RunAdjoint(1, first), a1)
  <2>1. \A p \in T : p.who # "adjoint1"
    BY DEF Saved
  <2>2. Moves(K, Live(l, F, d, o, <<>>, <<R, R>>, {}), Call("clear_dft_monitors"),
                 Live(l, F, d, <<>>, <<>>, <<>>, T))
    <3> HIDE DEF K, l, F, R
    <3> QED BY <1>1, ProblemMonitors, MovesClear DEF K, l
  <2>3. "adjoint1" \in Monitors /\ AdjointMonitor[1] = "adjoint1" /\ l \in K
    BY <1>1, ProblemMonitors
  <2> HIDE DEF K, l, F, o, h, R, T, y, a1
  <2>4. Moves(K, Live(l, F, d, o, h, <<R, R>>, {}),
              Call("restart_fields") \o Call("clear_dft_monitors")
                \o CallWith("change_sources", first) \o CallWith("add_monitor", "adjoint1")
                \o Call("evaluate_dft_objects") \o RunCalls,
              AfterRun(l, first, d, <<"adjoint1">>, T))
    BY ONLY <2>1, <2>2, <2>3, AdjointMoves
  <2> QED BY <2>3, <2>4 DEF RunAdjoint, y, a1
<1>8. Moves(K, a1, RunAdjoint(2, second), a2)
  <2>1. \A p \in U : p.who # "adjoint2"
    BY DEF Saved
  <2>2. Moves(K, Live(l, first, d, <<"adjoint1">>, <<>>, <<Q>>, T), Call("clear_dft_monitors"),
                 Live(l, first, d, <<>>, <<>>, <<>>, U))
    <3> HIDE DEF K, l, Q, T
    <3> QED BY <1>1, ProblemMonitors, MovesClear DEF K, l
  <2>3. "adjoint2" \in Monitors /\ AdjointMonitor[2] = "adjoint2" /\ l \in K
    BY <1>1, ProblemMonitors
  <2> HIDE DEF K, l, F, Q, T, U, a1, a2
  <2>4. Moves(K, Live(l, first, d, <<"adjoint1">>, <<PieceOf(l, first, d)>>, <<Q>>, T),
              Call("restart_fields") \o Call("clear_dft_monitors")
                \o CallWith("change_sources", second) \o CallWith("add_monitor", "adjoint2")
                \o Call("evaluate_dft_objects") \o RunCalls,
              AfterRun(l, second, d, <<"adjoint2">>, U))
    BY ONLY <2>1, <2>2, <2>3, AdjointMoves
  <2> QED BY <1>3, <2>3, <2>4 DEF RunAdjoint, a2
<1>9. Moves(K, a2, flip(-k), z)
  <2>1. Moves(Bloch(k),
              Live(-k, second, d, <<"adjoint2">>,
                   <<PieceOf(l, second, d)>>, RunData(1, l, second, d), U),
              flip(-k),
              Live(k, second, d, <<"adjoint2">>,
                   <<PieceOf(l, second, d)>>, RunData(1, l, second, d), U))
    <3> HIDE DEF l, U
    <3> QED BY FlipMoves
  <2> QED BY <1>4, <2>1
<1> HIDE DEF K, x, y, a1, a2, z
<1>10. Moves(K, x, Call("WithFields") \o flip(k) \o RunAdjoint(1, first)
                     \o RunAdjoint(2, second) \o flip(-k), z)
  <2>1. Moves(K, x, Call("WithFields") \o flip(k), y)
    BY <1>5, <1>6, MovesThen
  <2>2. Moves(K, x, Call("WithFields") \o flip(k) \o RunAdjoint(1, first), a1)
    BY <1>7, <2>1, MovesThen
  <2>3. Moves(K, x, Call("WithFields") \o flip(k) \o RunAdjoint(1, first)
                      \o RunAdjoint(2, second), a2)
    BY <1>8, <2>2, MovesThen
  <2> QED BY <1>9, <2>3, MovesThen
<1> QED
  BY <1>0, <1>2, <1>10 DEF Moves, Reaches, K, z

\* The queue of _simulate_rev, from the forward run of its call.
LEMMA JaxAdjointReaches ==
  ASSUME NEW K, NEW k \in K, NEW d, NEW s, NEW src, Is(s, Forward(k, d, "forward"))
  PROVE  Reaches(K, s, _run_adjoint_simulation(src),
                 AfterRun(k, src, d, <<"adjoint1">>,
                          {Saved("forward", OneRun(k, ForwardSources, d))}))
<1> DEFINE F == ForwardSources
           R == OneRun(k, F, d)
           h == <<PieceOf(k, F, d)>>
           T == {} \cup {Saved("forward", R)}
           o == <<"objective", "forward">>
           x == Live(k, F, d, o, h, <<R, R>>, {})
           y == AfterRun(k, src, d, <<"adjoint1">>, T)
<1>1. x = Forward(k, d, "forward")
  <2>1. Len(o) = 2 /\ RunData(2, k, F, d) = <<R, R>>
    BY ShortLists, FullValues
  <2> QED BY <2>1 DEF Forward, AfterRun
<1>2. T = {Saved("forward", R)}
  OBVIOUS
<1>3. Moves(K, x, _run_adjoint_simulation(src), y)
  <2>1. \A p \in T : p.who # "adjoint1"
    BY DEF Saved
  <2>2. Moves(K, Live(k, F, d, o, <<>>, <<R, R>>, {}), Call("clear_dft_monitors"),
                 Live(k, F, d, <<>>, <<>>, <<>>, T))
    <3> HIDE DEF F, R
    <3> QED BY ProblemMonitors, MovesClear
  <2>3. "adjoint1" \in Monitors
    BY ProblemMonitors
  <2> HIDE DEF F, o, h, R, T, x, y
  <2>4. Moves(K, Live(k, F, d, o, h, <<R, R>>, {}),
              Call("restart_fields") \o Call("clear_dft_monitors")
                \o CallWith("change_sources", src) \o CallWith("add_monitor", "adjoint1")
                \o Call("init_sim") \o RunCalls,
              AfterRun(k, src, d, <<"adjoint1">>, T))
    BY ONLY <2>1, <2>2, <2>3, k \in K, AdjointMoves
  <2> QED BY <2>4 DEF _run_adjoint_simulation, x, y
<1> HIDE DEF x, T
<1> QED
  BY <1>1, <1>2, <1>3 DEF Moves, Reaches

\* The two runs of a finite difference.
LEMMA ValueReaches ==
  ASSUME NEW K, NEW s, NEW d, Safe(K, s)
  PROVE  \E v : Leads(K, s, ValueOf(d), v)
<1> DEFINE k == s.k_point
           F == s.sources
           m == "objective"
           o == <<m>>
           a == Ready(k, F, s.design, <<>>)
           b == Ready(k, F, d, <<>>)
           c == Ready(k, F, d, o)
           y == Live(k, F, d, o, <<PieceOf(k, F, d)>>, RunData(1, k, F, d), {})
<1>0. k \in K
  BY DEF Safe
<1>1. Reaches(K, s, Call("reset_meep"), a)
  BY ResetReaches
<1>2. Moves(K, a, CallWith("update_design_parameters", d), b)
  <2> HIDE DEF k, F
  <2> QED BY <1>0, MovesDesign
<1>3. Moves(K, b, CallWith("add_monitor", m), c)
  <2>1. IsList(<<>>) /\ m \notin ToSet(<<>>) /\ Append(<<>>, m) = o /\ m \in Monitors
    BY ShortLists, ProblemMonitors
  <2> HIDE DEF k, F, m, o
  <2>2. Moves(K, b, CallWith("add_monitor", m), Ready(k, F, d, Append(<<>>, m)))
    BY <1>0, <2>1, MovesReady
  <2> QED BY <2>1, <2>2
<1>4. Moves(K, c, RunCalls, y)
  <2>1. IsList(o) /\ Distinct(o) /\ Len(o) = 1
    BY ShortLists
  <2> HIDE DEF k, F, o
  <2>2. \A n \in Nat : n = Len(o) =>
          LET z == Live(k, F, d, o, <<PieceOf(k, F, d)>>, RunData(n, k, F, d), {})
          IN  Moves(K, Ready(k, F, d, o), RunCalls, z)
    BY <1>0, <2>1, MovesRunCalls
  <2> QED BY <2>1, <2>2
<1> HIDE DEF a, b, c, y
<1>5. Reaches(K, s, Call("reset_meep") \o CallWith("update_design_parameters", d), b)
  BY <1>1, <1>2, ReachesThen
<1>6. Reaches(K, s, Call("reset_meep") \o CallWith("update_design_parameters", d)
                      \o CallWith("add_monitor", m), c)
  BY <1>3, <1>5, ReachesThen
<1>7. Reaches(K, s, ValueOf(d), y)
  <2>1. Reaches(K, s, Call("reset_meep") \o CallWith("update_design_parameters", d)
                        \o CallWith("add_monitor", m) \o RunCalls, y)
    BY <1>4, <1>6, ReachesThen
  <2> QED BY <2>1 DEF ValueOf
<1> QED
  BY <1>7 DEF Reaches

\* The queue of calculate_fd_gradient.
LEMMA FiniteDifferenceLeads ==
  ASSUME NEW K, NEW s, NEW left, NEW right, Safe(K, s)
  PROVE  \E v : Leads(K, s, Call("reset_meep") \o CallWith("change_sources", ForwardSources)
                              \o ValueOf(left) \o ValueOf(right), v)
<1> DEFINE F == ForwardSources
           a == Ready(s.k_point, s.sources, s.design, <<>>)
           b == Ready(s.k_point, F, s.design, <<>>)
           p == Call("reset_meep") \o CallWith("change_sources", F)
<1>1. Reaches(K, s, Call("reset_meep"), a)
  BY ResetReaches
<1>2. Moves(K, a, CallWith("change_sources", F), b)
  <2>1. s.k_point \in K
    BY DEF Safe
  <2> QED BY <2>1, MovesReady
<1>3. Reaches(K, s, p, b)
  <2> HIDE DEF a, b
  <2> QED BY <1>1, <1>2, ReachesThen
<1> HIDE DEF p
<1>4. PICK v : Leads(K, s, p, v)
  BY <1>3 DEF Reaches
<1>5. PICK u : Leads(K, v, ValueOf(left), u)
  BY <1>4, SafeEnds, ValueReaches
<1>6. PICK w : Leads(K, u, ValueOf(right), w)
  BY <1>5, SafeEnds, ValueReaches
<1>7. Leads(K, s, p \o ValueOf(left), u)
  BY <1>4, <1>5, ThenCalls
<1>8. Leads(K, s, p \o ValueOf(left) \o ValueOf(right), w)
  BY <1>6, <1>7, ThenCalls
<1> QED
  BY <1>8 DEF p

\* The parts of an entry, and of short lists.
LEMMA EntryParts ==
  ASSUME NEW m, NEW x
  PROVE  Entry(m, x).who = m /\ Entry(m, x).held /\ Entry(m, x).data = x
BY DEF Entry

\* The parts of a list of one or two.
LEMMA ShortListParts ==
  ASSUME NEW a, NEW b
  PROVE  /\ 1 \in DOMAIN <<a>> /\ DOMAIN <<a>> = {1} /\ <<a>>[1] = a
         /\ 1 \in DOMAIN <<a, b>> /\ <<a, b>>[1] = a /\ <<a, b>>[2] = b
OBVIOUS

\* What can be read from a simulation after its runs.
LEMMA LiveReads ==
  ASSUME NEW s, NEW k, NEW src, NEW d, NEW o, NEW h, NEW D, NEW S, Distinct(o),
         LiveSim(s, k, src, d, o, h, D, S)
  PROVE  /\ \A i \in DOMAIN D : DataOf(s, o[i]) = D[i]
         /\ \A p \in S : DataOf(s, p.who) = p.data
         /\ s.structure = d /\ s.fields.exists /\ s.fields.history = h
<1>1. /\ FieldsAre(s.fields, k, src, d, h, Registered(o, D))
      /\ Handles(s.handle, o, D, S) /\ s.structure = d
  BY DEF LiveSim
<1>2. s.fields.monitors = Registered(o, D) /\ s.fields.exists /\ s.fields.history = h
  BY <1>1 DEF FieldsAre
<1>3. ASSUME NEW i \in DOMAIN D PROVE DataOf(s, o[i]) = D[i]
  <2> DEFINE M == s.fields.monitors
  <2>1. DOMAIN M = DOMAIN D /\ \A j \in DOMAIN D : M[j] = Entry(o[j], D[j])
    BY <1>2 DEF Registered
  <2>2. \A j \in DOMAIN D : M[j].who = o[j] /\ M[j].held /\ M[j].data = D[j]
    BY <2>1, EntryParts
  <2>3. \A j \in DOMAIN D : o[j] = o[i] => j = i
    BY <1>1 DEF Handles, Distinct
  <2> HIDE DEF M
  <2>4. i \in DOMAIN M /\ M[i].who = o[i] /\ M[i].held
        /\ \A j \in DOMAIN M : M[j].who = o[i] => j = i
    BY <2>1, <2>2, <2>3
  <2>5. EntryOf(s, o[i]) = i
    BY <2>4 DEF EntryOf, M
  <2>6. s.handle[o[i]] = Attached
    BY <1>1 DEF Handles
  <2> QED BY <2>2, <2>5, <2>6 DEF DataOf, M, Attached
<1>4. ASSUME NEW p \in S PROVE DataOf(s, p.who) = p.data
  <2>1. s.handle[p.who] = Detached(p.data)
    BY <1>1 DEF Handles
  <2> QED BY <2>1 DEF DataOf, Detached
<1> QED
  BY <1>1, <1>2, <1>3, <1>4

\* The values of a forward run.
LEMMA ForwardReads ==
  ASSUME NEW k, NEW d, NEW s, Is(s, Forward(k, d, "forward"))
  PROVE  /\ DataOf(s, "objective") = OneRun(k, ForwardSources, d)
         /\ s.fields.exists /\ s.fields.history = <<PieceOf(k, ForwardSources, d)>>
         /\ s.k_point = k /\ s.design = d
<1> DEFINE F == ForwardSources
           R == OneRun(k, F, d)
           o == <<"objective", "forward">>
           h == <<PieceOf(k, F, d)>>
<1>1. Forward(k, d, "forward") = Live(k, F, d, o, h, <<R, R>>, {})
  <2>1. Len(o) = 2 /\ RunData(2, k, F, d) = <<R, R>>
    BY ShortLists, FullValues
  <2> QED BY <2>1 DEF Forward, AfterRun
<1>2. Distinct(o) /\ o[1] = "objective" /\ 1 \in DOMAIN <<R, R>> /\ <<R, R>>[1] = R
  BY ShortLists, ShortListParts
<1> HIDE DEF F, R, o, h
<1>3. LiveSim(s, k, F, d, o, h, <<R, R>>, {})
  BY <1>1, IsLive
<1>4. DataOf(s, o[1]) = <<R, R>>[1] /\ s.fields.exists /\ s.fields.history = h
  BY ONLY <1>2, <1>3, LiveReads
<1>5. s.k_point = k /\ s.design = d
  BY <1>3 DEF LiveSim
<1> QED
  BY <1>2, <1>4, <1>5 DEF F, R, h

\* The fields of a gradient, of which the optimizer then gives up those of
\* the forward run.
LEMMA AdjointReads ==
  ASSUME NEW k \in Int, NEW d, NEW first, NEW second, NEW s, Is(s, Adjoint(k, d, first, second))
  PROVE  /\ DataOf(s, "forward") = OneRun(k, ForwardSources, d)
         /\ DataOf(s, "adjoint1") = OneRun(-k, first, d)
         /\ DataOf(s, "adjoint2") = OneRun(-k, second, d)
         /\ s.structure = d
         /\ \E v : Leads(Bloch(k), remove(s, "forward"), <<>>, v)
<1> DEFINE F == ForwardSources
           l == -k
           R == OneRun(k, F, d)
           A == OneRun(l, first, d)
           B == OneRun(l, second, d)
           o == <<"adjoint2">>
           h == <<PieceOf(l, second, d)>>
           S == {Saved("forward", R), Saved("adjoint1", A)}
           r == remove(s, "forward")
<1>1. Adjoint(k, d, first, second) = Live(k, second, d, o, h, <<B>>, S)
  <2>1. RunData(1, l, second, d) = <<B>>
    BY FullValues
  <2> HIDE DEF l
  <2> QED BY <2>1 DEF Adjoint, l
<1>2. Distinct(o) /\ o[1] = "adjoint2" /\ 1 \in DOMAIN <<B>> /\ <<B>>[1] = B
      /\ ToSet(o) = {"adjoint2"} /\ DOMAIN o = {1}
  BY ShortLists, ShortListParts
<1>3. Saved("forward", R) \in S /\ Saved("adjoint1", A) \in S
  OBVIOUS
<1> HIDE DEF F, R, A, B, l, o, h, S, r
<1>4. LiveSim(s, k, second, d, o, h, <<B>>, S)
  BY <1>1, IsLive
<1>5. /\ DataOf(s, o[1]) = <<B>>[1] /\ s.structure = d
      /\ \A p \in S : DataOf(s, p.who) = p.data
  BY ONLY <1>2, <1>4, LiveReads
<1>6. DataOf(s, "forward") = R /\ DataOf(s, "adjoint1") = A
  BY <1>3, <1>5 DEF Saved
<1>7. Safe(Bloch(k), r)
  <2>1. Safe(Bloch(k), s)
    <3>1. Adjoint(k, d, first, second).k = k /\ k \in Bloch(k)
      BY <1>1, ViewK DEF Bloch
    <3> QED BY <3>1, IsSafe
  <2>2. s.handle["forward"].state = "detached"
    <3>1. Handles(s.handle, o, <<B>>, S)
      BY <1>4 DEF LiveSim
    <3>2. s.handle["forward"] = Detached(R)
      BY <1>3, <3>1 DEF Handles, Saved
    <3> QED BY <3>2 DEF Detached
  <2>3. r = [s EXCEPT !.handle["forward"] = Freed]
    BY <2>2 DEF remove, r
  <2>4. s.dft_objects = o
    BY <1>4 DEF LiveSim
  <2>5. /\ s = [n \in SimNames |-> s[n]] /\ s.handle = [m \in Monitors |-> s.handle[m]]
    BY <2>1 DEF Safe
  <2>6. /\ r = [n \in SimNames |-> r[n]] /\ r.handle = [s.handle EXCEPT !["forward"] = Freed]
        /\ r.k_point = s.k_point /\ r.fault = s.fault /\ r.dft_objects = o
        /\ r.load_fields_file = s.load_fields_file /\ r.fields = s.fields
    BY <2>3, <2>4, <2>5 DEF SimNames
  <2>7. r.handle = [m \in Monitors |-> r.handle[m]]
        /\ \A m \in Monitors \ {"forward"} : r.handle[m] = s.handle[m]
    BY <2>5, <2>6
  <2>8. \A i \in DOMAIN o : r.handle[o[i]].state # "freed"
    <3>1. s.handle[o[1]].state # "freed" /\ o[1] \in Monitors \ {"forward"}
      BY <1>2, <2>1, <2>4, ProblemMonitors DEF Safe
    <3> QED BY <1>2, <2>7, <3>1
  <2> QED BY <2>1, <2>4, <2>6, <2>7, <2>8, SMTT(20) DEF Safe
<1>8. \E v : Leads(Bloch(k), r, <<>>, v)
  BY <1>7, NoCalls
<1> QED
  BY <1>2, <1>5, <1>6, <1>8 DEF F, R, A, B, l, r

\* The same under JAX.
LEMMA JaxReads ==
  ASSUME NEW k, NEW d, NEW src, NEW R, NEW s,
         Is(s, AfterRun(k, src, d, <<"adjoint1">>, {Saved("forward", R)}))
  PROVE  /\ DataOf(s, "forward") = R /\ DataOf(s, "adjoint1") = OneRun(k, src, d)
         /\ s.structure = d
<1> DEFINE A == OneRun(k, src, d)
           o == <<"adjoint1">>
           h == <<PieceOf(k, src, d)>>
           S == {Saved("forward", R)}
<1>1. AfterRun(k, src, d, o, S) = Live(k, src, d, o, h, <<A>>, S)
  <2>1. Len(o) = 1 /\ RunData(1, k, src, d) = <<A>>
    BY ShortLists, FullValues
  <2> QED BY <2>1 DEF AfterRun
<1>2. Distinct(o) /\ o[1] = "adjoint1" /\ 1 \in DOMAIN <<A>> /\ <<A>>[1] = A
  BY ShortLists, ShortListParts
<1>3. Saved("forward", R) \in S
  OBVIOUS
<1> HIDE DEF A, o, h, S
<1>4. LiveSim(s, k, src, d, o, h, <<A>>, S)
  <2>1. Is(s, AfterRun(k, src, d, o, S))
    BY DEF o, S
  <2> QED BY <1>1, <2>1, IsLive
<1>5. /\ DataOf(s, o[1]) = <<A>>[1] /\ s.structure = d
      /\ \A p \in S : DataOf(s, p.who) = p.data
  BY ONLY <1>2, <1>4, LiveReads
<1> QED
  BY <1>2, <1>3, <1>5 DEF A, Saved

------------------------------------------------------------------------------
(* The optimizer.                                                          *)

OptNames == {"state", "f0", "gradient", "asked", "k", "pc", "need_gradient", "answer"}

Sources(j, f0) == [objective |-> j, of |-> f0, during |-> f0[1]]
Values(o) == OneRun(o.k, ForwardSources, o.asked)
AfterAdjoint(o) == Adjoint(o.k, o.asked, Sources(1, o.f0), Sources(2, o.f0))
GradientPart(o, j) ==
  [forward |-> Values(o), adjoint |-> OneRun(-o.k, Sources(j, o.f0), o.asked),
   structure |-> o.asked]

\* What the last call has returned.
AnswerIs(o) ==
  o.answer.returned =>
    /\ o.f0 = Values(o)
    /\ o.answer.with_gradient => \A j \in Objectives : o.gradient[j] = GradientPart(o, j)

\* The forward run of the design is the last thing the simulation has done.
Stands(o, s) ==
  o.state = "FWD" /\ o.f0 = Values(o) /\ Is(s, Forward(o.k, o.asked, "forward"))

\* What each place in a call relies on.
PlaceIs(o, s, q) ==
  /\ o.pc \in {"idle", "called", "gradient"} => q = <<>>
  /\ o.pc = "update" =>
       \E v : Leads(Bloch(o.k), s, q, v) /\ v.design = o.asked /\ v.k_point = o.k
  /\ o.pc = "called" /\ o.state = "INIT" => s.design = o.asked /\ s.k_point = o.k
  /\ o.pc = "called" /\ o.state # "INIT" => Stands(o, s)
  /\ o.pc = "idle" /\ o.answer.returned /\ o.state # "INIT" => Stands(o, s)
  /\ o.pc = "forward" =>
       o.state = "INIT" /\ Reaches(Bloch(o.k), s, q, Forward(o.k, o.asked, "forward"))
  /\ o.pc = "adjoint" =>
       o.state = "FWD" /\ o.f0 = Values(o) /\ Reaches(Bloch(o.k), s, q, AfterAdjoint(o))
  /\ o.pc = "gradient" => o.f0 = Values(o) /\ Is(s, AfterAdjoint(o))

\* The inductive invariant: wherever an exception ends a call, what is left
\* of the simulation is safe, and what the optimizer goes on with stands.
OptimizerKnows(o, s, q) ==
  /\ o = [n \in OptNames |-> o[n]] /\ o.k \in Int
  /\ \E v : Leads(Bloch(o.k), s, q, v)
  /\ o.pc # "idle" => o.answer = Nobody
  /\ AnswerIs(o)
  /\ PlaceIs(o, s, q)
OptimizerInv == OptimizerKnows(opt, sim, queue)

\* The simulation may be given to anyone at any time.
LEMMA OptimizerSafe ==
  ASSUME NEW o, NEW s, NEW q, OptimizerKnows(o, s, q)
  PROVE  Safe(Bloch(o.k), s)
BY SafeEnds DEF OptimizerKnows

\* Without an answer there is nothing to say of it.
LEMMA NoAnswer ==
  ASSUME NEW o, o.answer = Nobody
  PROVE  AnswerIs(o) /\ ~ o.answer.returned
BY DEF AnswerIs, Nobody

\* One of the calls on the simulation.
LEMMA OptimizerPerforms ==
  ASSUME NEW o, NEW s, NEW q, OptimizerKnows(o, s, q), q # <<>>
  PROVE  OptimizerKnows(o, Performed(s, Head(q)), Tail(q))
<1> DEFINE K == Bloch(o.k)
           r == Performed(s, Head(q))
<1>1. \A v : Leads(K, s, q, v) => Leads(K, r, Tail(q), v)
  BY FirstCall
<1>2. \A x : Reaches(K, s, q, x) => Reaches(K, r, Tail(q), x)
  BY <1>1 DEF Reaches
<1> HIDE DEF K, r
<1>3. /\ o = [n \in OptNames |-> o[n]] /\ o.k \in Int /\ AnswerIs(o)
      /\ \E v : Leads(K, s, q, v)
      /\ o.pc # "idle" => o.answer = Nobody
      /\ PlaceIs(o, s, q)
  BY DEF OptimizerKnows, K
<1>4. o.pc \notin {"idle", "called", "gradient"}
  BY <1>3 DEF PlaceIs
<1>5. PlaceIs(o, r, Tail(q))
  <2>1. o.pc = "update" =>
          \E v : Leads(K, r, Tail(q), v) /\ v.design = o.asked /\ v.k_point = o.k
    BY <1>1, <1>3 DEF PlaceIs, K
  <2>2. o.pc = "forward" =>
          o.state = "INIT" /\ Reaches(K, r, Tail(q), Forward(o.k, o.asked, "forward"))
    BY <1>2, <1>3 DEF PlaceIs, K
  <2>3. o.pc = "adjoint" =>
          o.state = "FWD" /\ o.f0 = Values(o) /\ Reaches(K, r, Tail(q), AfterAdjoint(o))
    BY <1>2, <1>3 DEF PlaceIs, K
  <2> QED BY <1>4, <2>1, <2>2, <2>3 DEF PlaceIs, K
<1>6. OptimizerKnows(o, r, Tail(q))
  BY <1>1, <1>3, <1>5 DEF OptimizerKnows, K
<1> QED
  BY <1>6 DEF r

\* An exception.
LEMMA RaiseKeeps ==
  ASSUME OptimizerInv, Raise
  PROVE  OptimizerInv'
<1>1. /\ opt = [n \in OptNames |-> opt[n]] /\ opt.k \in Int /\ opt.answer = Nobody
      /\ Safe(Bloch(opt.k), sim)
  BY OptimizerSafe DEF OptimizerInv, OptimizerKnows, Raise
<1>2. opt' = [opt EXCEPT !.pc = "idle"] /\ queue' = <<>> /\ sim' = sim
  BY DEF Raise
<1>3. /\ opt' = [n \in OptNames |-> opt'[n]] /\ opt'.k = opt.k /\ opt'.answer = Nobody
      /\ opt'.pc = "idle"
  BY <1>1, <1>2 DEF OptNames
<1>4. AnswerIs(opt') /\ ~ opt'.answer.returned
  BY <1>3, NoAnswer
<1>5. \E v : Leads(Bloch(opt'.k), sim', queue', v)
  BY <1>1, <1>2, <1>3, NoCalls, ZenonT(40)
<1>6. PlaceIs(opt', sim', queue')
  BY <1>2, <1>3, <1>4 DEF PlaceIs
<1>7. OptimizerKnows(opt', sim', queue')
  BY <1>1, <1>3, <1>4, <1>5, <1>6 DEF OptimizerKnows
<1> QED
  BY <1>7 DEF OptimizerInv

\* A call with a new design.
LEMMA CallWithDesignKeeps ==
  ASSUME CarefulOptimizer, OptimizerInv, NEW d, NEW gradient, CallWithDesign(d, gradient)
  PROVE  OptimizerInv'
<1>1. /\ opt = [n \in OptNames |-> opt[n]] /\ opt.k \in Int /\ Safe(Bloch(opt.k), sim)
  BY OptimizerSafe DEF OptimizerInv, OptimizerKnows
<1>2. /\ sim.k_point = opt.k /\ queue' = NewDesign(d) /\ sim' = sim
      /\ opt' = [opt EXCEPT !.pc = "update", !.asked = d, !.need_gradient = gradient,
                            !.answer = Nobody]
  BY DEF CallWithDesign, Usable
<1>3. /\ opt' = [n \in OptNames |-> opt'[n]] /\ opt'.k = opt.k /\ opt'.answer = Nobody
      /\ opt'.pc = "update" /\ opt'.asked = d
  BY <1>1, <1>2 DEF OptNames
<1>4. AnswerIs(opt') /\ ~ opt'.answer.returned
  BY <1>3, NoAnswer
<1>5. PICK src : Reaches(Bloch(opt.k), sim, NewDesign(d), Ready(sim.k_point, src, d, <<>>))
  BY <1>1, NewDesignReaches
<1>6. PICK v : Leads(Bloch(opt.k), sim, NewDesign(d), v) /\ Is(v, Ready(sim.k_point, src, d, <<>>))
  BY <1>5 DEF Reaches
<1>7. v.design = d /\ v.k_point = opt.k
  BY <1>2, <1>6 DEF Is, Ready
<1>8. PlaceIs(opt', sim', queue') /\ \E u : Leads(Bloch(opt'.k), sim', queue', u)
  BY <1>2, <1>3, <1>6, <1>7 DEF PlaceIs
<1>9. OptimizerKnows(opt', sim', queue')
  BY <1>1, <1>3, <1>4, <1>8 DEF OptimizerKnows
<1> QED
  BY <1>9 DEF OptimizerInv

\* A call with the design the problem has.
LEMMA CallAgainKeeps ==
  ASSUME CarefulOptimizer, OptimizerInv, NEW gradient, CallAgain(gradient)
  PROVE  OptimizerInv'
<1>1. /\ opt = [n \in OptNames |-> opt[n]] /\ opt.k \in Int /\ Safe(Bloch(opt.k), sim)
      /\ PlaceIs(opt, sim, queue)
  BY OptimizerSafe DEF OptimizerInv, OptimizerKnows
<1>2. /\ opt.pc = "idle" /\ queue = <<>> /\ sim.k_point = opt.k /\ sim.design = opt.asked
      /\ opt.state # "INIT" => opt.answer.returned
      /\ queue' = queue /\ sim' = sim
      /\ opt' = [opt EXCEPT !.pc = "called", !.need_gradient = gradient, !.answer = Nobody]
  BY DEF CallAgain, UsableAgain, Usable, At, Idle
<1>3. /\ opt' = [n \in OptNames |-> opt'[n]] /\ opt'.k = opt.k /\ opt'.answer = Nobody
      /\ opt'.pc = "called" /\ opt'.asked = opt.asked /\ opt'.state = opt.state
      /\ opt'.f0 = opt.f0
  BY <1>1, <1>2 DEF OptNames
<1>4. AnswerIs(opt') /\ ~ opt'.answer.returned
  BY <1>3, NoAnswer
<1>5. \E v : Leads(Bloch(opt'.k), sim', queue', v)
  <2>1. Leads(Bloch(opt.k), sim, <<>>, sim)
    BY <1>1, NoCalls
  <2> QED BY <1>2, <1>3, <2>1
<1>6. opt.state # "INIT" => Stands(opt', sim')
  <2>1. opt.state # "INIT" => Stands(opt, sim)
    BY <1>1, <1>2 DEF PlaceIs
  <2> QED BY <1>2, <1>3, <2>1 DEF Stands, Values
<1>7. PlaceIs(opt', sim', queue')
  BY <1>2, <1>3, <1>6 DEF PlaceIs
<1>8. OptimizerKnows(opt', sim', queue')
  BY <1>1, <1>3, <1>4, <1>5, <1>7 DEF OptimizerKnows
<1> QED
  BY <1>8 DEF OptimizerInv

\* The end of update_design.
LEMMA UpdateKeeps ==
  ASSUME OptimizerInv, update_design
  PROVE  OptimizerInv'
<1>1. /\ opt = [n \in OptNames |-> opt[n]] /\ opt.k \in Int /\ Safe(Bloch(opt.k), sim)
      /\ PlaceIs(opt, sim, queue) /\ (opt.pc # "idle" => opt.answer = Nobody)
  BY OptimizerSafe DEF OptimizerInv, OptimizerKnows
<1>2. /\ opt.pc = "update" /\ queue = <<>> /\ queue' = queue /\ sim' = sim
      /\ opt' = [opt EXCEPT !.pc = "called", !.state = "INIT"]
  BY DEF update_design, At, Idle
<1>3. /\ opt' = [n \in OptNames |-> opt'[n]] /\ opt'.k = opt.k /\ opt'.answer = Nobody
      /\ opt'.pc = "called" /\ opt'.asked = opt.asked /\ opt'.state = "INIT"
  BY <1>1, <1>2 DEF OptNames
<1>4. AnswerIs(opt') /\ ~ opt'.answer.returned
  BY <1>3, NoAnswer
<1>5. \E v : Leads(Bloch(opt'.k), sim', queue', v)
  <2>1. Leads(Bloch(opt.k), sim, <<>>, sim)
    BY <1>1, NoCalls
  <2> QED BY <1>2, <1>3, <2>1
<1>6. PICK v : Leads(Bloch(opt.k), sim, queue, v) /\ v.design = opt.asked /\ v.k_point = opt.k
  BY <1>1, <1>2 DEF PlaceIs
<1>7. v = sim
  BY <1>2, <1>6, SafeEnds
<1>8. PlaceIs(opt', sim', queue')
  BY <1>2, <1>3, <1>6, <1>7 DEF PlaceIs
<1>9. OptimizerKnows(opt', sim', queue')
  BY <1>1, <1>3, <1>4, <1>5, <1>8 DEF OptimizerKnows
<1> QED
  BY <1>9 DEF OptimizerInv

\* The forward run is queued, and ends.
LEMMA ForwardKeeps ==
  ASSUME OptimizerInv, forward_run
  PROVE  OptimizerInv'
<1>1. /\ opt = [n \in OptNames |-> opt[n]] /\ opt.k \in Int /\ Safe(Bloch(opt.k), sim)
      /\ PlaceIs(opt, sim, queue) /\ (opt.pc # "idle" => opt.answer = Nobody)
  BY OptimizerSafe DEF OptimizerInv, OptimizerKnows
<1>2. /\ opt.pc = "called" /\ opt.state = "INIT" /\ sim' = sim
      /\ queue' = prepare_forward_run \o RunCalls
      /\ opt' = [opt EXCEPT !.pc = "forward"]
  BY DEF forward_run, At
<1>3. /\ opt' = [n \in OptNames |-> opt'[n]] /\ opt'.k = opt.k /\ opt'.answer = Nobody
      /\ opt'.pc = "forward" /\ opt'.asked = opt.asked /\ opt'.state = "INIT"
  BY <1>1, <1>2 DEF OptNames
<1>4. AnswerIs(opt') /\ ~ opt'.answer.returned
  BY <1>3, NoAnswer
<1>5. sim.design = opt.asked /\ sim.k_point = opt.k
  BY <1>1, <1>2 DEF PlaceIs
<1>6. Reaches(Bloch(opt.k), sim, queue', Forward(opt.k, opt.asked, "forward"))
  BY <1>1, <1>2, <1>5, ForwardReaches
<1>7. PlaceIs(opt', sim', queue')
  BY <1>2, <1>3, <1>6 DEF PlaceIs
<1>8. \E v : Leads(Bloch(opt'.k), sim', queue', v)
  BY <1>2, <1>3, <1>6 DEF Reaches
<1>9. OptimizerKnows(opt', sim', queue')
  BY <1>1, <1>3, <1>4, <1>7, <1>8 DEF OptimizerKnows
<1> QED
  BY <1>9 DEF OptimizerInv

\* The forward run has ended: the values are those of the objective monitor.
LEMMA ForwardEndsKeeps ==
  ASSUME OptimizerInv, forward_run_ends
  PROVE  OptimizerInv'
<1>1. /\ opt = [n \in OptNames |-> opt[n]] /\ opt.k \in Int /\ Safe(Bloch(opt.k), sim)
      /\ PlaceIs(opt, sim, queue) /\ (opt.pc # "idle" => opt.answer = Nobody)
  BY OptimizerSafe DEF OptimizerInv, OptimizerKnows
<1>2. /\ opt.pc = "forward" /\ queue = <<>> /\ sim' = sim /\ queue' = queue
      /\ opt' = [opt EXCEPT !.pc = "called", !.state = "FWD", !.f0 = DataOf(sim, "objective")]
  BY DEF forward_run_ends, At, Idle
<1>3. /\ opt' = [n \in OptNames |-> opt'[n]] /\ opt'.k = opt.k /\ opt'.answer = Nobody
      /\ opt'.pc = "called" /\ opt'.asked = opt.asked /\ opt'.state = "FWD"
      /\ opt'.f0 = DataOf(sim, "objective")
  BY <1>1, <1>2 DEF OptNames
<1>4. AnswerIs(opt') /\ ~ opt'.answer.returned
  BY <1>3, NoAnswer
<1>5. PICK v : Leads(Bloch(opt.k), sim, queue, v) /\ Is(v, Forward(opt.k, opt.asked, "forward"))
  BY <1>1, <1>2 DEF PlaceIs, Reaches
<1>6. v = sim
  BY <1>2, <1>5, SafeEnds
<1>7. Stands(opt', sim')
  <2>1. DataOf(sim, "objective") = OneRun(opt.k, ForwardSources, opt.asked)
    BY <1>5, <1>6, ForwardReads
  <2> QED BY <1>2, <1>3, <1>5, <1>6, <2>1 DEF Stands, Values
<1>8. PlaceIs(opt', sim', queue') /\ \E u : Leads(Bloch(opt'.k), sim', queue', u)
  BY <1>2, <1>3, <1>5, <1>7 DEF PlaceIs
<1>9. OptimizerKnows(opt', sim', queue')
  BY <1>1, <1>3, <1>4, <1>8 DEF OptimizerKnows
<1> QED
  BY <1>9 DEF OptimizerInv

\* The adjoint runs are queued, and end.
LEMMA AdjointKeeps ==
  ASSUME OptimizerInv, adjoint_run
  PROVE  OptimizerInv'
<1>1. /\ opt = [n \in OptNames |-> opt[n]] /\ opt.k \in Int /\ Safe(Bloch(opt.k), sim)
      /\ PlaceIs(opt, sim, queue) /\ (opt.pc # "idle" => opt.answer = Nobody)
  BY OptimizerSafe DEF OptimizerInv, OptimizerKnows
<1>2. /\ opt.pc = "called" /\ opt.state = "FWD" /\ sim' = sim
      /\ queue' = Call("WithFields") \o flip(sim.k_point)
                    \o RunAdjoint(1, AdjointSources(1, opt.f0))
                    \o RunAdjoint(2, AdjointSources(2, opt.f0)) \o flip(-sim.k_point)
      /\ opt' = [opt EXCEPT !.pc = "adjoint"]
  BY DEF adjoint_run, At
<1>3. /\ opt' = [n \in OptNames |-> opt'[n]] /\ opt'.k = opt.k /\ opt'.answer = Nobody
      /\ opt'.pc = "adjoint" /\ opt'.asked = opt.asked /\ opt'.state = "FWD"
      /\ opt'.f0 = opt.f0
  BY <1>1, <1>2 DEF OptNames
<1>4. AnswerIs(opt') /\ ~ opt'.answer.returned
  BY <1>3, NoAnswer
<1>5. opt.f0 = Values(opt) /\ Is(sim, Forward(opt.k, opt.asked, "forward"))
  BY <1>1, <1>2 DEF PlaceIs, Stands
<1>6. \A j : AdjointSources(j, opt.f0) = Sources(j, opt.f0)
  <2> DEFINE p == PieceOf(opt.k, ForwardSources, opt.asked)
  <2>1. sim.fields.exists /\ sim.fields.history = <<p>>
    BY <1>5, ForwardReads
  <2>2. opt.f0 = <<<<p>>>>
    BY <1>5, FullValues DEF Values
  <2> HIDE DEF p
  <2>3. opt.f0[1] = <<p>>
    BY <2>2
  <2> QED BY <2>1, <2>3 DEF AdjointSources, Sources
<1>7. Reaches(Bloch(opt.k), sim, queue', AfterAdjoint(opt))
  <2>1. \A first, second :
          Reaches(Bloch(opt.k), sim,
                  Call("WithFields") \o flip(sim.k_point) \o RunAdjoint(1, first)
                    \o RunAdjoint(2, second) \o flip(-sim.k_point),
                  Adjoint(opt.k, opt.asked, first, second))
    BY <1>1, <1>5, AdjointReaches
  <2> QED BY <1>2, <1>6, <2>1 DEF AfterAdjoint
<1>8. AfterAdjoint(opt') = AfterAdjoint(opt) /\ opt'.f0 = Values(opt')
  BY <1>3, <1>5 DEF AfterAdjoint, Values
<1>9. PlaceIs(opt', sim', queue')
  BY <1>2, <1>3, <1>7, <1>8 DEF PlaceIs
<1>10. \E v : Leads(Bloch(opt'.k), sim', queue', v)
  BY <1>2, <1>3, <1>7 DEF Reaches
<1>11. OptimizerKnows(opt', sim', queue')
  BY <1>1, <1>3, <1>4, <1>9, <1>10 DEF OptimizerKnows
<1> QED
  BY <1>11 DEF OptimizerInv

\* The adjoint runs have ended: the fields for the gradient are there.
LEMMA AdjointEndsKeeps ==
  ASSUME OptimizerInv, adjoint_run_ends
  PROVE  OptimizerInv'
<1>1. /\ opt = [n \in OptNames |-> opt[n]] /\ opt.k \in Int /\ Safe(Bloch(opt.k), sim)
      /\ PlaceIs(opt, sim, queue) /\ (opt.pc # "idle" => opt.answer = Nobody)
  BY OptimizerSafe DEF OptimizerInv, OptimizerKnows
<1>2. /\ opt.pc = "adjoint" /\ queue = <<>> /\ sim' = sim /\ queue' = queue
      /\ opt' = [opt EXCEPT !.pc = "gradient", !.state = "ADJ"]
  BY DEF adjoint_run_ends, At, Idle
<1>3. /\ opt' = [n \in OptNames |-> opt'[n]] /\ opt'.k = opt.k /\ opt'.answer = Nobody
      /\ opt'.pc = "gradient" /\ opt'.asked = opt.asked /\ opt'.f0 = opt.f0
  BY <1>1, <1>2 DEF OptNames
<1>4. AnswerIs(opt') /\ ~ opt'.answer.returned
  BY <1>3, NoAnswer
<1>5. PICK v : Leads(Bloch(opt.k), sim, queue, v) /\ Is(v, AfterAdjoint(opt))
  BY <1>1, <1>2 DEF PlaceIs, Reaches
<1>6. v = sim /\ opt.f0 = Values(opt)
  BY <1>1, <1>2, <1>5, SafeEnds DEF PlaceIs
<1>7. AfterAdjoint(opt') = AfterAdjoint(opt) /\ opt'.f0 = Values(opt')
  BY <1>3, <1>6 DEF AfterAdjoint, Values
<1>8. PlaceIs(opt', sim', queue') /\ \E u : Leads(Bloch(opt'.k), sim', queue', u)
  BY <1>2, <1>3, <1>5, <1>6, <1>7 DEF PlaceIs
<1>9. OptimizerKnows(opt', sim', queue')
  BY <1>1, <1>3, <1>4, <1>8 DEF OptimizerKnows
<1> QED
  BY <1>9 DEF OptimizerInv

\* The gradient.
LEMMA GradientKeeps ==
  ASSUME OptimizerInv, calculate_gradient
  PROVE  OptimizerInv'
<1>1. /\ opt = [n \in OptNames |-> opt[n]] /\ opt.k \in Int
      /\ PlaceIs(opt, sim, queue)
  BY DEF OptimizerInv, OptimizerKnows
<1> DEFINE G == [j \in Objectives |->
                   [forward |-> DataOf(sim, "forward"), adjoint |-> DataOf(sim, AdjointMonitor[j]),
                    structure |-> sim.structure]]
           o == [opt EXCEPT !.state = "INIT", !.gradient = G]
<1>2. /\ opt.pc = "gradient" /\ queue = <<>> /\ sim' = remove(sim, "forward") /\ queue' = queue
      /\ opt' = [o EXCEPT !.pc = "idle",
                          !.answer = [returned |-> TRUE, with_gradient |-> o.need_gradient]]
  BY DEF calculate_gradient, Returned, At, Idle
<1>3. \A j \in Objectives : G[j] = [forward |-> DataOf(sim, "forward"),
                                    adjoint |-> DataOf(sim, AdjointMonitor[j]),
                                    structure |-> sim.structure]
  OBVIOUS
<1> HIDE DEF G
<1>4. /\ o = [n \in OptNames |-> o[n]] /\ o.k = opt.k /\ o.asked = opt.asked /\ o.f0 = opt.f0
      /\ o.gradient = G /\ o.state = "INIT"
  BY <1>1 DEF OptNames
<1> HIDE DEF o
<1>5. /\ opt' = [n \in OptNames |-> opt'[n]] /\ opt'.k = opt.k /\ opt'.asked = opt.asked
      /\ opt'.f0 = opt.f0 /\ opt'.gradient = G /\ opt'.state = "INIT" /\ opt'.pc = "idle"
  BY <1>2, <1>4 DEF OptNames
<1>6. opt.f0 = Values(opt) /\ Is(sim, AfterAdjoint(opt))
  BY <1>1, <1>2 DEF PlaceIs
<1>7. /\ DataOf(sim, "forward") = Values(opt)
      /\ DataOf(sim, "adjoint1") = OneRun(-opt.k, Sources(1, opt.f0), opt.asked)
      /\ DataOf(sim, "adjoint2") = OneRun(-opt.k, Sources(2, opt.f0), opt.asked)
      /\ sim.structure = opt.asked
      /\ \E v : Leads(Bloch(opt.k), remove(sim, "forward"), <<>>, v)
  <2>1. Is(sim, Adjoint(opt.k, opt.asked, Sources(1, opt.f0), Sources(2, opt.f0)))
    BY <1>6 DEF AfterAdjoint
  <2>2. /\ DataOf(sim, "forward") = OneRun(opt.k, ForwardSources, opt.asked)
        /\ DataOf(sim, "adjoint1") = OneRun(-opt.k, Sources(1, opt.f0), opt.asked)
        /\ DataOf(sim, "adjoint2") = OneRun(-opt.k, Sources(2, opt.f0), opt.asked)
        /\ sim.structure = opt.asked
        /\ \E v : Leads(Bloch(opt.k), remove(sim, "forward"), <<>>, v)
    <3> DEFINE first == Sources(1, opt.f0)
               second == Sources(2, opt.f0)
               d == opt.asked
               k == opt.k
    <3>1. k \in Int /\ Is(sim, Adjoint(k, d, first, second))
      BY <1>1, <2>1
    <3> HIDE DEF first, second, d, k
    <3>2. /\ DataOf(sim, "forward") = OneRun(k, ForwardSources, d)
          /\ DataOf(sim, "adjoint1") = OneRun(-k, first, d)
          /\ DataOf(sim, "adjoint2") = OneRun(-k, second, d)
          /\ sim.structure = d
          /\ \E v : Leads(Bloch(k), remove(sim, "forward"), <<>>, v)
      BY <3>1, AdjointReads
    <3> QED BY <3>2 DEF first, second, d, k
  <2> QED BY <2>2 DEF Values
<1>8. \A j \in Objectives : G[j] = GradientPart(opt, j)
  <2>1. 1 \in Objectives /\ 2 \in Objectives /\ \A j \in Objectives : j = 1 \/ j = 2
    BY DEF Objectives
  <2>2. G[1] = GradientPart(opt, 1)
    <3>1. G[1] = [forward |-> DataOf(sim, "forward"), adjoint |-> DataOf(sim, AdjointMonitor[1]),
                  structure |-> sim.structure]
      BY <1>3, <2>1
    <3> QED BY <1>7, <3>1, ProblemMonitors DEF GradientPart
  <2>3. G[2] = GradientPart(opt, 2)
    <3>1. G[2] = [forward |-> DataOf(sim, "forward"), adjoint |-> DataOf(sim, AdjointMonitor[2]),
                  structure |-> sim.structure]
      BY <1>3, <2>1
    <3> QED BY <1>7, <3>1, ProblemMonitors DEF GradientPart
  <2> QED BY <2>1, <2>2, <2>3
<1>9. AnswerIs(opt')
  <2>1. Values(opt') = Values(opt) /\ \A j : GradientPart(opt', j) = GradientPart(opt, j)
    BY <1>5 DEF Values, GradientPart
  <2> QED BY <1>5, <1>6, <1>8, <2>1 DEF AnswerIs
<1>10. PlaceIs(opt', sim', queue')
  BY <1>2, <1>5 DEF PlaceIs
<1>11. \E v : Leads(Bloch(opt'.k), sim', queue', v)
  BY <1>2, <1>5, <1>7
<1>12. OptimizerKnows(opt', sim', queue')
  BY <1>1, <1>5, <1>9, <1>10, <1>11 DEF OptimizerKnows
<1> QED
  BY <1>12 DEF OptimizerInv

\* The values alone.
LEMMA ReturnKeeps ==
  ASSUME OptimizerInv, ReturnValues
  PROVE  OptimizerInv'
<1>1. /\ opt = [n \in OptNames |-> opt[n]] /\ opt.k \in Int /\ Safe(Bloch(opt.k), sim)
      /\ PlaceIs(opt, sim, queue)
  BY OptimizerSafe DEF OptimizerInv, OptimizerKnows
<1>2. /\ opt.pc = "called" /\ opt.state # "INIT" /\ queue = <<>> /\ sim' = sim /\ queue' = queue
      /\ opt' = [opt EXCEPT !.pc = "idle",
                   !.answer = [returned |-> TRUE, with_gradient |-> opt.need_gradient]]
      /\ ~ opt.need_gradient
  BY DEF ReturnValues, Returned, At, Idle
<1>3. /\ opt' = [n \in OptNames |-> opt'[n]] /\ opt'.k = opt.k /\ opt'.asked = opt.asked
      /\ opt'.f0 = opt.f0 /\ opt'.state = opt.state /\ opt'.pc = "idle"
      /\ opt'.answer = [returned |-> TRUE, with_gradient |-> opt.need_gradient]
  BY <1>1, <1>2 DEF OptNames
<1>4. Stands(opt, sim)
  BY <1>1, <1>2 DEF PlaceIs
<1>5. Stands(opt', sim')
  BY <1>2, <1>3, <1>4 DEF Stands, Values
<1>6. AnswerIs(opt')
  <2>1. ~ opt'.answer.with_gradient
    BY <1>2, <1>3
  <2> QED BY <1>5, <2>1 DEF AnswerIs, Stands
<1>7. PlaceIs(opt', sim', queue')
  BY <1>2, <1>3, <1>5 DEF PlaceIs
<1>8. \E v : Leads(Bloch(opt'.k), sim', queue', v)
  <2>1. Leads(Bloch(opt.k), sim, <<>>, sim)
    BY <1>1, NoCalls
  <2> QED BY <1>2, <1>3, <2>1
<1>9. OptimizerKnows(opt', sim', queue')
  BY <1>1, <1>3, <1>6, <1>7, <1>8 DEF OptimizerKnows
<1> QED
  BY <1>9 DEF OptimizerInv

\* What leaves the state of the optimizer alone.
LEMMA ScratchKeeps ==
  ASSUME OptimizerInv, NEW calls, Scratch(calls), \E v : Leads(Bloch(opt.k), sim, calls, v)
  PROVE  OptimizerInv'
<1>1. opt = [n \in OptNames |-> opt[n]] /\ opt.k \in Int
  BY DEF OptimizerInv, OptimizerKnows
<1>2. queue' = calls /\ sim' = sim /\ opt' = [opt EXCEPT !.pc = "scratch", !.answer = Nobody]
  BY DEF Scratch
<1>3. /\ opt' = [n \in OptNames |-> opt'[n]] /\ opt'.k = opt.k /\ opt'.answer = Nobody
      /\ opt'.pc = "scratch"
  BY <1>1, <1>2 DEF OptNames
<1>4. AnswerIs(opt') /\ ~ opt'.answer.returned
  BY <1>3, NoAnswer
<1>5. PlaceIs(opt', sim', queue')
  BY <1>3 DEF PlaceIs
<1>6. OptimizerKnows(opt', sim', queue')
  BY <1>1, <1>2, <1>3, <1>4, <1>5 DEF OptimizerKnows
<1> QED
  BY <1>6 DEF OptimizerInv

\* The finite difference or the plot is over.
LEMMA ScratchEndsKeeps ==
  ASSUME OptimizerInv, ScratchEnds
  PROVE  OptimizerInv'
<1>1. /\ opt = [n \in OptNames |-> opt[n]] /\ opt.k \in Int /\ Safe(Bloch(opt.k), sim)
      /\ (opt.pc # "idle" => opt.answer = Nobody)
  BY OptimizerSafe DEF OptimizerInv, OptimizerKnows
<1>2. /\ opt.pc = "scratch" /\ queue = <<>> /\ sim' = sim /\ queue' = queue
      /\ opt' = [opt EXCEPT !.pc = "idle"]
  BY DEF ScratchEnds, At, Idle
<1>3. /\ opt' = [n \in OptNames |-> opt'[n]] /\ opt'.k = opt.k /\ opt'.answer = Nobody
      /\ opt'.pc = "idle"
  BY <1>1, <1>2 DEF OptNames
<1>4. AnswerIs(opt') /\ ~ opt'.answer.returned
  BY <1>3, NoAnswer
<1>5. PlaceIs(opt', sim', queue')
  BY <1>2, <1>3, <1>4 DEF PlaceIs
<1>6. \E v : Leads(Bloch(opt'.k), sim', queue', v)
  <2>1. Leads(Bloch(opt.k), sim, <<>>, sim)
    BY <1>1, NoCalls
  <2> QED BY <1>2, <1>3, <2>1
<1>7. OptimizerKnows(opt', sim', queue')
  BY <1>1, <1>3, <1>4, <1>5, <1>6 DEF OptimizerKnows
<1> QED
  BY <1>7 DEF OptimizerInv

\* A simulation that has just been made is safe.
LEMMA NewIsSafe ==
  ASSUME NEW K, NEW k \in K, NEW d
  PROVE  Safe(K, NewSimulation(k, ForwardSources, d))
<1> DEFINE s == NewSimulation(k, ForwardSources, d)
<1>1. /\ s = [n \in SimNames |-> s[n]] /\ s.handle = [m \in Monitors |-> Lazy]
      /\ s.k_point = k /\ s.load_fields_file = NoFile /\ s.fault = "none"
      /\ s.dft_objects = <<>> /\ s.fields = NoFields
  BY DEF NewSimulation, SimNames
<1> HIDE DEF s
<1>2. s.handle = [m \in Monitors |-> s.handle[m]]
  BY <1>1
<1>3. \A i \in DOMAIN s.dft_objects : s.handle[s.dft_objects[i]].state # "freed"
  BY <1>1
<1>4. ~ s.fields.exists
  BY <1>1 DEF NoFields
<1>5. Safe(K, s)
  BY <1>1, <1>2, <1>3, <1>4 DEF Safe
<1> QED
  BY <1>5 DEF s

\* A new problem has a new simulation.
LEMMA OptimizerStarts ==
  ASSUME OptimizerInit
  PROVE  OptimizerInv
<1>1. PICK k \in OptimizerBlochVectors, d \in Designs :
        /\ sim = NewSimulation(k, ForwardSources, d) /\ queue = <<>>
        /\ opt = [state |-> "INIT", f0 |-> <<>>, gradient |-> <<>>, asked |-> d, k |-> k,
                  pc |-> "idle", need_gradient |-> FALSE, answer |-> Nobody]
  BY DEF OptimizerInit
<1>2. /\ opt = [n \in OptNames |-> opt[n]] /\ opt.k = k /\ opt.answer = Nobody
      /\ opt.pc = "idle"
  BY <1>1 DEF OptNames
<1>3. k \in Int /\ k \in Bloch(k)
  BY BlochVectorsAssumption DEF Bloch
<1>4. AnswerIs(opt) /\ ~ opt.answer.returned
  BY <1>2, NoAnswer
<1>5. PlaceIs(opt, sim, queue)
  BY <1>1, <1>2, <1>4 DEF PlaceIs
<1>6. Leads(Bloch(k), sim, <<>>, sim)
  BY <1>1, <1>3, NewIsSafe, NoCalls
<1>7. OptimizerKnows(opt, sim, queue)
  BY <1>1, <1>2, <1>3, <1>4, <1>5, <1>6 DEF OptimizerKnows
<1> QED
  BY <1>7 DEF OptimizerInv

\* Every step of the optimizer keeps the invariant.
LEMMA OptimizerSteps ==
  ASSUME CarefulOptimizer, OptimizerInv, [OptimizerNext]_<<sim, queue, opt>>
  PROVE  OptimizerInv'
<1>1. CASE Perform /\ UNCHANGED opt
  <2>1. queue # <<>> /\ sim' = Performed(sim, Head(queue)) /\ queue' = Tail(queue) /\ opt' = opt
    BY <1>1 DEF Perform, Idle
  <2>2. OptimizerKnows(opt, Performed(sim, Head(queue)), Tail(queue))
    BY <2>1, OptimizerPerforms DEF OptimizerInv
  <2> QED BY <2>1, <2>2 DEF OptimizerInv
<1>2. CASE \E d \in Designs, gradient \in BOOLEAN : CallWithDesign(d, gradient)
  BY <1>2, CallWithDesignKeeps
<1>3. CASE \E gradient \in BOOLEAN : CallAgain(gradient)
  BY <1>3, CallAgainKeeps
<1>4. CASE calculate_fd_gradient
  <2>1. \E v : Leads(Bloch(opt.k), sim,
                     Call("reset_meep") \o CallWith("change_sources", ForwardSources)
                       \o ValueOf("left") \o ValueOf("right"), v)
    BY OptimizerSafe, FiniteDifferenceLeads DEF OptimizerInv
  <2> QED BY <1>4, <2>1, ScratchKeeps DEF calculate_fd_gradient
<1>5. CASE plot2D
  <2>1. \E v : Leads(Bloch(opt.k), sim, prepare_forward_run, v)
    BY OptimizerSafe, ForwardReaches DEF OptimizerInv
  <2> QED BY <1>5, <2>1, ScratchKeeps DEF plot2D
<1>6. CASE UNCHANGED <<sim, queue, opt>>
  BY <1>6 DEF OptimizerInv
<1>7. CASE ReturnUnasked
  <2>1. Raise
    BY <1>7 DEF ReturnUnasked, At, Idle, Raise
  <2> QED BY <2>1, RaiseKeeps
<1> QED
  BY <1>1, <1>2, <1>3, <1>4, <1>5, <1>6, <1>7, UpdateKeeps, ForwardKeeps, ForwardEndsKeeps,
     AdjointKeeps, AdjointEndsKeeps, GradientKeeps, ReturnKeeps, RaiseKeeps, ScratchEndsKeeps
     DEF OptimizerNext

\* Wherever a call of the optimizer is, what it relies on holds of its
\* simulation, and wherever it fails, what it leaves can be used again.
THEOREM OptimizerInvariant ==
  ASSUME CarefulOptimizer
  PROVE  OptimizerSpec => []OptimizerInv
<1>1. OptimizerInit => OptimizerInv
  BY OptimizerStarts
<1>2. OptimizerInv /\ [OptimizerNext]_<<sim, queue, opt>> => OptimizerInv'
  BY OptimizerSteps
<1> QED
  BY <1>1, <1>2, PTL DEF OptimizerSpec

\* A call of the optimizer that returns gives the values of the design it was
\* last given, after any calls that failed (__call__).
THEOREM ReturnedValues ==
  ASSUME CarefulOptimizer
  PROVE  OptimizerSpec => []ValuesAreOfTheDesign
<1>1. OptimizerInv => ValuesAreOfTheDesign
  BY DEF OptimizerInv, OptimizerKnows, AnswerIs, ValuesAreOfTheDesign, Values
<1> QED
  BY <1>1, OptimizerInvariant, PTL

\* A gradient is made of one forward and one adjoint run for each objective,
\* all for that design and with the sources the values give (adjoint_run,
\* calculate_gradient).
THEOREM ReturnedGradient ==
  ASSUME CarefulOptimizer
  PROVE  OptimizerSpec => []GradientIsConsistent
<1>1. OptimizerInv => GradientIsConsistent
  BY DEF OptimizerInv, OptimizerKnows, AnswerIs, GradientIsConsistent, Values, GradientPart,
         Sources
<1> QED
  BY <1>1, OptimizerInvariant, PTL

\* A safe simulation registers no monitor that nobody holds, and has none
\* whose chunks are gone.
LEMMA SafeMonitors ==
  ASSUME NEW K, Safe(K, sim)
  PROVE  RegisteredMonitorsAreHeld /\ NoDanglingMonitor
BY DEF Safe, RegisteredMonitorsAreHeld, NoDanglingMonitor

\* Between any two calls of the optimizer, the monitors its simulation
\* updates are those of its list, and they can be read.
THEOREM OptimizerMonitors ==
  ASSUME CarefulOptimizer
  PROVE  OptimizerSpec => [](RegisteredMonitorsAreHeld /\ NoDanglingMonitor)
<1>1. OptimizerInv => RegisteredMonitorsAreHeld /\ NoDanglingMonitor
  BY OptimizerSafe, SafeMonitors DEF OptimizerInv
<1> QED
  BY <1>1, OptimizerInvariant, PTL
------------------------------------------------------------------------------
(* The callable for JAX.                                                   *)

JaxNames == {"calls", "latest", "doing", "answer"}

\* The simulation as the forward run of a call has left it, and as its
\* reverse run leaves it.
OfCall(call) == Forward(0, call.design, "forward")
AfterReverse(call) ==
  AfterRun(0, Sources(1, call.values), call.design, <<"adjoint1">>, {Saved("forward", call.values)})
CallValues(design) == OneRun(0, ForwardSources, design)

ReverseIs(answer) ==
  answer.returned =>
    LET call == answer.call
    IN  /\ call.values = CallValues(call.design)
        /\ answer.forward = call.values
        /\ answer.adjoint = OneRun(0, Sources(1, call.values), call.design)
        /\ answer.structure = call.design

\* The inductive invariant: the values of a call never change, and as long
\* as it is the latest the simulation is the one it has left.
JaxKnows(j, s, q) ==
  /\ j = [n \in JaxNames |-> j[n]]
  /\ \E v : Leads({0}, s, q, v)
  /\ \A call \in j.calls : call.values = CallValues(call.design)
  /\ \A call \in j.latest : j.doing = Resting /\ Is(s, OfCall(call))
  /\ j.doing = Resting => q = <<>>
  /\ j.doing.function = "_simulate_fwd" => Reaches({0}, s, q, OfCall(j.doing))
  /\ j.doing.function = "_simulate_rev" =>
       j.doing.call \in j.calls /\ Reaches({0}, s, q, AfterReverse(j.doing.call))
  /\ ReverseIs(j.answer)
JaxInv == JaxKnows(jax, sim, queue)

\* The simulation of the wrapper may be given to anyone at any time.
LEMMA JaxSafe ==
  ASSUME NEW j, NEW s, NEW q, JaxKnows(j, s, q)
  PROVE  Safe({0}, s) /\ s.k_point = 0
<1>1. Safe({0}, s)
  BY SafeEnds DEF JaxKnows
<1> QED
  BY <1>1 DEF Safe

\* Between the functions.
LEMMA JaxRests ==
  ASSUME NEW j, NEW s, j = [n \in JaxNames |-> j[n]], j.doing = Resting,
         Leads({0}, s, <<>>, s), \A call \in j.calls : call.values = CallValues(call.design),
         \A call \in j.latest : Is(s, OfCall(call)), ReverseIs(j.answer)
  PROVE  JaxKnows(j, s, <<>>)
<1>1. j.doing.function = "none"
  BY DEF Resting
<1>2. j.doing.function # "_simulate_fwd" /\ j.doing.function # "_simulate_rev"
  BY <1>1
<1> QED
  BY <1>2 DEF JaxKnows

\* One of the calls on the simulation.
LEMMA JaxPerforms ==
  ASSUME NEW j, NEW s, NEW q, JaxKnows(j, s, q), q # <<>>
  PROVE  JaxKnows(j, Performed(s, Head(q)), Tail(q))
<1> DEFINE r == Performed(s, Head(q))
<1>1. \A v : Leads({0}, s, q, v) => Leads({0}, r, Tail(q), v)
  BY FirstCall
<1>2. \A x : Reaches({0}, s, q, x) => Reaches({0}, r, Tail(q), x)
  BY <1>1 DEF Reaches
<1> HIDE DEF r
<1>3. j.doing # Resting /\ j.latest = {}
  BY DEF JaxKnows
<1>4. JaxKnows(j, r, Tail(q))
  BY <1>1, <1>2, <1>3 DEF JaxKnows
<1> QED
  BY <1>4 DEF r

\* A function starts with its calls.
LEMMA StartsKeeps ==
  ASSUME JaxInv, NEW function, NEW calls, Starts(function, calls), function # Resting,
         \E v : Leads({0}, sim, calls, v),
         function.function = "_simulate_fwd" => Reaches({0}, sim, calls, OfCall(function)),
         function.function = "_simulate_rev" =>
           function.call \in jax.calls /\ Reaches({0}, sim, calls, AfterReverse(function.call))
  PROVE  JaxInv'
<1>1. /\ jax = [n \in JaxNames |-> jax[n]]
      /\ \A call \in jax.calls : call.values = CallValues(call.design)
  BY DEF JaxInv, JaxKnows
<1>2. /\ queue' = calls /\ sim' = sim
      /\ jax' = [jax EXCEPT !.doing = function, !.latest = {}, !.answer = NoGradient]
  BY DEF Starts
<1>3. /\ jax' = [n \in JaxNames |-> jax'[n]] /\ jax'.calls = jax.calls /\ jax'.latest = {}
      /\ jax'.doing = function /\ jax'.answer = NoGradient
  BY <1>1, <1>2 DEF JaxNames
<1>4. ReverseIs(jax'.answer)
  BY <1>3 DEF ReverseIs, NoGradient
<1>5. JaxKnows(jax', sim', queue')
  BY <1>1, <1>2, <1>3, <1>4 DEF JaxKnows
<1> QED
  BY <1>5 DEF JaxInv

\* A plain call.
LEMMA SimulateKeeps ==
  ASSUME JaxInv, simulate
  PROVE  JaxInv'
<1>1. PICK d \in Designs : Starts([function |-> "simulate"], _run_fwd_simulation(d, "adjoint2"))
  BY DEF simulate
<1> DEFINE f == [function |-> "simulate"]
<1>2. f.function = "simulate" /\ f # Resting
  BY DEF Resting
<1>3. \E v : Leads({0}, sim, _run_fwd_simulation(d, "adjoint2"), v)
  <2>1. Safe({0}, sim) /\ "adjoint2" \in Monitors
    BY JaxSafe, ProblemMonitors DEF JaxInv
  <2>2. Reaches({0}, sim, _run_fwd_simulation(d, "adjoint2"), Forward(sim.k_point, d, "adjoint2"))
    BY <2>1, JaxForwardReaches
  <2> QED BY <2>2 DEF Reaches
<1>4. Starts(f, _run_fwd_simulation(d, "adjoint2"))
  BY <1>1
<1> HIDE DEF f
<1> QED
  BY <1>2, <1>3, <1>4, StartsKeeps

\* A call that may be differentiated later.
LEMMA SimulateFwdKeeps ==
  ASSUME JaxInv, _simulate_fwd
  PROVE  JaxInv'
<1>1. PICK d \in Designs :
        Starts([function |-> "_simulate_fwd", design |-> d], _run_fwd_simulation(d, "forward"))
  BY DEF _simulate_fwd
<1> DEFINE f == [function |-> "_simulate_fwd", design |-> d]
           calls == _run_fwd_simulation(d, "forward")
<1>2. f.function = "_simulate_fwd" /\ f.design = d /\ f # Resting
  <2>1. f.function # Resting.function
    BY DEF Resting
  <2> QED BY <2>1
<1>3. Reaches({0}, sim, calls, OfCall(f))
  <2>1. Safe({0}, sim) /\ sim.k_point = 0 /\ "forward" \in Monitors
    BY JaxSafe, ProblemMonitors DEF JaxInv
  <2>2. Reaches({0}, sim, calls, Forward(sim.k_point, d, "forward"))
    BY <2>1, JaxForwardReaches
  <2>3. OfCall(f) = Forward(sim.k_point, d, "forward")
    BY <1>2, <2>1 DEF OfCall
  <2> QED BY <2>2, <2>3
<1>4. Starts(f, calls)
  BY <1>1
<1> HIDE DEF f, calls
<1>5. \E v : Leads({0}, sim, calls, v)
  BY <1>3 DEF Reaches
<1> QED
  BY <1>2, <1>3, <1>4, <1>5, StartsKeeps

\* A reverse run goes on from the fields of the latest call.
LEMMA SimulateRevKeeps ==
  ASSUME CarefulJax, JaxInv, _simulate_rev
  PROVE  JaxInv'
<1>1. PICK call \in jax.calls :
        /\ call \in jax.latest
        /\ Starts([function |-> "_simulate_rev", call |-> call],
                  _run_adjoint_simulation(AdjointSources(1, call.values)))
  BY DEF _simulate_rev
<1> DEFINE f == [function |-> "_simulate_rev", call |-> call]
           calls == _run_adjoint_simulation(AdjointSources(1, call.values))
<1>2. f.function = "_simulate_rev" /\ f.call = call /\ f # Resting
  <2>1. f.function # Resting.function
    BY DEF Resting
  <2> QED BY <2>1
<1>3. call.values = CallValues(call.design) /\ Is(sim, Forward(0, call.design, "forward"))
  BY <1>1 DEF JaxInv, JaxKnows, OfCall
<1>4. AdjointSources(1, call.values) = Sources(1, call.values)
  <2> DEFINE p == PieceOf(0, ForwardSources, call.design)
  <2>1. sim.fields.exists /\ sim.fields.history = <<p>>
    BY <1>3, ForwardReads
  <2>2. call.values = <<<<p>>>>
    BY <1>3, FullValues DEF CallValues
  <2> HIDE DEF p
  <2>3. call.values[1] = <<p>>
    BY <2>2
  <2> QED BY <2>1, <2>3 DEF AdjointSources, Sources
<1>5. Reaches({0}, sim, calls, AfterReverse(call))
  <2>1. \A src : Reaches({0}, sim, _run_adjoint_simulation(src),
                         AfterRun(0, src, call.design, <<"adjoint1">>,
                                  {Saved("forward", OneRun(0, ForwardSources, call.design))}))
    <3>1. 0 \in {0}
      OBVIOUS
    <3> QED BY <1>3, <3>1, JaxAdjointReaches
  <2> QED BY <1>3, <1>4, <2>1 DEF AfterReverse, CallValues
<1>6. Starts(f, calls)
  BY <1>1
<1> HIDE DEF f, calls
<1>7. \E v : Leads({0}, sim, calls, v)
  BY <1>5 DEF Reaches
<1> QED
  BY <1>2, <1>5, <1>6, <1>7, StartsKeeps

\* The functions end.
LEMMA JaxAtEnd ==
  ASSUME JaxInv, NEW name, Ends(name)
  PROVE  /\ jax = [n \in JaxNames |-> jax[n]] /\ Leads({0}, sim, <<>>, sim)
         /\ \A call \in jax.calls : call.values = CallValues(call.design)
         /\ jax.doing.function = name /\ queue = <<>> /\ sim' = sim /\ queue' = <<>>
         /\ (name = "_simulate_fwd" => Is(sim, OfCall(jax.doing)))
         /\ (name = "_simulate_rev" =>
               jax.doing.call \in jax.calls /\ Is(sim, AfterReverse(jax.doing.call)))
         /\ ReverseIs(jax.answer)
         /\ \A call \in jax.latest : Is(sim, OfCall(call))
<1>1. jax.doing.function = name /\ queue = <<>> /\ sim' = sim /\ queue' = <<>>
  BY DEF Ends, Idle
<1>2. JaxKnows(jax, sim, <<>>)
  BY <1>1 DEF JaxInv
<1>3. Leads({0}, sim, <<>>, sim)
  BY <1>2, JaxSafe, NoCalls
<1>4. \A x : Reaches({0}, sim, <<>>, x) => Is(sim, x)
  BY SafeEnds DEF Reaches
<1> QED
  BY <1>1, <1>2, <1>3, <1>4 DEF JaxKnows

\* A plain call returns; what the wrapper knows is as before.
LEMMA SimulateEndsKeeps ==
  ASSUME JaxInv, simulate_ends
  PROVE  JaxInv'
<1>1. Ends("simulate") /\ jax' = [jax EXCEPT !.doing = Resting]
  BY DEF simulate_ends
<1>2. /\ jax = [n \in JaxNames |-> jax[n]] /\ Leads({0}, sim, <<>>, sim)
      /\ \A call \in jax.calls : call.values = CallValues(call.design)
      /\ sim' = sim /\ queue' = <<>> /\ ReverseIs(jax.answer)
      /\ \A call \in jax.latest : Is(sim, OfCall(call))
  BY <1>1, JaxAtEnd
<1>3. /\ jax' = [n \in JaxNames |-> jax'[n]] /\ jax'.calls = jax.calls
      /\ jax'.latest = jax.latest /\ jax'.doing = Resting /\ jax'.answer = jax.answer
  BY <1>1, <1>2 DEF JaxNames
<1>4. JaxKnows(jax', sim', queue')
  BY <1>2, <1>3, JaxRests
<1> QED
  BY <1>4 DEF JaxInv

\* The call is now the latest, and the simulation is as its run has left it.
LEMMA SimulateFwdEndsKeeps ==
  ASSUME JaxInv, _simulate_fwd_ends
  PROVE  JaxInv'
<1> DEFINE call == [design |-> jax.doing.design, values |-> DataOf(sim, "objective")]
<1>1. Ends("_simulate_fwd")
      /\ jax' = [jax EXCEPT !.doing = Resting, !.calls = @ \cup {call}, !.latest = {call}]
  BY DEF _simulate_fwd_ends
<1>2. /\ jax = [n \in JaxNames |-> jax[n]] /\ Leads({0}, sim, <<>>, sim)
      /\ \A c \in jax.calls : c.values = CallValues(c.design)
      /\ sim' = sim /\ queue' = <<>> /\ ReverseIs(jax.answer)
      /\ Is(sim, OfCall(jax.doing))
  BY <1>1, JaxAtEnd
<1>3. call.design = jax.doing.design /\ call.values = DataOf(sim, "objective")
  OBVIOUS
<1> HIDE DEF call
<1>4. /\ jax' = [n \in JaxNames |-> jax'[n]] /\ jax'.calls = jax.calls \cup {call}
      /\ jax'.latest = {call} /\ jax'.doing = Resting /\ jax'.answer = jax.answer
  BY <1>1, <1>2 DEF JaxNames
<1>5. OfCall(call) = OfCall(jax.doing) /\ call.values = CallValues(call.design)
  <2>1. DataOf(sim, "objective") = OneRun(0, ForwardSources, jax.doing.design)
    BY <1>2, ForwardReads DEF OfCall
  <2> QED BY <1>3, <2>1 DEF OfCall, CallValues
<1>6. JaxKnows(jax', sim', queue')
  BY <1>2, <1>4, <1>5, JaxRests
<1> QED
  BY <1>6 DEF JaxInv

\* The gradient is read, and the call cannot be differentiated again.
LEMMA SimulateRevEndsKeeps ==
  ASSUME JaxInv, _simulate_rev_ends
  PROVE  JaxInv'
<1> DEFINE call == jax.doing.call
           answer == [returned |-> TRUE, call |-> call, forward |-> DataOf(sim, "forward"),
                      adjoint |-> DataOf(sim, "adjoint1"), structure |-> sim.structure]
<1>1. Ends("_simulate_rev")
      /\ jax' = [jax EXCEPT !.doing = Resting, !.calls = @ \ {call}, !.answer = answer]
  BY DEF _simulate_rev_ends
<1>2. /\ jax = [n \in JaxNames |-> jax[n]] /\ Leads({0}, sim, <<>>, sim)
      /\ \A c \in jax.calls : c.values = CallValues(c.design)
      /\ sim' = sim /\ queue' = <<>>
      /\ call \in jax.calls /\ Is(sim, AfterReverse(call))
      /\ \A c \in jax.latest : Is(sim, OfCall(c))
  BY <1>1, JaxAtEnd
<1>3. /\ DataOf(sim, "forward") = call.values
      /\ DataOf(sim, "adjoint1") = OneRun(0, Sources(1, call.values), call.design)
      /\ sim.structure = call.design
  BY <1>2, JaxReads DEF AfterReverse
<1>4. ReverseIs(answer)
  BY <1>2, <1>3 DEF ReverseIs
<1> HIDE DEF call, answer
<1>5. /\ jax' = [n \in JaxNames |-> jax'[n]] /\ jax'.calls = jax.calls \ {call}
      /\ jax'.latest = jax.latest /\ jax'.doing = Resting /\ jax'.answer = answer
  BY <1>1, <1>2 DEF JaxNames
<1>6. JaxKnows(jax', sim', queue')
  BY <1>2, <1>4, <1>5, JaxRests
<1> QED
  BY <1>6 DEF JaxInv

\* An exception: no call is the latest one any more.
LEMMA JaxRaisesKeeps ==
  ASSUME JaxInv, JaxRaises
  PROVE  JaxInv'
<1>1. /\ jax = [n \in JaxNames |-> jax[n]] /\ Safe({0}, sim)
      /\ \A call \in jax.calls : call.values = CallValues(call.design)
      /\ \A call \in jax.latest : Is(sim, OfCall(call))
      /\ ReverseIs(jax.answer)
  BY JaxSafe DEF JaxInv, JaxKnows
<1>2. queue' = <<>> /\ sim' = sim /\ jax' = [jax EXCEPT !.doing = Resting]
  BY DEF JaxRaises
<1>3. /\ jax' = [n \in JaxNames |-> jax'[n]] /\ jax'.calls = jax.calls
      /\ jax'.latest = jax.latest /\ jax'.doing = Resting /\ jax'.answer = jax.answer
  BY <1>1, <1>2 DEF JaxNames
<1>4. Leads({0}, sim, <<>>, sim)
  BY <1>1, NoCalls
<1>5. JaxKnows(jax', sim', queue')
  BY <1>1, <1>2, <1>3, <1>4, JaxRests
<1> QED
  BY <1>5 DEF JaxInv

\* A new wrapper has a new simulation.
LEMMA JaxStarts ==
  ASSUME JaxInit
  PROVE  JaxInv
<1>1. PICK d \in Designs :
        /\ sim = NewSimulation(0, ForwardSources, d) /\ queue = <<>>
        /\ jax = [calls |-> {}, latest |-> {}, doing |-> Resting, answer |-> NoGradient]
  BY DEF JaxInit
<1>2. /\ jax = [n \in JaxNames |-> jax[n]] /\ jax.calls = {} /\ jax.latest = {}
      /\ jax.doing = Resting /\ jax.answer = NoGradient
  BY <1>1 DEF JaxNames
<1>3. Leads({0}, sim, <<>>, sim)
  <2>1. 0 \in {0}
    OBVIOUS
  <2> QED BY <1>1, <2>1, NewIsSafe, NoCalls
<1>4. ReverseIs(jax.answer)
  BY <1>2 DEF ReverseIs, NoGradient
<1>5. JaxKnows(jax, sim, queue)
  BY <1>1, <1>2, <1>3, <1>4, JaxRests
<1> QED
  BY <1>5 DEF JaxInv

\* Every step of the wrapper keeps the invariant.
LEMMA JaxSteps ==
  ASSUME CarefulJax, JaxInv, [JaxNext]_<<sim, queue, jax>>
  PROVE  JaxInv'
<1>1. CASE Perform /\ UNCHANGED jax
  <2>1. queue # <<>> /\ sim' = Performed(sim, Head(queue)) /\ queue' = Tail(queue) /\ jax' = jax
    BY <1>1 DEF Perform, Idle
  <2>2. JaxKnows(jax, Performed(sim, Head(queue)), Tail(queue))
    BY <2>1, JaxPerforms DEF JaxInv
  <2> QED BY <2>1, <2>2 DEF JaxInv
<1>2. CASE UNCHANGED <<sim, queue, jax>>
  BY <1>2 DEF JaxInv
<1> QED
  BY <1>1, <1>2, SimulateKeeps, SimulateEndsKeeps, SimulateFwdKeeps, SimulateFwdEndsKeeps,
     SimulateRevKeeps, SimulateRevEndsKeeps, JaxRaisesKeeps DEF JaxNext

\* As long as JAX differentiates a call before it makes the next, what a
\* reverse run relies on stands.
THEOREM JaxInvariant ==
  ASSUME CarefulJax
  PROVE  JaxSpec => []JaxInv
<1>1. JaxInit => JaxInv
  BY JaxStarts
<1>2. JaxInv /\ [JaxNext]_<<sim, queue, jax>> => JaxInv'
  BY JaxSteps
<1> QED
  BY <1>1, <1>2, PTL DEF JaxSpec

\* The gradient JAX is given is made of the fields of the call it is for
\* (_simulate_rev).
THEOREM ReverseIsOfItsCall ==
  ASSUME CarefulJax
  PROVE  JaxSpec => []GradientIsOfItsCall
<1>1. JaxInv => GradientIsOfItsCall
  BY DEF JaxInv, JaxKnows, ReverseIs, GradientIsOfItsCall, CallValues, Sources
<1> QED
  BY <1>1, JaxInvariant, PTL

\* Between any two calls of the wrapper, the monitors its simulation updates
\* are those of its list, and they can be read.
THEOREM JaxMonitors ==
  ASSUME CarefulJax
  PROVE  JaxSpec => [](RegisteredMonitorsAreHeld /\ NoDanglingMonitor)
<1>1. JaxInv => RegisteredMonitorsAreHeld /\ NoDanglingMonitor
  BY JaxSafe, SafeMonitors DEF JaxInv
<1> QED
  BY <1>1, JaxInvariant, PTL

------------------------------------------------------------------------------
(* What a condition remembers.                                             *)

VerdictNames == {"max_abs", "cur_max", "t0", "dt", "previous", "maxchange"}

\* What a condition may have seen of a signal s up to time n.
Taken(s, n, every) == {s[v + 1] : v \in {w \in 0..n : w % every = 0}}
Known(s, n) == {s[v + 1] : v \in 0..n}
DftOf(s, u) == s[(u \div Decimation) * Decimation + 1]
Changes(s, n) == {Distance(DftOf(s, v), DftOf(s, w)) : v, w \in 0..n}

\* What a closure x of the condition c holds at time n, after calls at all
\* times before m.
Remembers(c, x, s, n, m) ==
  /\ x = [k \in VerdictNames |-> x[k]]
  /\ x.t0 \in 0..n
  /\ c.kind = "fields" =>
       /\ x.cur_max \in {0} \cup Taken(s, n, c.interval)
       /\ x.max_abs \in {0} \cup Taken(s, n, c.interval)
       /\ \A v \in 0..(m - 1) : v > x.t0 /\ v % c.interval = 0 => s[v + 1] <= x.cur_max
  /\ c.kind = "energy" => x.max_abs \in {0} \cup Known(s, n)
  /\ c.kind = "flux" =>
       /\ x.previous = {} \/ x.previous = {DftOf(s, x.t0)}
       /\ x.maxchange \in {0} \cup Changes(s, n)
       /\ m > 0 => x.dt = Larger(c.time, Decimation)

\* A history of the signal up to time n.
History(s, n) == n \in Nat /\ s \in Seq(Nat) /\ Len(s) = n + 1

\* The rates are positive numbers.
LEMMA Rates == Decay \in Nat /\ Decay > 0 /\ Decimation \in Nat /\ Decimation > 0
BY RatesAssumption

\* DFTs see the signal at a time that has passed.
LEMMA DftTime ==
  ASSUME NEW u \in Nat
  PROVE  (u \div Decimation) * Decimation \in 0..u
BY Rates

\* What has been seen is known.
LEMMA HistoryValues ==
  ASSUME NEW s, NEW n, History(s, n)
  PROVE  /\ \A v \in 0..n : s[v + 1] \in Nat
         /\ Known(s, n) \subseteq Nat
         /\ \A every : Taken(s, n, every) \subseteq Known(s, n)
         /\ \A u \in 0..n : DftOf(s, u) \in Nat
         /\ Changes(s, n) \subseteq Nat
<1>1. ASSUME NEW v \in 0..n PROVE s[v + 1] \in Nat
  BY DEF History
<1>2. ASSUME NEW u \in 0..n PROVE DftOf(s, u) \in Nat
  <2>1. n \in Nat /\ u \in Nat
    BY DEF History
  <2>2. (u \div Decimation) * Decimation \in 0..n
    BY <2>1, DftTime
  <2> QED BY <1>1, <2>2 DEF DftOf
<1>3. ASSUME NEW v \in 0..n, NEW w \in 0..n PROVE Distance(DftOf(s, v), DftOf(s, w)) \in Nat
  BY <1>2 DEF Distance
<1> QED
  BY <1>1, <1>2, <1>3 DEF Known, Taken, Changes

\* The signal of the next step changes nothing of what has been seen.
LEMMA HistoryGrows ==
  ASSUME NEW s, NEW n, History(s, n), NEW x \in Nat
  PROVE  /\ History(Append(s, x), n + 1)
         /\ \A v \in 0..n : Append(s, x)[v + 1] = s[v + 1]
         /\ \A u \in 0..n : DftOf(Append(s, x), u) = DftOf(s, u)
         /\ \A every : Taken(s, n, every) \subseteq Taken(Append(s, x), n + 1, every)
         /\ Known(s, n) \subseteq Known(Append(s, x), n + 1)
         /\ Changes(s, n) \subseteq Changes(Append(s, x), n + 1)
<1> DEFINE z == Append(s, x)
<1>1. n \in Nat /\ s \in Seq(Nat) /\ Len(s) = n + 1
  BY DEF History
<1>2. z \in Seq(Nat) /\ Len(z) = (n + 1) + 1 /\ \A i \in 1..(n + 1) : z[i] = s[i]
  BY <1>1, AppendProperties
<1> HIDE DEF z
<1>3. \A v \in 0..n : z[v + 1] = s[v + 1] /\ v \in 0..(n + 1)
  BY <1>1, <1>2
<1>4. \A u \in 0..n : DftOf(z, u) = DftOf(s, u)
  <2> TAKE u \in 0..n
  <2>1. u \in Nat
    BY <1>1
  <2>2. (u \div Decimation) * Decimation \in 0..u
    BY <2>1, DftTime
  <2>3. (u \div Decimation) * Decimation \in 0..n
    BY <1>1, <2>2
  <2> QED BY <1>3, <2>3 DEF DftOf
<1>5. History(z, n + 1)
  BY <1>1, <1>2 DEF History
<1>6. \A every : Taken(s, n, every) \subseteq Taken(z, n + 1, every)
  BY <1>3 DEF Taken
<1>7. Known(s, n) \subseteq Known(z, n + 1)
  BY <1>3 DEF Known
<1>8. Changes(s, n) \subseteq Changes(z, n + 1)
  BY <1>3, <1>4 DEF Changes
<1> QED
  BY <1>3, <1>4, <1>5, <1>6, <1>7, <1>8 DEF z

\* A closure remembers at the next time what it remembers now, if it has been
\* called now.
LEMMA RemembersNext ==
  ASSUME NEW c, NEW x, NEW s, NEW n, History(s, n), Remembers(c, x, s, n, n + 1), NEW y \in Nat
  PROVE  Remembers(c, x, Append(s, y), n + 1, n + 1)
<1> DEFINE z == Append(s, y)
<1>1. n \in Nat /\ x.t0 \in 0..(n + 1) /\ x.t0 \in 0..n
  BY DEF History, Remembers
<1>2. /\ \A v \in 0..n : z[v + 1] = s[v + 1]
      /\ \A u \in 0..n : DftOf(z, u) = DftOf(s, u)
      /\ \A every : Taken(s, n, every) \subseteq Taken(z, n + 1, every)
      /\ Known(s, n) \subseteq Known(z, n + 1)
      /\ Changes(s, n) \subseteq Changes(z, n + 1)
  BY HistoryGrows
<1> HIDE DEF z
<1>3. c.kind = "fields" =>
        /\ x.cur_max \in {0} \cup Taken(z, n + 1, c.interval)
        /\ x.max_abs \in {0} \cup Taken(z, n + 1, c.interval)
        /\ \A v \in 0..((n + 1) - 1) : v > x.t0 /\ v % c.interval = 0 => z[v + 1] <= x.cur_max
  BY <1>1, <1>2 DEF Remembers
<1>4. c.kind = "energy" => x.max_abs \in {0} \cup Known(z, n + 1)
  BY <1>2 DEF Remembers
<1>5. c.kind = "flux" =>
        /\ x.previous = {} \/ x.previous = {DftOf(z, x.t0)}
        /\ x.maxchange \in {0} \cup Changes(z, n + 1)
        /\ n + 1 > 0 => x.dt = Larger(c.time, Decimation)
  BY <1>1, <1>2 DEF Remembers
<1> QED
  BY <1>1, <1>3, <1>4, <1>5 DEF Remembers, z

\* A call at time n counts as one of the past.
LEMMA RemembersLess ==
  ASSUME NEW c, NEW x, NEW s, NEW n \in Nat, Remembers(c, x, s, n, n + 1)
  PROVE  Remembers(c, x, s, n, n)
<1>1. \A v \in 0..(n - 1) : v \in 0..((n + 1) - 1)
  OBVIOUS
<1>2. n + 1 > 0
  OBVIOUS
<1> QED
  BY <1>1, <1>2 DEF Remembers

\* The closure of a new condition at time zero.
LEMMA RemembersNothing ==
  ASSUME NEW c, NEW s
  PROVE  Remembers(c, NewVerdict, s, 0, 0)
BY DEF Remembers, NewVerdict, VerdictNames

------------------------------------------------------------------------------
(* What a call makes of a closure, and what its answer means.              *)

\* What an attribute of a closure is after others have changed.
LEMMA ClosureIs ==
  ASSUME NEW x, x = [k \in VerdictNames |-> x[k]], NEW a, NEW b, NEW d
  PROVE  /\ [x EXCEPT !.cur_max = a]
              = [k \in VerdictNames |-> IF k = "cur_max" THEN a ELSE x[k]]
         /\ [x EXCEPT !.cur_max = a, !.max_abs = b, !.t0 = d]
              = [k \in VerdictNames |-> IF k = "cur_max" THEN a ELSE IF k = "max_abs" THEN b
                                        ELSE IF k = "t0" THEN d ELSE x[k]]
         /\ [x EXCEPT !.max_abs = b, !.t0 = d]
              = [k \in VerdictNames |-> IF k = "max_abs" THEN b ELSE IF k = "t0" THEN d ELSE x[k]]
<1>1. DOMAIN x = VerdictNames
  OBVIOUS
<1> QED
  BY <1>1 DEF VerdictNames

\* The larger of two values that a set has.
LEMMA LargerOf ==
  ASSUME NEW S, S \subseteq Nat, NEW a \in {0} \cup S, NEW b \in {0} \cup S
  PROVE  /\ Larger(a, b) \in {0} \cup S
         /\ Larger(a, b) \in Nat /\ a \in Nat /\ b \in Nat
         /\ a <= Larger(a, b) /\ b <= Larger(a, b)
BY DEF Larger

\* Of the fields.
LEMMA FieldsCall ==
  ASSUME NEW c \in Conditions, c.kind = "fields", NEW x, History(signal, t),
         Remembers(c, x, signal, t, t)
  PROVE  LET a == stop_when_fields_decayed(c, x)
         IN  /\ Remembers(c, a.closure, signal, t, t + 1)
             /\ a.value => /\ x.t0 + c.time < t
                           /\ \E cur \in Nat, max \in {0} \cup Taken(signal, t, c.interval) :
                                /\ cur * Decay <= max
                                /\ \A v \in (x.t0 + 1)..t :
                                     v % c.interval = 0 => signal[v + 1] <= cur
<1> DEFINE T == Taken(signal, t, c.interval)
           new == IF t % c.interval = 0 THEN Larger(x.cur_max, Signal) ELSE x.cur_max
           top == Larger(x.max_abs, new)
           a == stop_when_fields_decayed(c, x)
<1>1. t \in Nat /\ c.time \in Nat /\ c.interval \in Nat
  BY DEF History, Conditions
<1>2. T \subseteq Nat /\ Signal \in Nat
  BY <1>1, HistoryValues DEF Signal
<1>3. t % c.interval = 0 => Signal \in T
  BY <1>1 DEF Taken, Signal
<1>4. /\ x.cur_max \in {0} \cup T /\ x.max_abs \in {0} \cup T /\ x.t0 \in 0..t
      /\ x = [k \in VerdictNames |-> x[k]]
      /\ \A v \in 0..(t - 1) : v > x.t0 /\ v % c.interval = 0 => signal[v + 1] <= x.cur_max
  BY DEF Remembers
<1> HIDE DEF T
<1>5. new \in {0} \cup T /\ x.cur_max <= new /\ x.cur_max \in Nat /\ new \in Nat
      /\ (t % c.interval = 0 => Signal <= new)
  <2>1. CASE t % c.interval = 0
    <3>1. new = Larger(x.cur_max, Signal) /\ Signal \in {0} \cup T
      BY <1>3, <2>1
    <3> HIDE DEF new
    <3> QED BY <1>2, <1>4, <3>1, LargerOf
  <2>2. CASE t % c.interval # 0
    BY <1>2, <1>4, <2>2
  <2> QED BY <2>1, <2>2
<1> HIDE DEF new
<1>6. top \in {0} \cup T
  BY <1>2, <1>4, <1>5, LargerOf
<1>7. ASSUME NEW v \in (x.t0 + 1)..t, v % c.interval = 0 PROVE signal[v + 1] <= new
  <2>1. CASE v = t
    BY <1>5, <1>7, <2>1 DEF Signal
  <2>2. CASE v # t
    <3>1. v \in 0..(t - 1) /\ v > x.t0
      BY <1>1, <1>4, <2>2
    <3>2. signal[v + 1] <= x.cur_max
      BY <1>4, <1>7, <3>1
    <3>3. signal[v + 1] \in Nat
      BY <1>1, <3>1, HistoryValues
    <3> QED BY <1>5, <3>2, <3>3
  <2> QED BY <2>1, <2>2
<1>8. a = IF t <= c.time + x.t0 THEN Answer(FALSE, [x EXCEPT !.cur_max = new])
          ELSE Answer(new * Decay <= top,
                      [x EXCEPT !.cur_max = 0, !.max_abs = top, !.t0 = t])
  BY DEF stop_when_fields_decayed, new
<1> HIDE DEF a, top
<1>9. CASE t <= c.time + x.t0
  <2> DEFINE y == [x EXCEPT !.cur_max = new]
  <2>1. y = [k \in VerdictNames |-> y[k]] /\ y.cur_max = new /\ y.t0 = x.t0
        /\ y.max_abs = x.max_abs
    BY <1>4, ClosureIs DEF VerdictNames
  <2>2. a.value = FALSE /\ a.closure = y
    BY <1>8, <1>9 DEF Answer
  <2> HIDE DEF y
  <2>3. \A v \in 0..((t + 1) - 1) : v > y.t0 /\ v % c.interval = 0 => signal[v + 1] <= y.cur_max
    <3> TAKE v \in 0..((t + 1) - 1)
    <3> HAVE v > y.t0 /\ v % c.interval = 0
    <3>1. v \in (x.t0 + 1)..t
      BY <1>1, <1>4, <2>1
    <3> QED BY <1>7, <2>1, <3>1
  <2>4. c.kind # "energy" /\ c.kind # "flux"
    OBVIOUS
  <2>5. Remembers(c, y, signal, t, t + 1)
    BY <1>4, <1>5, <2>1, <2>3, <2>4 DEF Remembers, T
  <2> QED BY <2>2, <2>5 DEF a
<1>10. CASE ~ (t <= c.time + x.t0)
  <2> DEFINE y == [x EXCEPT !.cur_max = 0, !.max_abs = top, !.t0 = t]
  <2>1. y = [k \in VerdictNames |-> y[k]] /\ y.cur_max = 0 /\ y.t0 = t /\ y.max_abs = top
    BY <1>4, ClosureIs DEF VerdictNames
  <2>2. a.value = (new * Decay <= top) /\ a.closure = y
    BY <1>8, <1>10 DEF Answer
  <2> HIDE DEF y
  <2>3. \A v \in 0..((t + 1) - 1) : ~ (v > y.t0)
    BY <1>1, <2>1
  <2>4. c.kind # "energy" /\ c.kind # "flux"
    OBVIOUS
  <2>5. t \in 0..t
    BY <1>1
  <2>6. Remembers(c, y, signal, t, t + 1)
    BY <1>6, <2>1, <2>3, <2>4, <2>5 DEF Remembers, T
  <2>7. x.t0 + c.time < t
    BY <1>1, <1>4, <1>10
  <2>8. a.value => /\ new \in Nat /\ top \in {0} \cup Taken(signal, t, c.interval)
                   /\ new * Decay <= top
                   /\ \A v \in (x.t0 + 1)..t : v % c.interval = 0 => signal[v + 1] <= new
    BY <1>5, <1>6, <1>7, <2>2 DEF T
  <2> QED BY <2>2, <2>6, <2>7, <2>8 DEF a
<1> QED
  BY <1>9, <1>10

\* Of the energy.
LEMMA EnergyCall ==
  ASSUME NEW c \in Conditions, c.kind = "energy", NEW x, History(signal, t),
         Remembers(c, x, signal, t, t)
  PROVE  LET a == stop_when_energy_decayed(c, x)
         IN  /\ Remembers(c, a.closure, signal, t, t + 1)
             /\ a.value => /\ x.t0 + c.time < t
                           /\ \E max \in {0} \cup Known(signal, t) : Signal * Decay <= max
<1> DEFINE T == Known(signal, t)
           top == Larger(x.max_abs, Signal)
           a == stop_when_energy_decayed(c, x)
<1>1. t \in Nat /\ c.time \in Nat /\ t \in 0..t
  BY DEF History, Conditions
<1>2. T \subseteq Nat /\ Signal \in T
  BY <1>1, HistoryValues DEF Known, Signal
<1>3. x.max_abs \in {0} \cup T /\ x.t0 \in 0..t /\ x = [k \in VerdictNames |-> x[k]]
  BY DEF Remembers
<1> HIDE DEF T
<1>4. top \in {0} \cup T
  BY <1>2, <1>3, LargerOf
<1>5. a = IF t <= c.time + x.t0 THEN Answer(FALSE, x)
          ELSE Answer(Signal * Decay <= top, [x EXCEPT !.max_abs = top, !.t0 = t])
  BY DEF stop_when_energy_decayed
<1> HIDE DEF a, top
<1>6. c.kind # "fields" /\ c.kind # "flux"
  OBVIOUS
<1>7. CASE t <= c.time + x.t0
  <2>1. a.value = FALSE /\ a.closure = x
    BY <1>5, <1>7 DEF Answer
  <2>2. Remembers(c, x, signal, t, t + 1)
    BY <1>6 DEF Remembers
  <2> QED BY <2>1, <2>2 DEF a
<1>8. CASE ~ (t <= c.time + x.t0)
  <2> DEFINE y == [x EXCEPT !.max_abs = top, !.t0 = t]
  <2>1. y = [k \in VerdictNames |-> y[k]] /\ y.t0 = t /\ y.max_abs = top
    BY <1>3, ClosureIs DEF VerdictNames
  <2>2. a.value = (Signal * Decay <= top) /\ a.closure = y
    BY <1>5, <1>8 DEF Answer
  <2> HIDE DEF y
  <2>3. Remembers(c, y, signal, t, t + 1)
    BY <1>1, <1>4, <1>6, <2>1 DEF Remembers, T
  <2>4. x.t0 + c.time < t
    BY <1>1, <1>3, <1>8
  <2>5. a.value => top \in {0} \cup Known(signal, t) /\ Signal * Decay <= top
    BY <1>4, <2>2 DEF T
  <2> QED BY <2>2, <2>3, <2>4, <2>5 DEF a
<1> QED
  BY <1>7, <1>8

\* Of a flux: a change is one from the time of the last answer, an interval
\* or more ago.
LEMMA FluxCall ==
  ASSUME NEW c \in Conditions, c.kind = "flux", NEW x, History(signal, t),
         Remembers(c, x, signal, t, t)
  PROVE  LET a == stop_when_flux_decayed(c, x)
         IN  /\ Remembers(c, a.closure, signal, t, t + 1)
             /\ a.value => /\ x.t0 + c.time < t
                           /\ \E max \in {0} \cup Changes(signal, t) :
                                Distance(Dft(x.t0), Dft(t)) * Decay <= max
<1> DEFINE T == Changes(signal, t)
           dt == Interval(c, x)
           first == x.previous = {}
           change == IF first THEN 0 ELSE Distance(CHOOSE p \in x.previous : TRUE, Dft(t))
           top == Larger(x.maxchange, change)
           a == stop_when_flux_decayed(c, x)
           unready == [x EXCEPT !.dt = dt]
           measured == [x EXCEPT !.dt = dt, !.maxchange = top, !.previous = {Dft(t)}, !.t0 = t]
<1>1. t \in Nat /\ c.time \in Nat /\ t \in 0..t
  BY DEF History, Conditions
<1>2. T \subseteq Nat /\ x.t0 \in 0..t /\ x = [k \in VerdictNames |-> x[k]]
      /\ x.maxchange \in {0} \cup T
      /\ (x.previous = {} \/ x.previous = {DftOf(signal, x.t0)})
      /\ (t > 0 => x.dt = Larger(c.time, Decimation))
  BY <1>1, HistoryValues DEF Remembers
<1>3. \A u : Dft(u) = DftOf(signal, u)
  BY DEF Dft, DftOf
<1>4. dt = Larger(c.time, Decimation) /\ dt \in Nat /\ c.time <= dt
  <2>1. dt = Larger(c.time, Decimation)
    BY <1>1, <1>2 DEF Interval
  <2> HIDE DEF dt
  <2> QED BY <1>1, <2>1, Rates DEF Larger
<1>5. ~ first => change = Distance(Dft(x.t0), Dft(t))
  BY <1>2, <1>3
<1>6. change \in {0} \cup T
  <2>1. CASE first
    BY <2>1
  <2>2. CASE ~ first
    <3>1. change = Distance(DftOf(signal, x.t0), DftOf(signal, t))
      BY <1>3, <1>5, <2>2
    <3> HIDE DEF change
    <3> QED BY <1>1, <1>2, <3>1 DEF Changes
  <2> QED BY <2>1, <2>2
<1>7. unready = [k \in VerdictNames |-> unready[k]] /\ unready.dt = dt /\ unready.t0 = x.t0
      /\ unready.maxchange = x.maxchange /\ unready.previous = x.previous
  <2> HIDE DEF dt
  <2> QED BY <1>2 DEF VerdictNames
<1>8. measured = [k \in VerdictNames |-> measured[k]] /\ measured.dt = dt /\ measured.t0 = t
      /\ measured.maxchange = top /\ measured.previous = {Dft(t)}
  <2> HIDE DEF dt, top
  <2> QED BY <1>2 DEF VerdictNames
<1>9. a = IF t <= dt + x.t0 THEN Answer(FALSE, unready)
          ELSE Answer(~first /\ change * Decay <= top, measured)
  BY DEF stop_when_flux_decayed
<1>10. c.kind # "fields" /\ c.kind # "energy"
  OBVIOUS
<1> HIDE DEF T, change, dt, unready, measured, a
<1>11. top \in {0} \cup T
  BY <1>2, <1>6, LargerOf
<1> HIDE DEF top, first
<1>12. CASE t <= dt + x.t0
  <2>1. a.value = FALSE /\ a.closure = unready
    BY <1>9, <1>12 DEF Answer
  <2>2. Remembers(c, unready, signal, t, t + 1)
    BY <1>2, <1>4, <1>7, <1>10 DEF Remembers, T
  <2> QED BY <2>1, <2>2 DEF a
<1>13. CASE ~ (t <= dt + x.t0)
  <2>1. a.value = (~first /\ change * Decay <= top) /\ a.closure = measured
    BY <1>9, <1>13 DEF Answer
  <2>2. Remembers(c, measured, signal, t, t + 1)
    BY <1>1, <1>3, <1>4, <1>8, <1>10, <1>11 DEF Remembers, T
  <2>3. x.t0 + c.time < t
    BY <1>1, <1>2, <1>4, <1>13
  <2>4. a.value => /\ top \in {0} \cup Changes(signal, t)
                   /\ Distance(Dft(x.t0), Dft(t)) * Decay <= top
    BY <1>5, <1>11, <2>1 DEF T
  <2> QED BY <2>1, <2>2, <2>3, <2>4 DEF a
<1> QED
  BY <1>12, <1>13

\* Of the others.
LEMMA OtherCall ==
  ASSUME NEW c \in Conditions, c.kind \in {"dft", "user"}, NEW x, History(signal, t),
         Remembers(c, x, signal, t, t)
  PROVE  Remembers(c, Verdict(c, x).closure, signal, t, t + 1)
<1>1. t \in 0..t
  BY DEF History
<1>2. x = [k \in VerdictNames |-> x[k]] /\ x.t0 \in 0..t
  BY DEF Remembers
<1>3. CASE c.kind = "user"
  <2>1. Verdict(c, x).closure = x
    BY <1>3 DEF Verdict, Answer
  <2> QED BY <1>2, <1>3, <2>1 DEF Remembers
<1>4. CASE c.kind = "dft"
  <2> DEFINE y == Verdict(c, x).closure
  <2>1. y = stop_when_dft_decayed(c, x).closure
    BY <1>4 DEF Verdict
  <2> HIDE DEF y
  <2>2. PICK dt, max : \/ y = [x EXCEPT !.dt = dt]
                       \/ y = [x EXCEPT !.dt = dt, !.maxchange = max, !.previous = {Dft(t)}]
                       \/ y = [[x EXCEPT !.dt = dt, !.maxchange = max, !.previous = {Dft(t)}]
                                 EXCEPT !.t0 = t]
    BY <2>1 DEF stop_when_dft_decayed, Answer
  <2>3. y = [k \in VerdictNames |-> y[k]] /\ y.t0 \in 0..t
    BY <1>1, <1>2, <2>2 DEF VerdictNames
  <2> QED BY <1>4, <2>3 DEF Remembers, y
<1> QED
  BY <1>3, <1>4

\* A call of any function keeps what its closure has to remember.
LEMMA CallRemembers ==
  ASSUME NEW c \in Conditions, ~IsNumber(c), NEW x, History(signal, t),
         Remembers(c, x, signal, t, t)
  PROVE  Remembers(c, Verdict(c, x).closure, signal, t, t + 1)
<1>1. CASE c.kind = "fields"
  <2>1. Verdict(c, x) = stop_when_fields_decayed(c, x)
    BY <1>1 DEF Verdict
  <2> QED BY <1>1, <2>1, FieldsCall
<1>2. CASE c.kind = "energy"
  <2>1. Verdict(c, x) = stop_when_energy_decayed(c, x)
    BY <1>2 DEF Verdict
  <2> QED BY <1>2, <2>1, EnergyCall
<1>3. CASE c.kind = "flux"
  <2>1. Verdict(c, x) = stop_when_flux_decayed(c, x)
    BY <1>3 DEF Verdict
  <2> QED BY <1>3, <2>1, FluxCall
<1>4. CASE c.kind \in {"dft", "user"}
  BY <1>4, OtherCall
<1>5. c.kind \in {"fields", "energy", "flux", "dft", "user"}
  BY DEF Conditions, IsNumber
<1> QED
  BY <1>1, <1>2, <1>3, <1>4, <1>5

\* What an answer stands for.
Measures(c) ==
  \E u \in 0..(t - c.time - 1) :
    CASE c.kind = "fields" ->
           \A v \in (u + 1)..t : v % c.interval = 0 =>
             \E s \in Samples(c, t) : signal[v + 1] * Decay <= s
      [] c.kind = "energy" -> \E v \in 0..t : Signal * Decay <= signal[v + 1]
      [] c.kind = "flux" ->
           \/ Dft(t) = Dft(u)
           \/ \E v, w \in 0..t :
                Distance(Dft(t), Dft(u)) * Decay <= Distance(Dft(v), Dft(w))

\* Decaying is monotonic, and only zero has decayed to zero.
LEMMA Product ==
  ASSUME NEW a \in Nat, NEW b \in Nat, a <= b, NEW m \in Nat, b * Decay <= m
  PROVE  a * Decay <= m /\ (m = 0 => a = 0 /\ b = 0 /\ a * Decay = 0)
<1>1. Decay \in Nat /\ Decay > 0
  BY Rates
<1>2. a * Decay <= b * Decay /\ a * Decay \in Nat /\ b * Decay \in Nat
  BY <1>1
<1>3. a > 0 => a * Decay > 0
  BY <1>1
<1>4. b > 0 => b * Decay > 0
  BY <1>1
<1> QED
  BY <1>2, <1>3, <1>4

\* A condition that answers yes has measured the decay.
LEMMA AnswerMeasures ==
  ASSUME NEW c \in Conditions, c.kind \in {"fields", "energy", "flux"}, NEW x,
         History(signal, t), Remembers(c, x, signal, t, t), Verdict(c, x).value
  PROVE  Measures(c)
<1>1. t \in Nat /\ c.time \in Nat /\ x.t0 \in 0..t /\ t \in 0..t
  BY DEF History, Conditions, Remembers
<1>2. ASSUME x.t0 + c.time < t
      PROVE  x.t0 \in 0..(t - c.time - 1)
  BY <1>1, <1>2
<1>3. CASE c.kind = "fields"
  <2> DEFINE T == Taken(signal, t, c.interval)
  <2>1. Verdict(c, x) = stop_when_fields_decayed(c, x)
    BY <1>3 DEF Verdict
  <2>2. x.t0 + c.time < t
    BY <1>3, <2>1, FieldsCall
  <2>3. PICK cur \in Nat, max \in {0} \cup T :
          /\ cur * Decay <= max
          /\ \A v \in (x.t0 + 1)..t : v % c.interval = 0 => signal[v + 1] <= cur
    BY <1>3, <2>1, FieldsCall
  <2>4. T = Samples(c, t) /\ T \subseteq Nat
    BY HistoryValues DEF Taken, Samples
  <2>5. ASSUME NEW v \in (x.t0 + 1)..t, v % c.interval = 0
        PROVE  \E s \in Samples(c, t) : signal[v + 1] * Decay <= s
    <3>1. signal[v + 1] <= cur /\ v \in 0..t
      BY <1>1, <2>3, <2>5
    <3>2. signal[v + 1] \in Nat
      BY <3>1, HistoryValues
    <3>3. max \in Nat
      BY <2>3, <2>4
    <3>4. signal[v + 1] * Decay <= max
          /\ (max = 0 => signal[v + 1] * Decay <= signal[v + 1])
      BY <2>3, <3>1, <3>2, <3>3, Product
    <3>5. signal[v + 1] \in T
      BY <2>5, <3>1 DEF Taken
    <3> QED BY <2>3, <2>4, <3>4, <3>5
  <2> QED BY <1>2, <1>3, <2>2, <2>5 DEF Measures
<1>4. CASE c.kind = "energy"
  <2>1. Verdict(c, x) = stop_when_energy_decayed(c, x)
    BY <1>4 DEF Verdict
  <2>2. x.t0 + c.time < t
    BY <1>4, <2>1, EnergyCall
  <2>3. PICK max \in {0} \cup Known(signal, t) : Signal * Decay <= max
    BY <1>4, <2>1, EnergyCall
  <2>4. Signal = signal[t + 1] /\ Signal \in Nat /\ max \in Nat
    BY <1>1, HistoryValues DEF Signal
  <2>5. max = 0 => Signal * Decay <= signal[t + 1]
    BY <2>3, <2>4, Product
  <2>6. \E v \in 0..t : Signal * Decay <= signal[v + 1]
    <3>1. CASE max = 0
      BY <1>1, <2>5, <3>1
    <3>2. CASE max # 0
      BY <2>3, <3>2 DEF Known
    <3> QED BY <3>1, <3>2
  <2> QED BY <1>2, <1>4, <2>2, <2>6 DEF Measures
<1>5. CASE c.kind = "flux"
  <2>1. Verdict(c, x) = stop_when_flux_decayed(c, x)
    BY <1>5 DEF Verdict
  <2>2. x.t0 + c.time < t
    BY <1>5, <2>1, FluxCall
  <2>3. PICK max \in {0} \cup Changes(signal, t) : Distance(Dft(x.t0), Dft(t)) * Decay <= max
    BY <1>5, <2>1, FluxCall
  <2>4. \A u \in 0..t : Dft(u) = DftOf(signal, u) /\ Dft(u) \in Nat
    <3>1. \A u : Dft(u) = DftOf(signal, u)
      BY DEF Dft, DftOf
    <3> QED BY <3>1, HistoryValues
  <2>5. /\ Dft(t) \in Nat /\ Dft(x.t0) \in Nat /\ max \in Nat
        /\ Distance(Dft(t), Dft(x.t0)) = Distance(Dft(x.t0), Dft(t))
        /\ Distance(Dft(t), Dft(x.t0)) \in Nat
        /\ (Distance(Dft(t), Dft(x.t0)) = 0 => Dft(t) = Dft(x.t0))
    <3>1. Dft(t) \in Nat /\ Dft(x.t0) \in Nat /\ max \in Nat
      BY <1>1, <2>4, HistoryValues
    <3> QED BY <3>1 DEF Distance
  <2>6. CASE max = 0
    <3>1. Distance(Dft(t), Dft(x.t0)) = 0
      BY <2>3, <2>5, <2>6, Product
    <3> QED BY <1>2, <1>5, <2>2, <2>5, <3>1 DEF Measures
  <2>7. CASE max # 0
    <3>1. PICK v \in 0..t, w \in 0..t : max = Distance(DftOf(signal, v), DftOf(signal, w))
      BY <2>3, <2>7 DEF Changes
    <3>2. Distance(Dft(t), Dft(x.t0)) * Decay <= Distance(Dft(v), Dft(w))
      BY <2>3, <2>4, <2>5, <3>1
    <3> QED BY <1>2, <1>5, <2>2, <3>2 DEF Measures
  <2> QED BY <2>6, <2>7
<1> QED
  BY <1>3, <1>4, <1>5

------------------------------------------------------------------------------
(* The list of conditions of a run.                                        *)

ScriptNames == {"program", "list", "asked", "made"}
RunNames == {"running", "ended", "after", "start", "stops"}

\* Signal, script and run are well formed, and the list of the script differs
\* from what it wrote in numbers that have become functions only.
Shape ==
  /\ ts \in Nat /\ History(signal, t)
  /\ script = [n \in ScriptNames |-> script[n]]
  /\ script.asked \in Seq(Conditions)
  /\ script.list = [i \in DOMAIN script.asked |-> script.list[i]]
  /\ \A i \in DOMAIN script.asked :
       \/ script.list[i] = script.asked[i]
       \/ IsNumber(script.asked[i]) /\ script.list[i].kind = "time"
  /\ verdicts = [i \in DOMAIN script.asked |-> verdicts[i]]
  /\ run = [n \in RunNames |-> run[n]]
  /\ run.running \in BOOLEAN /\ run.ended \in BOOLEAN /\ run.after \in BOOLEAN
  /\ run.start \in Nat

\* The stop of a run for each entry of the list.
Wanted(i) ==
  IF IsNumber(script.asked[i])
  THEN Until((IF run.after THEN ts ELSE run.start) + script.asked[i].time)
  ELSE Asked(i, run.after)

\* Conditions that remember may be asked in a run only if they have been since
\* time zero.
Attended(c) == c.kind \in {"fields", "energy", "dft", "flux"} => script.made = 0

\* What a run relies on.
RunInv ==
  run.running =>
    /\ ~run.ended
    /\ run.stops = [i \in DOMAIN script.asked |-> Wanted(i)]
    /\ \A i \in DOMAIN script.asked : Attended(script.asked[i])

\* What the conditions built at time zero remember.
MemoryInv ==
  script.made = 0 =>
    \A i \in DOMAIN script.asked : Remembers(script.asked[i], verdicts[i], signal, t, t)

StopInv == Shape /\ RunInv /\ MemoryInv

\* The answers of the first k entries, and the closures their calls leave.
CalledClosure(i) ==
  IF IsNumber(script.asked[i]) THEN verdicts[i]
  ELSE Verdict(script.asked[i], verdicts[i]).closure
FirstAnswers(k) ==
  [value |-> \E i \in 1..k : Holds(i),
   verdicts |-> [i \in DOMAIN script.asked |-> IF i <= k THEN CalledClosure(i) ELSE verdicts[i]]]

\* The list of a run is a list.
LEMMA ListIs ==
  ASSUME Shape
  PROVE  /\ Len(script.asked) \in Nat /\ DOMAIN script.asked = 1..Len(script.asked)
         /\ \A i \in DOMAIN script.asked : script.asked[i] \in Conditions
BY LenProperties DEF Shape

\* A call of the next entry.
LEMMA NextAnswer ==
  ASSUME Shape, NEW k \in Nat, k + 1 \in DOMAIN script.asked
  PROVE  CalledOnce(FirstAnswers(k), Wanted(k + 1)) = FirstAnswers(k + 1)
<1> DEFINE j == k + 1
           c == script.asked[j]
           L == DOMAIN script.asked
           A == FirstAnswers(k)
           B == FirstAnswers(j)
           before == \E i \in 1..k : Holds(i)
           V(n) == [i \in L |-> IF i <= n THEN CalledClosure(i) ELSE verdicts[i]]
<1>0. /\ L = 1..Len(script.asked) /\ Len(script.asked) \in Nat /\ j \in L /\ c \in Conditions
      /\ run.after \in BOOLEAN /\ ts \in Nat /\ t \in Nat /\ run.start \in Nat
  BY ListIs DEF Shape, History
<1>1. A = [value |-> before, verdicts |-> V(k)]
  BY DEF FirstAnswers
<1>2. (\E i \in 1..j : Holds(i)) <=> (before \/ Holds(j))
  <2>1. \A i \in 1..j : i \in 1..k \/ i = j
    OBVIOUS
  <2>2. \A i \in 1..k : i \in 1..j
    OBVIOUS
  <2>3. j \in 1..j
    OBVIOUS
  <2> HIDE DEF j
  <2> QED BY <2>1, <2>2, <2>3
<1>3. B = [value |-> (before \/ Holds(j)), verdicts |-> V(j)]
  <2> HIDE DEF j, before
  <2> QED BY <1>2 DEF FirstAnswers
<1>4. V(j) = [V(k) EXCEPT ![j] = CalledClosure(j)]
  <2>1. \A i \in L : (i <= j <=> (i <= k \/ i = j)) /\ ~ (j <= k)
    BY <1>0
  <2> HIDE DEF j
  <2> QED BY <1>0, <2>1
<1>5. V(k)[j] = verdicts[j]
  BY <1>0
<1> HIDE DEF A, B, before, V
<1>6. CASE IsNumber(c)
  <2> DEFINE end == (IF run.after THEN ts ELSE run.start) + c.time
  <2>1. Wanted(j) = Until(end)
    BY <1>6 DEF Wanted
  <2>2. Until(end).kind = "time" /\ Until(end).time = end
    BY DEF Until
  <2>3. Holds(j) <=> t >= end
    <3>1. c.time \in Nat
      BY <1>0 DEF Conditions
    <3> QED BY <1>0, <1>6, <3>1 DEF Holds
  <2> HIDE DEF end
  <2>4. CalledOnce(A, Wanted(j)) = [A EXCEPT !.value = A.value \/ t >= end]
    BY <2>1, <2>2 DEF CalledOnce
  <2>5. [A EXCEPT !.value = A.value \/ t >= end]
         = [value |-> (before \/ t >= end), verdicts |-> V(k)]
    <3>1. A.value = before
      BY <1>1
    <3> QED BY <1>1, <3>1
  <2>6. V(j) = V(k)
    <3>1. CalledClosure(j) = verdicts[j]
      BY <1>6 DEF CalledClosure
    <3>2. V(k) = [i \in L |-> V(k)[i]]
      BY DEF V
    <3> HIDE DEF j
    <3> QED BY <1>0, <1>4, <1>5, <3>1, <3>2
  <2>7. B = [value |-> (before \/ t >= end), verdicts |-> V(k)]
    <3> HIDE DEF j, c
    <3> QED BY <1>3, <2>3, <2>6
  <2> QED BY <2>4, <2>5, <2>7 DEF A, B
<1>7. CASE ~IsNumber(c)
  <2> DEFINE a == Verdict(c, verdicts[j])
             w == Wanted(j)
             counts == a.value /\ (~w.gated \/ t >= ts)
  <2>1. w = Asked(j, run.after)
    BY <1>7 DEF Wanted
  <2>2. w.kind = "call" /\ w.condition = j /\ w.gated = run.after
    BY <2>1 DEF Asked
  <2>3. script.list[j] = c
    BY <1>0, <1>7 DEF Shape
  <2>4. A.value = before /\ A.verdicts = V(k)
    BY <1>1
  <2>5. Holds(j) <=> counts
    BY <1>0, <1>7, <2>2 DEF Holds
  <2>6. CalledClosure(j) = a.closure
    BY <1>7 DEF CalledClosure
  <2>7. CalledOnce(A, w) = [value |-> A.value \/ counts,
                            verdicts |-> [A.verdicts EXCEPT ![j] = a.closure]]
    BY <1>5, <2>2, <2>3, <2>4 DEF CalledOnce
  <2> HIDE DEF counts, a, w, j
  <2>8. CalledOnce(A, w) = [value |-> (before \/ Holds(j)), verdicts |-> V(j)]
    BY <1>4, <2>4, <2>5, <2>6, <2>7
  <2> QED BY <1>3, <2>8 DEF A, B, w, j
<1> QED
  BY <1>6, <1>7

\* The loop asks every entry once, in order.
LEMMA AllAnswers ==
  ASSUME StopInv, run.running
  PROVE  /\ AnyStop.value <=> SomeHolds
         /\ AnyStop.verdicts = [i \in DOMAIN script.asked |-> CalledClosure(i)]
<1> DEFINE n == Len(run.stops)
           m == Len(script.asked)
           start == [value |-> FALSE, verdicts |-> verdicts]
           h(f, i) == IF i = 0 THEN start ELSE CalledOnce(f[i - 1], run.stops[i])
           IsLoop(f) == f = [i \in 0..n |-> h(f, i)]
           after == CHOOSE f : IsLoop(f)
           g == [i \in 0..n |-> FirstAnswers(i)]
<1>1. /\ Shape /\ m \in Nat /\ DOMAIN script.asked = 1..m
      /\ run.stops = [i \in 1..m |-> Wanted(i)] /\ verdicts = [i \in 1..m |-> verdicts[i]]
  BY ListIs DEF StopInv, Shape, RunInv
<1>2. n = m
  <2> HIDE DEF m
  <2>1. run.stops \in Seq({Wanted(i) : i \in 1..m})
    BY <1>1
  <2> QED BY <1>1, <2>1, LenProperties
<1>3. FirstAnswers(0) = start
  <2>1. ~ \E i \in 1..0 : Holds(i)
    OBVIOUS
  <2>2. [i \in DOMAIN script.asked |-> IF i <= 0 THEN CalledClosure(i) ELSE verdicts[i]] = verdicts
    <3> HIDE DEF m
    <3> QED BY <1>1
  <2> QED BY <2>1, <2>2 DEF FirstAnswers
<1>4. ASSUME NEW i \in 1..n
      PROVE  CalledOnce(FirstAnswers(i - 1), run.stops[i]) = FirstAnswers(i)
  <2>1. i - 1 \in Nat /\ (i - 1) + 1 = i /\ i \in DOMAIN script.asked
    BY <1>1, <1>2
  <2>2. run.stops[i] = Wanted(i)
    <3> HIDE DEF m
    <3> QED BY <1>1, <2>1
  <2>3. CalledOnce(FirstAnswers(i - 1), Wanted((i - 1) + 1)) = FirstAnswers((i - 1) + 1)
    <3> DEFINE k == i - 1
    <3>1. k \in Nat /\ k + 1 \in DOMAIN script.asked
      BY <2>1
    <3> HIDE DEF k
    <3>2. CalledOnce(FirstAnswers(k), Wanted(k + 1)) = FirstAnswers(k + 1)
      BY <1>1, <3>1, NextAnswer
    <3> QED BY <3>2 DEF k
  <2> QED BY <2>1, <2>2, <2>3
<1>5. IsLoop(g)
  <2>1. ASSUME NEW i \in 0..n PROVE h(g, i) = FirstAnswers(i)
    <3>1. CASE i = 0
      BY <1>3, <3>1
    <3>2. CASE i # 0
      <4>1. i \in 1..n /\ i - 1 \in 0..n
        BY <1>1, <1>2, <3>2
      <4>2. g[i - 1] = FirstAnswers(i - 1)
        BY <4>1
      <4> HIDE DEF g, start, n
      <4> QED BY <1>4, <3>2, <4>1, <4>2
    <3> QED BY <3>1, <3>2
  <2>2. [i \in 0..n |-> h(g, i)] = [i \in 0..n |-> FirstAnswers(i)]
    <3> HIDE DEF g, h, n
    <3> QED BY <2>1
  <2> QED BY <2>2
<1>6. IsLoop(after)
  <2> HIDE DEF IsLoop
  <2> QED BY <1>5
<1>7. AnyStop = after[n]
  BY DEF AnyStop
<1>8. \A i \in 0..n : after[i] = h(after, i)
  <2> HIDE DEF h, after
  <2> QED BY <1>6
<1> HIDE DEF after, g
<1> DEFINE S == {k \in Nat : k <= n => after[k] = FirstAnswers(k)}
<1>9. S = Nat
  <2>1. 0 \in S
    <3>1. 0 \in 0..n
      BY <1>1, <1>2
    <3>2. after[0] = start
      BY <1>8, <3>1
    <3> HIDE DEF start
    <3> QED BY <1>3, <3>2
  <2>2. ASSUME NEW k \in S PROVE k + 1 \in S
    <3>1. SUFFICES ASSUME k + 1 <= n PROVE after[k + 1] = FirstAnswers(k + 1)
      BY DEF S
    <3>2. k \in Nat /\ k + 1 \in 0..n /\ k + 1 \in 1..n /\ (k + 1) - 1 = k /\ k <= n
      BY <1>1, <1>2, <3>1
    <3>3. after[k] = FirstAnswers(k)
      BY <3>2
    <3>4. after[k + 1] = CalledOnce(after[k], run.stops[k + 1])
      BY <1>8, <3>2
    <3> QED BY <1>4, <3>2, <3>3, <3>4
  <2> HIDE DEF S
  <2>3. S \subseteq Nat
    BY DEF S
  <2> QED BY <2>1, <2>2, <2>3, SetInduction
<1>10. AnyStop = FirstAnswers(m)
  <2>1. n \in Nat
    BY <1>1, <1>2
  <2> HIDE DEF n
  <2>2. after[n] = FirstAnswers(n)
    BY <1>9, <2>1
  <2> QED BY <1>2, <1>7, <2>2
<1> HIDE DEF m
<1>11. AnyStop.value <=> SomeHolds
  BY <1>1, <1>10 DEF FirstAnswers, SomeHolds
<1>12. AnyStop.verdicts = [i \in 1..m |-> IF i <= m THEN CalledClosure(i) ELSE verdicts[i]]
  BY <1>1, <1>10 DEF FirstAnswers
<1>13. [i \in 1..m |-> IF i <= m THEN CalledClosure(i) ELSE verdicts[i]]
         = [i \in 1..m |-> CalledClosure(i)]
  BY <1>1
<1> QED
  BY <1>1, <1>11, <1>12, <1>13

------------------------------------------------------------------------------
(* The steps of a careful script.                                          *)

\* A script that has just been built.
LEMMA NewScriptIs ==
  ASSUME NEW s \in Scripts, t \in Nat
  PROVE  LET w == NewScript(s)
         IN  /\ w = [n \in ScriptNames |-> w[n]]
             /\ w.asked \in Seq(Conditions) /\ w.list = w.asked /\ w.made = t
             /\ w.list = [i \in DOMAIN w.asked |-> w.list[i]]
             /\ w.asked = s.list
<1>1. s.list \in Seq(Conditions)
  BY ConditionsAssumption
<1>2. NewScript(s) = [n \in ScriptNames |-> NewScript(s)[n]]
  BY DEF NewScript, ScriptNames
<1> QED
  BY <1>1, <1>2 DEF NewScript

\* No run.
LEMMA NoRunIs ==
  /\ NoRun = [n \in RunNames |-> NoRun[n]]
  /\ ~NoRun.running /\ ~NoRun.ended /\ NoRun.running \in BOOLEAN /\ NoRun.ended \in BOOLEAN
  /\ NoRun.after \in BOOLEAN /\ NoRun.start \in Nat
BY DEF NoRun, RunNames

\* The start of the signal.
LEMMA FirstSignal ==
  ASSUME NEW v \in Levels
  PROVE  History(<<v>>, 0)
<1>1. v \in Nat
  BY SignalAssumption
<1> QED
  BY <1>1 DEF History

\* The first script of a session.
LEMMA StopStarts ==
  ASSUME StopInit
  PROVE  StopInv
<1>1. PICK s \in Scripts : script = NewScript(s) /\ verdicts = NewVerdicts(s.list)
  BY DEF StopInit
<1>2. t = 0 /\ ts \in Nat /\ run = NoRun /\ \E v \in Levels : signal = <<v>>
  BY SignalAssumption DEF StopInit
<1>3. History(signal, t)
  BY <1>2, FirstSignal
<1>4. /\ script = [n \in ScriptNames |-> script[n]]
      /\ script.asked \in Seq(Conditions) /\ script.list = script.asked
      /\ script.list = [i \in DOMAIN script.asked |-> script.list[i]]
      /\ script.asked = s.list
  BY <1>1, <1>2, NewScriptIs
<1>5. verdicts = [i \in DOMAIN script.asked |-> NewVerdict]
  BY <1>1, <1>4 DEF NewVerdicts
<1>6. verdicts = [i \in DOMAIN script.asked |-> verdicts[i]]
      /\ \A i \in DOMAIN script.asked : verdicts[i] = NewVerdict
  BY <1>5
<1>7. Shape
  BY <1>2, <1>3, <1>4, <1>6, NoRunIs DEF Shape
<1>8. MemoryInv
  BY <1>2, <1>6, RemembersNothing DEF MemoryInv
<1>9. RunInv
  BY <1>2, NoRunIs DEF RunInv
<1> QED
  BY <1>7, <1>8, <1>9 DEF StopInv

\* A script built at time zero remembers all there was; one built later may
\* not ask a condition that remembers.
LEMMA BuildKeeps ==
  ASSUME StopInv, BuildStops
  PROVE  StopInv'
<1>1. PICK s \in Scripts : script' = NewScript(s) /\ verdicts' = NewVerdicts(s.list)
  BY DEF BuildStops
<1>2. t' = t /\ ts' = ts /\ signal' = signal /\ run' = NoRun
  BY DEF BuildStops
<1>3. ts \in Nat /\ History(signal, t) /\ t \in Nat
  BY DEF StopInv, Shape, History
<1>4. /\ script' = [n \in ScriptNames |-> script'[n]]
      /\ script'.asked \in Seq(Conditions) /\ script'.list = script'.asked
      /\ script'.list = [i \in DOMAIN script'.asked |-> script'.list[i]]
      /\ script'.asked = s.list /\ script'.made = t
  BY <1>1, <1>3, NewScriptIs
<1>5. verdicts' = [i \in DOMAIN script'.asked |-> NewVerdict]
  BY <1>1, <1>4 DEF NewVerdicts
<1>6. verdicts' = [i \in DOMAIN script'.asked |-> verdicts'[i]]
      /\ \A i \in DOMAIN script'.asked : verdicts'[i] = NewVerdict
  BY <1>5
<1>7. Shape'
  BY <1>2, <1>3, <1>4, <1>6, NoRunIs DEF Shape
<1>8. MemoryInv'
  BY <1>2, <1>4, <1>6, RemembersNothing DEF MemoryInv
<1>9. RunInv'
  BY <1>2, NoRunIs DEF RunInv
<1> QED
  BY <1>7, <1>8, <1>9 DEF StopInv

\* With at most one number in the list the last of them is that one.
LEMMA OneNumber ==
  ASSUME NEW list, NEW n \in Nat, DOMAIN list = 1..n, Cardinality(Numbers(list)) <= 1,
         NEW i \in Numbers(list)
  PROVE  LastOf(Numbers(list)) = i
<1> DEFINE N == Numbers(list)
<1>1. IsFiniteSet(N)
  <2>1. IsFiniteSet(1..n) /\ N \subseteq 1..n
    BY FS_Interval DEF Numbers
  <2> QED BY <2>1, FS_Subset
<1>2. \A j \in N : j = i
  <2> SUFFICES ASSUME NEW j \in N, j # i PROVE FALSE
    OBVIOUS
  <2>1. IsFiniteSet({i}) /\ Cardinality({i}) = 1
    BY FS_Singleton
  <2>2. {i} \subseteq N
    OBVIOUS
  <2> HIDE DEF N
  <2>3. Cardinality(N) \in Nat
    BY <1>1, FS_CardinalityType
  <2>4. Cardinality(N) <= 1
    BY DEF N
  <2>5. Cardinality({i}) <= Cardinality(N) /\ (Cardinality(N) = Cardinality({i}) => N = {i})
    BY <1>1, <2>2, FS_Subset
  <2> QED BY <2>1, <2>3, <2>4, <2>5
<1>3. \A j \in N : j \in Nat
  BY DEF Numbers
<1> HIDE DEF N
<1>4. N = {i}
  BY <1>2 DEF N
<1>5. i \in Nat
  BY <1>3, <1>4
<1> QED
  BY <1>4, <1>5 DEF LastOf, N

\* A run of a careful list: its stops are those that are wanted, also those that
\* read the last number or the last entry.
LEMMA RunKeeps ==
  ASSUME StopInv, Careful, NEW after \in BOOLEAN, RunStops(after)
  PROVE  StopInv'
<1> DEFINE L == script.list
           n == Len(script.asked)
<1>1. /\ t' = t /\ ts' = ts /\ signal' = signal /\ verdicts' = verdicts
      /\ run' = [running |-> TRUE, ended |-> FALSE, after |-> after, start |-> t,
                 stops |-> IF after THEN SourceStops(L, t) ELSE Stops(L, t)]
      /\ script' = IF after THEN script ELSE [script EXCEPT !.list = Rewritten(L, t)]
      /\ FewConditions(after) /\ FreshConditions
  BY DEF RunStops, CarefulStops
<1>2. Shape /\ MemoryInv /\ ts \in Nat /\ History(signal, t) /\ t \in Nat
      /\ n \in Nat /\ DOMAIN script.asked = 1..n /\ L = [i \in 1..n |-> L[i]]
      /\ L \in Seq(Conditions) /\ L = script.asked /\ Len(L) = n
      /\ script = [x \in ScriptNames |-> script[x]]
      /\ verdicts = [i \in 1..n |-> verdicts[i]]
  BY <1>1, ListIs DEF StopInv, Shape, History, FreshConditions
<1>3. ASSUME NEW i \in 1..n, IsNumber(L[i]) PROVE LastOf(Numbers(L)) = i
  <2>1. i \in Numbers(L)
    BY <1>2, <1>3 DEF Numbers
  <2>2. Cardinality(Numbers(L)) <= 1
    BY <1>1 DEF FewConditions
  <2> HIDE DEF L, n
  <2> QED BY <1>2, <2>1, <2>2, OneNumber
<1>4. /\ run' = [x \in RunNames |-> run'[x]]
      /\ run'.running = TRUE /\ run'.ended = FALSE /\ run'.after = after /\ run'.start = t
      /\ run'.stops = IF after THEN SourceStops(L, t) ELSE Stops(L, t)
  <2> HIDE DEF L
  <2> QED BY <1>1 DEF RunNames
<1>5. /\ script' = [x \in ScriptNames |-> script'[x]]
      /\ script'.asked = script.asked /\ script'.made = script.made
      /\ script'.list = IF after THEN L ELSE Rewritten(L, t)
  <2> HIDE DEF n
  <2> QED BY <1>1, <1>2 DEF ScriptNames
<1>6. /\ script'.list = [i \in 1..n |-> script'.list[i]]
      /\ \A i \in 1..n : \/ script'.list[i] = L[i]
                         \/ IsNumber(L[i]) /\ script'.list[i].kind = "time"
  <2>1. CASE script'.list = L
    BY <1>2, <2>1
  <2>2. CASE script'.list # L
    <3> DEFINE time == t + L[LastOf(Numbers(L))].time
    <3>1. script'.list = [i \in 1..n |-> IF IsNumber(L[i]) THEN Stops(L, t)[i] ELSE L[i]]
      BY <1>2, <1>5, <2>2 DEF Rewritten
    <3>2. \A i \in 1..n : IsNumber(L[i]) => Stops(L, t)[i] = Until(time)
      <4>1. DOMAIN L = 1..n
        BY <1>2
      <4> QED BY <4>1 DEF Stops
    <3> HIDE DEF time, L, n
    <3>3. Until(time).kind = "time"
      BY DEF Until
    <3> QED BY <3>1, <3>2, <3>3
  <2> QED BY <2>1, <2>2
<1>7. Shape'
  <2> HIDE DEF L
  <2>1. (ts \in Nat /\ History(signal, t))' /\ script'.asked \in Seq(Conditions)
    BY <1>1, <1>2, <1>5
  <2>2. DOMAIN script'.asked = 1..n /\ script'.asked = L
    BY <1>2, <1>5
  <2> HIDE DEF n
  <2>3. script'.list = [i \in DOMAIN script'.asked |-> script'.list[i]]
        /\ \A i \in DOMAIN script'.asked :
             \/ script'.list[i] = script'.asked[i]
             \/ IsNumber(script'.asked[i]) /\ script'.list[i].kind = "time"
    BY <1>6, <2>2 DEF IsNumber
  <2>4. verdicts' = [i \in DOMAIN script'.asked |-> verdicts'[i]]
    BY <1>1, <1>2, <2>2
  <2>5. run' = [x \in RunNames |-> run'[x]] /\ run'.running \in BOOLEAN
        /\ run'.ended \in BOOLEAN /\ run'.after \in BOOLEAN /\ run'.start \in Nat
    BY <1>2, <1>4
  <2> QED BY <1>5, <2>1, <2>3, <2>4, <2>5 DEF Shape
<1>8. \A i \in 1..n :
        /\ after => SourceStops(L, t)[i]
                     = IF IsNumber(L[i]) THEN Until(ts + L[i].time) ELSE Asked(i, TRUE)
        /\ ~after => Stops(L, t)[i]
                      = IF IsNumber(L[i]) THEN Until(t + L[i].time) ELSE Asked(i, FALSE)
  <2> TAKE i \in 1..n
  <2>0. i \in DOMAIN L
    BY <1>2
  <2>1. CASE IsNumber(L[i])
    BY <1>3, <2>0, <2>1 DEF SourceStops, Stops
  <2>2. CASE ~IsNumber(L[i])
    <3>1. after => i = Len(L)
      <4> HAVE after
      <4>1. \/ Len(L) = 1
            \/ \A j \in DOMAIN L : IsNumber(L[j]) <=> j < Len(L)
        BY <1>1 DEF FewConditions
      <4> HIDE DEF L, n
      <4> QED BY <1>2, <2>0, <2>2, <4>1
    <3> QED BY <2>0, <2>2, <3>1 DEF SourceStops, Stops
  <2> QED BY <2>1, <2>2
<1>9. RunInv'
  <2>1. run'.stops = [i \in 1..n |-> Wanted(i)']
    <3>1. run'.stops = [i \in 1..n |-> run'.stops[i]]
      <4>1. DOMAIN L = 1..n
        BY <1>2
      <4> HIDE DEF L, n
      <4> QED BY <1>4, <4>1 DEF SourceStops, Stops
    <3>2. \A i \in 1..n : run'.stops[i] = Wanted(i)'
      <4> TAKE i \in 1..n
      <4>1. Wanted(i)' = IF IsNumber(L[i])
                         THEN Until((IF after THEN ts ELSE t) + L[i].time)
                         ELSE Asked(i, after)
        BY <1>1, <1>2, <1>4, <1>5 DEF Wanted
      <4> HIDE DEF L, n
      <4>2. CASE after
        BY <1>4, <1>8, <4>1, <4>2
      <4>3. CASE ~after
        <5>1. after = FALSE
          BY <4>3
        <5> QED BY <1>4, <1>8, <4>1, <5>1
      <4> QED BY <4>2, <4>3
    <3> HIDE DEF n
    <3> QED BY <3>1, <3>2
  <2>2. \A i \in 1..n : Attended(script.asked[i])'
    BY <1>1, <1>2, <1>5 DEF FreshConditions, Attended
  <2>3. DOMAIN script'.asked = 1..n
    BY <1>2, <1>5
  <2>4. ~run'.ended
    BY <1>4
  <2> HIDE DEF n
  <2> QED BY <2>1, <2>2, <2>3, <2>4 DEF RunInv
<1>10. MemoryInv'
  BY <1>1, <1>2, <1>5 DEF MemoryInv
<1> QED
  BY <1>7, <1>9, <1>10 DEF StopInv

\* The closures after a call of each condition.
LEMMA CalledMemory ==
  ASSUME StopInv, script.made = 0, NEW i \in DOMAIN script.asked
  PROVE  Remembers(script.asked[i], CalledClosure(i), signal, t, t + 1)
<1> DEFINE c == script.asked[i]
           x == verdicts[i]
<1>1. c \in Conditions /\ History(signal, t) /\ Remembers(c, x, signal, t, t)
  BY ListIs DEF StopInv, Shape, MemoryInv
<1>2. CASE IsNumber(c)
  <2>1. CalledClosure(i) = x
    BY <1>2 DEF CalledClosure
  <2>2. c.kind # "fields" /\ c.kind # "energy" /\ c.kind # "flux"
    BY <1>2 DEF IsNumber
  <2> HIDE DEF c, x
  <2>3. Remembers(c, x, signal, t, t + 1)
    BY <1>1, <2>2 DEF Remembers
  <2> QED BY <2>1, <2>3 DEF c
<1>3. CASE ~IsNumber(c)
  <2>1. CalledClosure(i) = Verdict(c, x).closure
    BY <1>3 DEF CalledClosure
  <2> HIDE DEF c, x
  <2>2. Remembers(c, Verdict(c, x).closure, signal, t, t + 1)
    BY <1>1, <1>3, CallRemembers
  <2> QED BY <2>1, <2>2 DEF c
<1> QED
  BY <1>2, <1>3

\* Every condition is asked before a time step.
LEMMA GoOnKeeps ==
  ASSUME StopInv, GoOn
  PROVE  StopInv'
<1>1. /\ run.running /\ verdicts' = AnyStop.verdicts /\ t' = t + 1
      /\ ts' = ts /\ script' = script /\ run' = run
  BY DEF GoOn
<1>2. PICK v \in Levels : signal' = Append(signal, v)
  BY DEF GoOn
<1>3. verdicts' = [i \in DOMAIN script.asked |-> CalledClosure(i)]
  BY <1>1, AllAnswers
<1>4. History(signal, t) /\ v \in Nat /\ t \in Nat
  BY SignalAssumption DEF StopInv, Shape, History
<1>5. History(signal', t')
  BY <1>1, <1>2, <1>4, HistoryGrows
<1>6. verdicts' = [i \in DOMAIN script'.asked |-> verdicts'[i]]
  BY <1>1, <1>3
<1>7. Shape'
  BY <1>1, <1>5, <1>6 DEF StopInv, Shape
<1>8. RunInv'
  BY <1>1 DEF StopInv, RunInv, Wanted, Attended
<1>9. MemoryInv'
  <2> SUFFICES ASSUME script.made = 0, NEW i \in DOMAIN script.asked
               PROVE  Remembers(script.asked[i], verdicts'[i], signal', t', t')
    BY <1>1 DEF MemoryInv
  <2>1. Remembers(script.asked[i], CalledClosure(i), signal, t, t + 1)
    BY CalledMemory
  <2>2. Remembers(script.asked[i], CalledClosure(i), signal', t', t')
    BY <1>1, <1>2, <1>4, <2>1, RemembersNext
  <2> QED BY <1>3, <2>2
<1> QED
  BY <1>7, <1>8, <1>9 DEF StopInv

\* Every condition is asked at the end of a run.
LEMMA StopKeeps ==
  ASSUME StopInv, Stop
  PROVE  StopInv'
<1>1. /\ run.running /\ verdicts' = AnyStop.verdicts
      /\ t' = t /\ ts' = ts /\ script' = script /\ signal' = signal
      /\ run' = [run EXCEPT !.running = FALSE, !.ended = TRUE]
  BY DEF Stop
<1>2. verdicts' = [i \in DOMAIN script.asked |-> CalledClosure(i)]
  BY <1>1, AllAnswers
<1>3. Shape /\ run = [n \in RunNames |-> run[n]] /\ t \in Nat
  BY DEF StopInv, Shape, History
<1>4. /\ run' = [n \in RunNames |-> run'[n]] /\ run'.running = FALSE /\ run'.ended = TRUE
      /\ run'.after = run.after /\ run'.start = run.start
  BY <1>1, <1>3 DEF RunNames
<1>5. verdicts' = [i \in DOMAIN script'.asked |-> verdicts'[i]]
  BY <1>1, <1>2
<1>6. Shape'
  BY <1>1, <1>3, <1>4, <1>5 DEF Shape
<1>7. RunInv'
  BY <1>4 DEF RunInv
<1>8. MemoryInv'
  <2> SUFFICES ASSUME script.made = 0, NEW i \in DOMAIN script.asked
               PROVE  Remembers(script.asked[i], verdicts'[i], signal, t, t)
    BY <1>1 DEF MemoryInv
  <2>1. Remembers(script.asked[i], CalledClosure(i), signal, t, t + 1)
    BY CalledMemory
  <2>2. Remembers(script.asked[i], CalledClosure(i), signal, t, t)
    BY <1>3, <2>1, RemembersLess
  <2> QED BY <1>2, <2>2
<1> QED
  BY <1>6, <1>7, <1>8 DEF StopInv

\* An exception leaves the conditions as they are.
LEMMA GiveUpKeeps ==
  ASSUME StopInv, GiveUp
  PROVE  StopInv'
<1>1. /\ t' = t /\ ts' = ts /\ script' = script /\ signal' = signal /\ verdicts' = verdicts
      /\ run' = [run EXCEPT !.running = FALSE]
  BY DEF GiveUp
<1>2. Shape /\ run = [n \in RunNames |-> run[n]]
  BY DEF StopInv, Shape
<1>3. /\ run' = [n \in RunNames |-> run'[n]] /\ run'.running = FALSE /\ run'.ended = run.ended
      /\ run'.after = run.after /\ run'.start = run.start
  BY <1>1, <1>2 DEF RunNames
<1>4. Shape'
  BY <1>1, <1>2, <1>3 DEF Shape
<1>5. RunInv' /\ MemoryInv'
  BY <1>1, <1>3 DEF StopInv, RunInv, MemoryInv
<1> QED
  BY <1>4, <1>5 DEF StopInv

\* After restart_fields no condition may be asked again.
LEMMA RestartKeeps ==
  ASSUME StopInv, RestartTime
  PROVE  StopInv'
<1>1. /\ t' = 0 /\ ts' = ts /\ verdicts' = verdicts /\ run' = NoRun
      /\ script' = [script EXCEPT !.made = Stale]
  BY DEF RestartTime
<1>2. PICK v \in Levels : signal' = <<v>>
  BY DEF RestartTime
<1>3. Shape /\ script = [n \in ScriptNames |-> script[n]]
  BY DEF StopInv, Shape
<1>4. /\ script' = [n \in ScriptNames |-> script'[n]]
      /\ script'.list = script.list /\ script'.asked = script.asked /\ script'.made = Stale
  BY <1>1, <1>3 DEF ScriptNames
<1>5. History(signal', t')
  BY <1>1, <1>2, FirstSignal
<1>6. Shape'
  <2>1. /\ ts' \in Nat /\ script'.asked \in Seq(Conditions)
        /\ script'.list = [i \in DOMAIN script'.asked |-> script'.list[i]]
        /\ verdicts' = [i \in DOMAIN script'.asked |-> verdicts'[i]]
    BY <1>1, <1>3, <1>4 DEF Shape
  <2>2. \A i \in DOMAIN script'.asked :
          \/ script'.list[i] = script'.asked[i]
          \/ IsNumber(script'.asked[i]) /\ script'.list[i].kind = "time"
    BY <1>3, <1>4 DEF Shape
  <2>3. /\ run' = [n \in RunNames |-> run'[n]] /\ run'.running \in BOOLEAN
        /\ run'.ended \in BOOLEAN /\ run'.after \in BOOLEAN /\ run'.start \in Nat
    BY <1>1, NoRunIs
  <2> QED BY <1>4, <1>5, <2>1, <2>2, <2>3 DEF Shape
<1>7. RunInv' /\ MemoryInv'
  BY <1>1, <1>4, NoRunIs DEF RunInv, MemoryInv, Stale
<1> QED
  BY <1>6, <1>7 DEF StopInv

\* Every step of a careful script.
LEMMA StopSteps ==
  ASSUME StopInv, Careful, [StopNext]_stopVars
  PROVE  StopInv'
<1>1. CASE BuildStops
  BY <1>1, BuildKeeps
<1>2. ASSUME NEW after \in BOOLEAN, RunStops(after) PROVE StopInv'
  BY <1>2, RunKeeps
<1>3. CASE GoOn
  BY <1>3, GoOnKeeps
<1>4. CASE Stop
  BY <1>4, StopKeeps
<1>5. CASE GiveUp
  BY <1>5, GiveUpKeeps
<1>6. CASE RestartTime
  BY <1>6, RestartKeeps
<1>7. CASE UNCHANGED stopVars
  BY <1>7 DEF stopVars, StopInv, Shape, RunInv, MemoryInv, Wanted, Attended
<1> QED
  BY <1>1, <1>2, <1>3, <1>4, <1>5, <1>6, <1>7 DEF StopNext

\* While a careful script is in a run, its stops are those of the list it
\* wrote, and what a condition built at time zero remembers is what it would
\* if it had been asked at each time (_run_until, _run_sources_until, and the
\* closures of stop_when_fields_decayed and the others).
THEOREM StopInvariant ==
  ASSUME Careful
  PROVE  StopSpec => []StopInv
<1>1. StopInit => StopInv
  BY StopStarts
<1>2. StopInv /\ [StopNext]_stopVars => StopInv'
  BY StopSteps
<1> QED
  BY <1>1, <1>2, PTL DEF StopSpec

\* A careful script is never told that a signal has decayed when it has not,
\* in however many runs it asks: the window before an answer is as long as it
\* wanted (stop_when_fields_decayed, stop_when_energy_decayed,
\* stop_when_flux_decayed).
THEOREM AlwaysMeasured ==
  ASSUME Careful
  PROVE  StopSpec => []DecayWasMeasured
<1>1. ASSUME StopInv PROVE DecayWasMeasured
  <2> SUFFICES ASSUME run.running, NEW i \in DOMAIN script.list,
                      script.list[i].kind \in {"fields", "energy", "flux"},
                      Verdict(script.list[i], verdicts[i]).value
               PROVE  Measures(script.list[i])
    BY DEF DecayWasMeasured, Measures
  <2>1. /\ Shape /\ History(signal, t) /\ i \in DOMAIN script.asked
        /\ script.list[i] = script.asked[i]
    BY <1>1 DEF StopInv, Shape
  <2>2. script.asked[i] \in Conditions /\ Attended(script.asked[i])
    BY <1>1, <2>1, ListIs DEF StopInv, RunInv
  <2>3. script.made = 0
    BY <2>1, <2>2 DEF Attended
  <2>4. Remembers(script.asked[i], verdicts[i], signal, t, t)
    BY <1>1, <2>1, <2>3 DEF StopInv, MemoryInv
  <2> QED BY <2>1, <2>2, <2>4, AnswerMeasures
<1> QED
  BY <1>1, StopInvariant, PTL

\* A run of a careful script ends at the first time at which a condition it
\* was given holds: it makes no step from there, and none too few
\* (_run_until, _run_sources_until).
THEOREM StopsInTime ==
  ASSUME Careful
  PROVE  StopSpec => StopsAtTheFirstCondition
<1> DEFINE InTime == run.running => /\ run'.running => ~SomeHolds
                                    /\ run'.ended => SomeHolds
<1>1. ASSUME StopInv, [StopNext]_stopVars PROVE [InTime]_stopVars
  <2>1. SUFFICES ASSUME run.running, StopNext PROVE InTime
    BY <1>1
  <2>2. (AnyStop.value <=> SomeHolds) /\ ~run.ended
    BY <1>1, <2>1, AllAnswers DEF StopInv, RunInv
  <2>3. CASE GoOn
    BY <2>2, <2>3 DEF GoOn
  <2>4. CASE Stop
    <3>1. run'.running = FALSE /\ AnyStop.value
      <4>1. run = [n \in RunNames |-> run[n]]
        BY <1>1 DEF StopInv, Shape
      <4> QED BY <2>4, <4>1 DEF Stop, RunNames
    <3> QED BY <2>2, <3>1
  <2>5. CASE GiveUp
    <3>1. run'.running = FALSE /\ run'.ended = run.ended
      <4>1. run = [n \in RunNames |-> run[n]]
        BY <1>1 DEF StopInv, Shape
      <4> QED BY <2>5, <4>1 DEF GiveUp, RunNames
    <3> QED BY <2>2, <3>1
  <2> QED BY <2>1, <2>3, <2>4, <2>5 DEF StopNext, BuildStops, RunStops, RestartTime
<1>2. StopSpec => []StopInv
  BY StopInvariant
<1> QED
  BY <1>1, <1>2, PTL DEF StopSpec, StopsAtTheFirstCondition
=============================================================================
