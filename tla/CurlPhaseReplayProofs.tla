------------------------ MODULE CurlPhaseReplayProofs ------------------------
(***************************************************************************)
(* Proofs about CurlPhaseReplay for any chunks, addresses, devices and     *)
(* programs of curl operations.                                            *)
(***************************************************************************)
EXTENDS CurlPhaseReplay, SequenceTheorems, TLAPS

Mirror == [address : Addresses \cup {NoAddress}, dirty : BOOLEAN, uploaded : BOOLEAN,
           fresh : BOOLEAN, ahead : BOOLEAN, ordinal : Devices \cup {NoDevice}]

CurlOperation == [chunk : Chunks, param : Nat, address : Addresses \cup {NoAddress}]

Generations == UNION {[S -> BOOLEAN] : S \in SUBSET Chunks}

Plan == [table : Seq(CurlOperation), operations : Seq(CurlOperation),
         current : Generations, mode : Modes, topology : Topologies \cup {NoChunk},
         device : Devices \cup {NoDevice}, stable : Nat, complete : BOOLEAN]

Batch == [step : Nat \ {0}, operations : Seq(CurlOperation), mode : Modes,
          flushes : Nat, batched : Nat, forbidden : BOOLEAN]

(***************************************************************************)
(* The inductive invariant.  A mirror is trusted only when it is current,  *)
(* results are marked, a plan's addresses are right where its generations  *)
(* are, the operations collected so far are at the present addresses of    *)
(* dirty mirrors, and what was collected or recorded in this phase is the  *)
(* part of the program that the phase has come through.                    *)
(***************************************************************************)
MirrorInv(k) ==
  /\ k.ahead => k.dirty
  /\ k.dirty \/ k.uploaded => k.fresh /\ k.address # NoAddress

CacheInv(ca) == ca \in [Chunks -> Mirror] /\ \A c \in Chunks : MirrorInv(ca[c])

PlanInv(p, ca) ==
  /\ p \in Plan
  /\ p.table = p.operations
  /\ DOMAIN p.current = ChunksOf(p.operations)
  /\ \A i \in DOMAIN p.operations :
       p.current[p.operations[i].chunk] =>
         p.operations[i].address = ca[p.operations[i].chunk].address

BatchInv(b, ca) ==
  \A i \in DOMAIN b.operations :
    /\ ca[b.operations[i].chunk].dirty
    /\ b.operations[i].address = ca[b.operations[i].chunk].address

Matches(operations, t, n) ==
  /\ Len(operations) = n
  /\ \A i \in 1..n : /\ operations[i].chunk = Program[t][i].chunk
                     /\ operations[i].param = Program[t][i].param

NextIsDirect(b, t) == b.step <= Len(Program[t]) => Program[t][b.step].chunk = NoChunk

PhaseInv(b, p, t) ==
  /\ b.step <= Len(Program[t]) + 1
  /\ b.flushes = 0 => b.batched = 0
  /\ ~ b.forbidden /\ b.flushes = 0 => Matches(b.operations, t, b.step - 1)
  /\ ~ b.forbidden /\ b.flushes = 1 => b.operations = <<>> /\ NextIsDirect(b, t)
  /\ ~ b.forbidden /\ b.flushes = 1 /\ b.batched = 1 =>
       Matches(p.operations, t, b.step - 1) /\ p.topology = t

CompleteInv(p) ==
  p.complete => Matches(p.operations, p.topology, Len(Program[p.topology]))
                /\ p.topology \in Topologies

IInv ==
  /\ topology \in Topologies /\ selected \in Devices
  /\ pc \in {"outside", "ready", "collect", "direct"}
  /\ batch \in Batch
  /\ pc # "collect" => batch.operations = <<>>
  /\ pc \in {"ready"} => batch.step = 1 /\ batch.flushes = 0 /\ batch.batched = 0
  /\ CacheInv(cache)
  /\ PlanInv(plan, cache)
  /\ CompleteInv(plan)
  /\ pc = "collect" => BatchInv(batch, cache) /\ PhaseInv(batch, plan, topology)
  /\ LaunchesAreCurrent

-----------------------------------------------------------------------------
(* Mirrors.                                                                *)

\* A cache without a mirror.
LEMMA NoMirrorRow ==
  ASSUME NEW d \in Devices \cup {NoDevice}
  PROVE  NoMirror(d) \in Mirror /\ MirrorInv(NoMirror(d))
BY DEF NoMirror, Mirror, MirrorInv

\* Publishing keeps a mirror and where it is.
LEMMA PublishedRow ==
  ASSUME NEW k \in Mirror, MirrorInv(k)
  PROVE  /\ Published(k) \in Mirror
         /\ MirrorInv(Published(k))
         /\ Published(k).address = k.address
         /\ Published(k).ordinal = k.ordinal
         /\ ~ Published(k).ahead
BY DEF Published, Mirror, MirrorInv

\* A mirror that is ensured exists, is current, and has not moved.
LEMMA EnsuredRow ==
  ASSUME NEW k \in Mirror, MirrorInv(k), NEW a \in Addresses
  PROVE  /\ Ensured(k, a) \in Mirror
         /\ MirrorInv(Ensured(k, a))
         /\ Ensured(k, a).fresh
         /\ Ensured(k, a).address # NoAddress
         /\ k.address # NoAddress => Ensured(k, a).address = k.address
<1> DEFINE m == IF k.address = NoAddress THEN [k EXCEPT !.address = a] ELSE k
<1>1. /\ m \in Mirror /\ MirrorInv(m) /\ m.address # NoAddress
      /\ k.address # NoAddress => m.address = k.address
  BY ReplayAssumption DEF Mirror, MirrorInv
<1>2. CASE m.dirty \/ m.uploaded
  BY <1>1, <1>2 DEF Ensured, MirrorInv
<1>3. CASE ~ (m.dirty \/ m.uploaded)
  <2>1. Ensured(k, a) = [m EXCEPT !.uploaded = TRUE, !.fresh = TRUE]
    BY <1>3 DEF Ensured
  <2> HIDE DEF m
  <2>2. QED
    BY <1>1, <2>1 DEF Mirror, MirrorInv
<1>4. QED
  BY <1>2, <1>3

\* Marking the output of a kernel.
LEMMA MarkedRow ==
  ASSUME NEW k \in Mirror, MirrorInv(k), k.fresh, k.address # NoAddress,
         NEW x \in BOOLEAN
  PROVE  /\ [k EXCEPT !.dirty = TRUE, !.ahead = x] \in Mirror
         /\ MirrorInv([k EXCEPT !.dirty = TRUE, !.ahead = x])
BY DEF Mirror, MirrorInv

\* A cache moves to the device of the process without its mirror.
LEMMA OnDeviceRow ==
  ASSUME NEW k \in Mirror, MirrorInv(k), selected \in Devices
  PROVE  OnDevice(k) \in Mirror /\ MirrorInv(OnDevice(k))
BY NoMirrorRow DEF OnDevice, Mirror, MirrorInv

-----------------------------------------------------------------------------
(* Plans.                                                                  *)

\* The chunks of a sequence of operations.
LEMMA ChunksOfType ==
  ASSUME NEW operations \in Seq(CurlOperation)
  PROVE  /\ ChunksOf(operations) \in SUBSET Chunks
         /\ \A i \in DOMAIN operations :
              operations[i] \in CurlOperation /\ operations[i].chunk \in ChunksOf(operations)
<1>1. \A i \in DOMAIN operations : operations[i] \in CurlOperation
  OBVIOUS
<1>2. \A i \in DOMAIN operations : operations[i].chunk \in Chunks
  BY <1>1 DEF CurlOperation
<1>3. QED
  BY <1>1, <1>2 DEF ChunksOf

\* A sequence is the function of its elements.
LEMMA OperationsAsFunction ==
  ASSUME NEW operations \in Seq(CurlOperation)
  PROVE  operations = [i \in DOMAIN operations |-> operations[i]]
<1>1. PICK n \in Nat : operations \in [1..n -> CurlOperation]
  <2>1. operations \in [1..Len(operations) -> CurlOperation] /\ Len(operations) \in Nat
    BY LenProperties
  <2>2. QED
    BY <2>1
<1>2. QED
  BY <1>1

\* The empty plan.
LEMMA NoPlanInv ==
  ASSUME NEW ca
  PROVE  PlanInv(NoPlan, ca) /\ CompleteInv(NoPlan)
<1>1. [c \in {} |-> TRUE] \in [{} -> BOOLEAN]
  OBVIOUS
<1>2. NoPlan \in Plan
  BY <1>1 DEF NoPlan, Plan, Generations, Modes
<1>3. ChunksOf(<<>>) = {}
  BY DEF ChunksOf
<1>4. QED
  BY <1>2, <1>3 DEF NoPlan, PlanInv, CompleteInv

\* A plan follows a change of the caches: where the generation is still the
\* recorded one, the address is the present one.
LEMMA BumpedPlan ==
  ASSUME NEW p, PlanInv(p, cache), NEW new
  PROVE  /\ PlanInv(Bumped(p, new), new)
         /\ Bumped(p, new).operations = p.operations
         /\ Bumped(p, new).topology = p.topology
         /\ Bumped(p, new).complete = p.complete
         /\ CompleteInv(p) => CompleteInv(Bumped(p, new))
<1> DEFINE cur == [c \in DOMAIN p.current |->
                     /\ p.current[c]
                     /\ new[c].address = cache[c].address
                     /\ new[c].ordinal = cache[c].ordinal]
<1>1. Bumped(p, new) = [p EXCEPT !.current = cur]
  BY DEF Bumped, PlanInv, Plan
<1>2. cur \in Generations
  <2>1. p.current \in Generations
    BY DEF PlanInv, Plan
  <2>2. PICK S \in SUBSET Chunks : p.current \in [S -> BOOLEAN]
    BY <2>1 DEF Generations
  <2>3. cur \in [S -> BOOLEAN]
    BY <2>2
  <2>4. QED
    BY <2>3 DEF Generations
<1>3. \A i \in DOMAIN p.operations : p.operations[i].chunk \in DOMAIN p.current
  BY ChunksOfType DEF PlanInv, Plan
<1>4. DOMAIN cur = DOMAIN p.current
  OBVIOUS
<1>5. \A c \in DOMAIN p.current : cur[c] => p.current[c] /\ new[c].address = cache[c].address
  OBVIOUS
<1> HIDE DEF cur
<1>6. QED
  BY <1>1, <1>2, <1>3, <1>4, <1>5 DEF PlanInv, Plan, CompleteInv

\* Nothing of a plan depends on caches that keep their addresses.
LEMMA PlanKept ==
  ASSUME NEW p, PlanInv(p, cache), NEW new,
         \A c \in Chunks : new[c].address = cache[c].address
  PROVE  PlanInv(p, new)
<1>1. \A i \in DOMAIN p.operations : p.operations[i].chunk \in Chunks
  BY ChunksOfType DEF PlanInv, Plan, CurlOperation
<1>2. QED
  BY <1>1 DEF PlanInv

\* Making a plan incomplete.
LEMMA IncompletePlan ==
  ASSUME NEW ca, NEW p, PlanInv(p, ca)
  PROVE  /\ PlanInv(Incomplete(p), ca) /\ CompleteInv(Incomplete(p))
         /\ Incomplete(p).operations = p.operations
BY DEF Incomplete, PlanInv, Plan, CompleteInv

-----------------------------------------------------------------------------
(* Between the phases.                                                     *)

\* Outside of a phase the invariant rests on the mirrors and the plan alone.
LEMMA OutsideStep ==
  ASSUME IInv, Outside, topology' \in Topologies, selected' \in Devices,
         CacheInv(cache'), PlanInv(plan', cache'), CompleteInv(plan')
  PROVE  IInv'
BY DEF IInv, Outside, LaunchesAreCurrent

\* One cache changes, and the plan follows.
LEMMA OneCache ==
  ASSUME IInv, NEW c \in Chunks, NEW k \in Mirror, MirrorInv(k)
  PROVE  /\ CacheInv([cache EXCEPT ![c] = k])
         /\ PlanInv(Bumped(plan, [cache EXCEPT ![c] = k]), [cache EXCEPT ![c] = k])
         /\ CompleteInv(Bumped(plan, [cache EXCEPT ![c] = k]))
<1>1. CacheInv([cache EXCEPT ![c] = k])
  BY DEF IInv, CacheInv
<1>2. QED
  BY <1>1, BumpedPlan DEF IInv

\* Publishing for the host keeps every address.
LEMMA HostReadStep == ASSUME IInv, NEW c \in Chunks, HostRead(c) PROVE IInv'
<1>1. cache[c] \in Mirror /\ MirrorInv(cache[c])
  BY DEF IInv, CacheInv
<1>2. /\ Published(cache[c]) \in Mirror /\ MirrorInv(Published(cache[c]))
      /\ Published(cache[c]).address = cache[c].address
  BY <1>1, PublishedRow
<1>3. cache' = [cache EXCEPT ![c] = Published(cache[c])]
  BY DEF HostRead
<1>4. CacheInv(cache')
  BY <1>2, <1>3 DEF IInv, CacheInv
<1>5. \A x \in Chunks : cache'[x].address = cache[x].address
  BY <1>2, <1>3 DEF IInv, CacheInv
<1>6. PlanInv(plan', cache') /\ CompleteInv(plan')
  BY <1>5, PlanKept DEF HostRead, IInv
<1>7. QED
  BY <1>4, <1>6, OutsideStep DEF HostRead, IInv

\* A write of the host leaves a clean mirror that is no longer trusted.
LEMMA HostWriteStep == ASSUME IInv, NEW c \in Chunks, HostWrite(c) PROVE IInv'
<1> DEFINE k == [Published(cache[c]) EXCEPT !.uploaded = FALSE, !.fresh = FALSE]
<1>1. cache[c] \in Mirror /\ MirrorInv(cache[c])
  BY DEF IInv, CacheInv
<1>2. k \in Mirror /\ MirrorInv(k) /\ k.address = cache[c].address
  BY <1>1 DEF Published, Mirror, MirrorInv
<1>3. cache' = [cache EXCEPT ![c] = k]
  BY DEF HostWrite
<1> HIDE DEF k
<1>4. CacheInv(cache')
  BY <1>2, <1>3 DEF IInv, CacheInv
<1>5. \A x \in Chunks : cache'[x].address = cache[x].address
  BY <1>2, <1>3 DEF IInv, CacheInv
<1>6. PlanInv(plan', cache') /\ CompleteInv(plan')
  BY <1>5, PlanKept DEF HostWrite, IInv
<1>7. QED
  BY <1>4, <1>6, OutsideStep DEF HostWrite, IInv

\* Another kernel may create the mirror of its array.
LEMMA OtherKernelStep == ASSUME IInv, NEW c \in Chunks, OtherKernel(c) PROVE IInv'
<1>1. PICK a \in Free :
        Become([cache EXCEPT ![c] = [Ensured(OnDevice(cache[c]), a)
                                       EXCEPT !.dirty = TRUE, !.ahead = TRUE]], plan)
  BY DEF OtherKernel
<1> DEFINE k == Ensured(OnDevice(cache[c]), a)
           marked == [k EXCEPT !.dirty = TRUE, !.ahead = TRUE]
<1>2. cache[c] \in Mirror /\ MirrorInv(cache[c]) /\ selected \in Devices /\ a \in Addresses
  BY DEF IInv, CacheInv, Free
<1>3. OnDevice(cache[c]) \in Mirror /\ MirrorInv(OnDevice(cache[c]))
  BY <1>2, OnDeviceRow
<1>4. k \in Mirror /\ MirrorInv(k) /\ k.fresh /\ k.address # NoAddress
  BY <1>2, <1>3, EnsuredRow
<1>5. Become([cache EXCEPT ![c] = marked], plan)
  BY <1>1
<1> HIDE DEF k
<1>6. marked \in Mirror /\ MirrorInv(marked)
  BY <1>4, MarkedRow
<1> HIDE DEF marked
<1>7. CacheInv(cache') /\ PlanInv(plan', cache') /\ CompleteInv(plan')
  BY <1>5, <1>6, OneCache DEF Become
<1>8. QED
  BY <1>7, OutsideStep DEF OtherKernel, IInv

\* A discarded mirror no longer has the generation of any plan.
LEMMA DiscardMirrorStep == ASSUME IInv, NEW c \in Chunks, DiscardMirror(c) PROVE IInv'
<1>1. cache[c].ordinal \in Devices \cup {NoDevice}
  BY DEF IInv, CacheInv, Mirror
<1>2. NoMirror(cache[c].ordinal) \in Mirror /\ MirrorInv(NoMirror(cache[c].ordinal))
  BY <1>1, NoMirrorRow
<1>3. Become([cache EXCEPT ![c] = NoMirror(cache[c].ordinal)], plan)
  BY DEF DiscardMirror
<1>4. CacheInv(cache') /\ PlanInv(plan', cache') /\ CompleteInv(plan')
  BY <1>2, <1>3, OneCache DEF Become
<1>5. QED
  BY <1>4, OutsideStep DEF DiscardMirror, IInv

\* A destroyed cache takes the plans that depend on it along.
LEMMA DestroyCacheStep == ASSUME IInv, NEW c \in Chunks, DestroyCache(c) PROVE IInv'
<1>1. cache' = [cache EXCEPT ![c] = NoMirror(NoDevice)]
  BY DEF DestroyCache
<1>2. CacheInv(cache')
  BY <1>1, NoMirrorRow DEF IInv, CacheInv
<1>3. PlanInv(plan', cache') /\ CompleteInv(plan')
  <2>1. CASE c \in DOMAIN plan.current
    BY <2>1, NoPlanInv DEF DestroyCache
  <2>2. CASE c \notin DOMAIN plan.current
    <3>1. plan' = plan
      BY <2>2 DEF DestroyCache
    <3>2. \A i \in DOMAIN plan.operations :
            plan.operations[i].chunk \in DOMAIN plan.current
      BY ChunksOfType DEF IInv, PlanInv, Plan
    <3>3. \A x \in Chunks \ {c} : cache'[x] = cache[x]
      BY <1>1 DEF IInv, CacheInv
    <3>4. DOMAIN plan.current \subseteq Chunks
      BY DEF IInv, PlanInv, Plan, Generations
    <3>5. QED
      BY <2>2, <3>1, <3>2, <3>3, <3>4 DEF IInv, PlanInv
  <2>3. QED
    BY <2>1, <2>2
<1>4. QED
  BY <1>2, <1>3, OutsideStep DEF DestroyCache, IInv

\* A reset cache takes the plan along.
LEMMA ResetCacheStep == ASSUME IInv, NEW c \in Chunks, ResetCache(c) PROVE IInv'
<1>1. cache[c].ordinal \in Devices \cup {NoDevice}
  BY DEF IInv, CacheInv, Mirror
<1>2. NoMirror(cache[c].ordinal) \in Mirror /\ MirrorInv(NoMirror(cache[c].ordinal))
  BY <1>1, NoMirrorRow
<1>3. cache' = [cache EXCEPT ![c] = NoMirror(cache[c].ordinal)] /\ plan' = NoPlan
  BY DEF ResetCache
<1>4. CacheInv(cache')
  BY <1>2, <1>3 DEF IInv, CacheInv
<1>5. QED
  BY <1>3, <1>4, NoPlanInv, OutsideStep DEF ResetCache, IInv

\* Selecting a device takes every plan along.
LEMMA SelectDeviceStep == ASSUME IInv, NEW d \in Devices, SelectDevice(d) PROVE IInv'
<1>1. ASSUME NEW c \in Chunks
      PROVE  /\ [Published(cache[c]) EXCEPT !.uploaded = FALSE] \in Mirror
             /\ MirrorInv([Published(cache[c]) EXCEPT !.uploaded = FALSE])
  <2>1. cache[c] \in Mirror /\ MirrorInv(cache[c])
    BY DEF IInv, CacheInv
  <2>2. QED
    BY <2>1 DEF Published, Mirror, MirrorInv
<1>2. CacheInv(cache')
  BY <1>1 DEF SelectDevice, CacheInv
<1>3. plan' = NoPlan /\ selected' \in Devices
  BY DEF SelectDevice
<1>4. QED
  BY <1>2, <1>3, NoPlanInv, OutsideStep DEF SelectDevice, IInv

\* A change of the chunks leaves the recorded plan, for another topology.
LEMMA ChangeTopologyStep ==
  ASSUME IInv, NEW t \in Topologies, ChangeTopology(t) PROVE IInv'
BY OutsideStep DEF ChangeTopology, IInv

-----------------------------------------------------------------------------
(* A phase.                                                                *)

\* The invariant at the end of a phase, however it ends.
LEMMA EndStep ==
  ASSUME IInv, UNCHANGED <<topology, selected>>, batch' = NoBatch, pc' = "outside",
         CacheInv(cache'), PlanInv(plan', cache'), CompleteInv(plan'),
         LaunchesAreCurrent'
  PROVE  IInv'
<1>1. <<>> \in Seq(CurlOperation)
  OBVIOUS
<1>2. NoBatch \in Batch /\ NoBatch.operations = <<>>
  BY <1>1 DEF NoBatch, Batch, Modes
<1>3. QED
  BY <1>2 DEF IInv

\* Launches are current when nothing was launched.
LEMMA NothingLaunched ==
  ASSUME LaunchesAreCurrent, UNCHANGED launch
  PROVE  LaunchesAreCurrent'
BY DEF LaunchesAreCurrent

\* The first state.
LEMMA Initial == Init => IInv
<1> SUFFICES ASSUME Init PROVE IInv
  OBVIOUS
<1>1. <<>> \in Seq(CurlOperation)
  OBVIOUS
<1>2. batch \in Batch /\ batch.operations = <<>>
  BY <1>1 DEF Init, NoBatch, Batch, Modes
<1>3. CacheInv(cache)
  BY NoMirrorRow DEF Init, CacheInv
<1>4. PlanInv(plan, cache) /\ CompleteInv(plan)
  BY NoPlanInv DEF Init
<1>5. LaunchesAreCurrent
  BY DEF Init, NoLaunch, LaunchesAreCurrent
<1>6. QED
  BY <1>2, <1>3, <1>4, <1>5 DEF Init, IInv

\* A phase begins with the caches on the device of the process.
LEMMA BeginPhaseStep ==
  ASSUME IInv, NEW m \in Modes, BeginPhase(m) PROVE IInv'
<1> DEFINE new == [c \in Chunks |-> OnDevice(cache[c])]
<1>1. CacheInv(new)
  BY OnDeviceRow DEF IInv, CacheInv
<1>2. cache' = new /\ plan' = Bumped(plan, new)
  BY DEF BeginPhase, Become
<1> HIDE DEF new
<1>3. CacheInv(cache') /\ PlanInv(plan', cache') /\ CompleteInv(plan')
  BY <1>1, <1>2, BumpedPlan DEF IInv
<1>4. <<>> \in Seq(CurlOperation)
  OBVIOUS
<1>5. /\ batch' \in Batch /\ batch'.operations = <<>> /\ batch'.step = 1
      /\ batch'.flushes = 0 /\ batch'.batched = 0
  <2>1. batch' = [step |-> 1, operations |-> <<>>, mode |-> m,
                  flushes |-> 0, batched |-> 0, forbidden |-> FALSE]
    BY DEF BeginPhase, NoBatch
  <2>2. QED
    BY <1>4, <2>1 DEF Batch
<1>6. LaunchesAreCurrent'
  BY DEF BeginPhase, NoLaunch, LaunchesAreCurrent
<1>7. pc' \in {"ready", "direct"}
  BY DEF BeginPhase
<1>8. QED
  BY <1>3, <1>5, <1>6, <1>7 DEF IInv, BeginPhase

\* A replay: the table is that of this topology, its addresses are those of
\* the mirrors that exist, and every mirror is current.
LEMMA ReplayStep == ASSUME IInv, Replay PROVE IInv'
<1> DEFINE t == topology
<1>1. plan.topology = t /\ t \in Topologies /\ plan.table = plan.operations
  BY DEF Replay, ReplayReady, IInv, PlanInv
<1>2. Matches(plan.operations, t, Len(Program[t]))
  BY <1>1 DEF Replay, ReplayReady, IInv, CompleteInv
<1>3. plan.operations \in Seq(CurlOperation) /\ Program[t] \in Seq([chunk : Chunks \cup {NoChunk}, param : Nat])
  BY <1>1, ReplayAssumption DEF IInv, PlanInv, Plan
<1>4. ASSUME NEW i \in 1..Len(Program[t])
      PROVE  /\ plan.operations[i] = Operation(Program[t][i], cache[Program[t][i].chunk])
             /\ cache[Program[t][i].chunk].fresh
  <2>1. i \in DOMAIN plan.operations /\ plan.operations[i] \in CurlOperation
    BY <1>2, <1>3 DEF Matches
  <2>2. /\ plan.operations[i].chunk = Program[t][i].chunk
        /\ plan.operations[i].param = Program[t][i].param
    BY <1>2 DEF Matches
  <2>3. plan.operations[i].chunk \in DOMAIN plan.current
    BY <2>1, <1>3, ChunksOfType DEF IInv, PlanInv
  <2>4. plan.operations[i].address = cache[plan.operations[i].chunk].address
    BY <2>1, <2>3 DEF Replay, ReplayReady, IInv, PlanInv
  <2>5. cache[plan.operations[i].chunk].fresh
    <3>1. plan.operations[i].chunk \in Chunks
      BY <2>1 DEF CurlOperation
    <3>2. QED
      BY <2>3, <3>1 DEF Replay, ReplayReady, MirrorsReady, IInv, CacheInv, MirrorInv
  <2>6. QED
    BY <2>1, <2>2, <2>4, <2>5 DEF CurlOperation, Operation
<1>5. Len(plan.operations) = Len(Program[t])
  BY <1>2 DEF Matches
<1>6. plan.operations = Due(Program[t])
  <2>1. DOMAIN plan.operations = 1..Len(Program[t]) /\ DOMAIN Program[t] = 1..Len(Program[t])
    BY <1>3, <1>5
  <2>2. plan.operations = [i \in DOMAIN Program[t] |-> plan.operations[i]]
    BY <1>3, <2>1, OperationsAsFunction
  <2>3. QED
    BY <1>4, <2>1, <2>2 DEF Due
<1>7. Stale(Due(Program[t])) = {}
  <2>1. \A i \in DOMAIN plan.operations : cache[plan.operations[i].chunk].fresh
    BY <1>2, <1>3, <1>4, <1>5 DEF Matches
  <2>2. QED
    BY <1>6, <2>1 DEF Stale, ChunksOf
<1>8. LaunchesAreCurrent'
  <2>1. /\ launch'.ran = plan.table /\ launch'.due = Due(Program[t])
        /\ launch'.stale = Stale(Due(Program[t]))
    BY DEF Replay, Launched
  <2>2. QED
    BY <1>1, <1>6, <1>7, <2>1 DEF LaunchesAreCurrent
<1>9. CacheInv(cache') /\ \A c \in Chunks : cache'[c].address = cache[c].address
  <2>1. ASSUME NEW c \in Chunks
        PROVE  /\ cache'[c] \in Mirror /\ MirrorInv(cache'[c])
               /\ cache'[c].address = cache[c].address
    <3>1. cache[c] \in Mirror /\ MirrorInv(cache[c])
      BY DEF IInv, CacheInv
    <3>2. CASE c \in DOMAIN plan.current
      <4>1. cache[c].fresh /\ cache[c].address # NoAddress
        BY <3>1, <3>2 DEF Replay, ReplayReady, MirrorsReady, MirrorInv
      <4>2. cache'[c] = [cache[c] EXCEPT !.dirty = TRUE, !.ahead = TRUE]
        BY <3>2 DEF Replay, Written
      <4>3. QED
        BY <3>1, <4>1, <4>2 DEF Mirror, MirrorInv
    <3>3. CASE c \notin DOMAIN plan.current
      BY <3>1, <3>3 DEF Replay, Written
    <3>4. QED
      BY <3>2, <3>3
  <2>2. cache' = [c \in Chunks |-> cache'[c]]
    BY DEF Replay, Written
  <2>3. QED
    BY <2>1, <2>2 DEF CacheInv
<1>10. PlanInv(plan', cache) /\ CompleteInv(plan')
  BY DEF Replay, IInv, PlanInv, Plan, CompleteInv, Sticky
<1>11. PlanInv(plan', cache')
  BY <1>9, <1>10, PlanKept
<1>12. QED
  BY <1>8, <1>9, <1>10, <1>11, EndStep DEF Replay

\* A replay that throws leaves a plan that is not replayed again.
LEMMA ReplayFailsStep == ASSUME IInv, ReplayFails PROVE IInv'
<1>1. PlanInv(plan', cache) /\ CompleteInv(plan')
  BY DEF ReplayFails, Incomplete, IInv, PlanInv, Plan, CompleteInv
<1>2. QED
  BY <1>1, NothingLaunched, EndStep DEF ReplayFails, IInv

\* Collecting begins with nothing collected.
LEMMA WalkChunksStep == ASSUME IInv, WalkChunks PROVE IInv'
<1>1. topology \in Topologies /\ Program[topology] \in Seq([chunk : Chunks \cup {NoChunk}, param : Nat])
  BY ReplayAssumption DEF IInv
<1>2. /\ batch.operations = <<>> /\ batch.step = 1 /\ batch.flushes = 0 /\ batch.batched = 0
  BY DEF IInv, WalkChunks
<1>3. BatchInv(batch, cache) /\ PhaseInv(batch, plan, topology)
  BY <1>1, <1>2 DEF BatchInv, PhaseInv, Matches
<1>4. QED
  BY <1>3, NothingLaunched DEF IInv, WalkChunks

\* The next operation of the program.
LEMMA ItemType ==
  ASSUME IInv, Remaining
  PROVE  /\ Item.chunk \in Chunks \cup {NoChunk} /\ Item.param \in Nat
         /\ batch.step \in Nat /\ Len(Program[topology]) \in Nat
<1>1. Program[topology] \in Seq([chunk : Chunks \cup {NoChunk}, param : Nat])
  BY ReplayAssumption DEF IInv
<1>2. batch.step \in 1..Len(Program[topology])
  BY <1>1 DEF IInv, Batch, Remaining
<1>3. Item \in [chunk : Chunks \cup {NoChunk}, param : Nat]
  BY <1>1, <1>2, ElementOfSeq DEF Item
<1>4. QED
  BY <1>1, <1>2, <1>3

\* The mirror of the next operation is ensured and marked.
LEMMA EnsuredItem ==
  ASSUME IInv, Remaining, Item.chunk # NoChunk, NEW a \in Free
  PROVE  LET k == Ensured(cache[Item.chunk], a) IN
         /\ Item.chunk \in Chunks
         /\ k \in Mirror /\ MirrorInv(k) /\ k.fresh /\ k.address # NoAddress
         /\ cache[Item.chunk].dirty => k.address = cache[Item.chunk].address
<1>1. Item.chunk \in Chunks /\ a \in Addresses
  BY ItemType DEF Free
<1>2. cache[Item.chunk] \in Mirror /\ MirrorInv(cache[Item.chunk])
  BY <1>1 DEF IInv, CacheInv
<1>3. cache[Item.chunk].dirty => cache[Item.chunk].address # NoAddress
  BY <1>2 DEF MirrorInv
<1>4. QED
  BY <1>1, <1>2, <1>3, EnsuredRow

\* Collecting: the operations collected before keep their addresses, because
\* their mirrors are dirty and so exist.
LEMMA CollectStep == ASSUME IInv, Collect PROVE IInv'
<1> DEFINE x == Item.chunk
<1>1. PICK a \in Free :
        LET k == Ensured(cache[x], a) IN
        /\ Become([cache EXCEPT ![x] = [k EXCEPT !.dirty = TRUE]],
                  IF batch.operations = <<>> /\ batch.flushes = 0
                  THEN Incomplete(plan) ELSE plan)
        /\ batch' = [batch EXCEPT !.step = @ + 1,
                                  !.operations = Append(@, Operation(Item, k))]
  BY DEF Collect
<1> DEFINE k == Ensured(cache[x], a)
           marked == [k EXCEPT !.dirty = TRUE]
           new == [cache EXCEPT ![x] = marked]
           p == IF batch.operations = <<>> /\ batch.flushes = 0
                THEN Incomplete(plan) ELSE plan
           op == Operation(Item, k)
<1>2. /\ x \in Chunks /\ k \in Mirror /\ MirrorInv(k) /\ k.fresh /\ k.address # NoAddress
      /\ cache[x].dirty => k.address = cache[x].address
  BY EnsuredItem DEF Collect
<1>3. cache' = new /\ plan' = Bumped(p, new)
  BY <1>1 DEF Become
<1>4. batch' = [batch EXCEPT !.step = @ + 1, !.operations = Append(@, op)]
  BY <1>1
<1>5. PlanInv(p, cache) /\ CompleteInv(p)
  BY IncompletePlan DEF IInv
<1>6. op \in CurlOperation /\ op.chunk = x /\ op.param = Item.param /\ op.address = k.address
  <2>1. k.address \in Addresses \cup {NoAddress}
    BY <1>2 DEF Mirror
  <2>2. QED
    BY <1>2, <2>1, ItemType DEF Collect, Operation, CurlOperation
<1> HIDE DEF k, p, op, x
<1>7. marked \in Mirror /\ MirrorInv(marked) /\ marked.dirty /\ marked.address = k.address
  BY <1>2 DEF Mirror, MirrorInv
<1> HIDE DEF marked
<1>8. CacheInv(new)
  BY <1>2, <1>7 DEF IInv, CacheInv
<1>9. new[x] = marked /\ \A c \in Chunks \ {x} : new[c] = cache[c]
  BY <1>2 DEF IInv, CacheInv
<1> HIDE DEF new
<1>10. PlanInv(plan', cache') /\ CompleteInv(plan')
  BY <1>3, <1>5, BumpedPlan
<1>11. batch.operations \in Seq(CurlOperation) /\ batch.step \in Nat \ {0} /\ batch \in Batch
  BY DEF IInv, Batch
<1>12. /\ batch'.operations = Append(batch.operations, op)
       /\ batch'.step = batch.step + 1
       /\ batch'.flushes = batch.flushes /\ batch'.batched = batch.batched
       /\ batch'.forbidden = batch.forbidden /\ batch' \in Batch
  <2>1. Append(batch.operations, op) \in Seq(CurlOperation)
    BY <1>6, <1>11
  <2>2. batch' = [step |-> batch.step + 1, operations |-> Append(batch.operations, op),
                  mode |-> batch.mode, flushes |-> batch.flushes,
                  batched |-> batch.batched, forbidden |-> batch.forbidden]
    BY <1>4, <1>11 DEF Batch
  <2>3. batch.step + 1 \in Nat \ {0}
    BY <1>11
  <2>4. QED
    BY <1>11, <2>1, <2>2, <2>3 DEF Batch
<1>13. ASSUME NEW i \in DOMAIN batch'.operations
       PROVE  /\ cache'[batch'.operations[i].chunk].dirty
              /\ batch'.operations[i].address = cache'[batch'.operations[i].chunk].address
  <2>1. CASE i = Len(batch.operations) + 1
    <3>1. batch'.operations[i] = op
      BY <1>6, <1>11, <1>12, <2>1
    <3>2. QED
      BY <1>3, <1>6, <1>7, <1>9, <3>1
  <2>2. CASE i # Len(batch.operations) + 1
    <3>1. i \in DOMAIN batch.operations /\ batch'.operations[i] = batch.operations[i]
      BY <1>6, <1>11, <1>12, <2>2
    <3>2. batch.operations[i].chunk \in Chunks
      BY <1>11, <3>1, ChunksOfType
    <3>3. /\ cache[batch.operations[i].chunk].dirty
          /\ batch.operations[i].address = cache[batch.operations[i].chunk].address
      BY <3>1 DEF Collect, IInv, BatchInv
    <3>4. QED
      BY <1>2, <1>3, <1>7, <1>9, <3>1, <3>2, <3>3
  <2>3. QED
    BY <2>1, <2>2
<1>14. BatchInv(batch', cache')
  BY <1>13 DEF BatchInv
<1>15. PhaseInv(batch', plan', topology)
  <2>1. PhaseInv(batch, plan, topology) /\ batch.step <= Len(Program[topology])
    BY DEF IInv, Collect, Remaining
  <2>2. Len(Program[topology]) \in Nat
    BY ItemType DEF Collect
  <2>3. ~ NextIsDirect(batch, topology)
    BY <2>1 DEF NextIsDirect, Collect, Item
  <2>4. ~ batch.forbidden => batch.flushes # 1
    BY <2>1, <2>3 DEF PhaseInv
  <2>5. ASSUME ~ batch.forbidden, batch.flushes = 0
        PROVE  Matches(batch'.operations, topology, batch'.step - 1)
    <3>1. Matches(batch.operations, topology, batch.step - 1)
      BY <2>1, <2>5 DEF PhaseInv
    <3>2. Len(batch'.operations) = batch'.step - 1
      BY <1>6, <1>11, <1>12, <3>1 DEF Matches
    <3>3. ASSUME NEW i \in 1..(batch'.step - 1)
          PROVE  /\ batch'.operations[i].chunk = Program[topology][i].chunk
                 /\ batch'.operations[i].param = Program[topology][i].param
      <4>1. CASE i = batch.step
        <5>1. batch'.operations[i] = op
          BY <1>6, <1>11, <1>12, <3>1, <4>1 DEF Matches
        <5>2. QED
          BY <1>6, <4>1, <5>1 DEF Item, x
      <4>2. CASE i # batch.step
        <5>1. i \in 1..(batch.step - 1)
          BY <1>11, <1>12, <4>2
        <5>2. batch'.operations[i] = batch.operations[i]
          BY <1>6, <1>11, <1>12, <3>1, <5>1 DEF Matches
        <5>3. QED
          BY <3>1, <5>1, <5>2 DEF Matches
      <4>3. QED
        BY <4>1, <4>2
    <3>4. QED
      BY <3>2, <3>3 DEF Matches
  <2>6. QED
    BY <1>11, <1>12, <2>1, <2>2, <2>4, <2>5 DEF PhaseInv
<1>16. QED
  BY <1>3, <1>8, <1>10, <1>12, <1>14, <1>15, NothingLaunched DEF IInv, Collect

\* A collection that fails may leave a new mirror that nobody trusts.
LEMMA CollectFailsStep == ASSUME IInv, CollectFails PROVE IInv'
<1>1. PICK k \in {cache[Item.chunk]} \cup
              {[cache[Item.chunk] EXCEPT !.address = a] :
                 a \in IF cache[Item.chunk].address = NoAddress THEN Free ELSE {}} :
        Become([cache EXCEPT ![Item.chunk] = k], Incomplete(plan))
  BY DEF CollectFails
<1>2. Item.chunk \in Chunks
  BY ItemType DEF CollectFails
<1>3. cache[Item.chunk] \in Mirror /\ MirrorInv(cache[Item.chunk])
  BY <1>2 DEF IInv, CacheInv
<1>4. k \in Mirror /\ MirrorInv(k)
  <2>1. CASE k = cache[Item.chunk]
    BY <1>3, <2>1
  <2>2. CASE cache[Item.chunk].address = NoAddress
             /\ \E a \in Free : k = [cache[Item.chunk] EXCEPT !.address = a]
    BY <1>3, <2>2 DEF Free, Mirror, MirrorInv
  <2>3. QED
    BY <2>1, <2>2
<1> DEFINE new == [cache EXCEPT ![Item.chunk] = k]
<1>5. cache' = new /\ plan' = Bumped(Incomplete(plan), new)
  BY <1>1 DEF Become
<1>6. CacheInv(new)
  BY <1>2, <1>4 DEF IInv, CacheInv
<1> HIDE DEF new
<1>7. PlanInv(plan', cache') /\ CompleteInv(plan')
  BY <1>5, IncompletePlan, BumpedPlan DEF IInv
<1>8. QED
  BY <1>5, <1>6, <1>7, NothingLaunched, EndStep DEF CollectFails, IInv

-----------------------------------------------------------------------------
(* Flushes.                                                                *)

\* What was collected is what the chunks would issue now, on current mirrors.
LEMMA CollectedIsDue ==
  ASSUME IInv, pc = "collect"
  PROVE  Due(batch.operations) = batch.operations /\ Stale(batch.operations) = {}
<1> DEFINE ops == batch.operations
<1>1. ops \in Seq(CurlOperation)
  BY DEF IInv, Batch
<1>2. ASSUME NEW i \in DOMAIN ops
      PROVE  /\ ops[i] \in CurlOperation
             /\ ops[i].address = cache[ops[i].chunk].address
             /\ cache[ops[i].chunk].fresh
  <2>1. ops[i] \in CurlOperation /\ ops[i].chunk \in Chunks
    BY <1>1, ChunksOfType
  <2>2. QED
    BY <2>1 DEF IInv, BatchInv, CacheInv, MirrorInv
<1>3. \A i \in DOMAIN ops : ops[i] = Operation(ops[i], cache[ops[i].chunk])
  BY <1>2 DEF CurlOperation, Operation
<1>4. ops = [i \in DOMAIN ops |-> ops[i]]
  BY <1>1, OperationsAsFunction
<1>5. Due(ops) = ops
  BY <1>3, <1>4 DEF Due
<1>6. QED
  BY <1>2, <1>5 DEF Stale, ChunksOf

\* After a launch the outputs of the batch are marked and have not moved.
LEMMA UpdatedCache ==
  ASSUME IInv, pc = "collect"
  PROVE  CacheInv(Updated) /\ \A c \in Chunks : Updated[c].address = cache[c].address
<1>1. batch.operations \in Seq(CurlOperation)
  BY DEF IInv, Batch
<1>2. ASSUME NEW c \in Chunks
      PROVE  /\ Updated[c] \in Mirror /\ MirrorInv(Updated[c])
             /\ Updated[c].address = cache[c].address
  <2>1. cache[c] \in Mirror /\ MirrorInv(cache[c])
    BY DEF IInv, CacheInv
  <2>2. CASE c \in ChunksOf(batch.operations)
    <3>1. cache[c].dirty
      BY <2>2 DEF ChunksOf, IInv, BatchInv
    <3>2. Updated[c] = [cache[c] EXCEPT !.ahead = TRUE]
      BY <2>2 DEF Updated
    <3>3. QED
      BY <2>1, <3>1, <3>2 DEF Mirror, MirrorInv
  <2>3. CASE c \notin ChunksOf(batch.operations)
    BY <2>1, <2>3 DEF Updated
  <2>4. QED
    BY <2>2, <2>3
<1>3. QED
  BY <1>2 DEF Updated, CacheInv

\* A batch is the record of its fields.
LEMMA BatchAsRecord ==
  ASSUME NEW b \in Batch
  PROVE  b = [step |-> b.step, operations |-> b.operations, mode |-> b.mode,
              flushes |-> b.flushes, batched |-> b.batched, forbidden |-> b.forbidden]
BY DEF Batch

\* The batch after a flush.
LEMMA FlushedBatch ==
  ASSUME IInv, NEW n \in Nat
  PROVE  LET b == [Flushed EXCEPT !.batched = n] IN
         /\ Flushed \in Batch /\ b \in Batch
         /\ b.operations = <<>> /\ b.step = batch.step /\ b.flushes = batch.flushes + 1
         /\ b.batched = n /\ b.forbidden = batch.forbidden
<1>1. batch \in Batch /\ <<>> \in Seq(CurlOperation)
  BY DEF IInv
<1>2. Flushed = [step |-> batch.step, operations |-> <<>>, mode |-> batch.mode,
                 flushes |-> batch.flushes + 1, batched |-> batch.batched,
                 forbidden |-> batch.forbidden]
  <2> DEFINE b == [step |-> batch.step, operations |-> batch.operations,
                   mode |-> batch.mode, flushes |-> batch.flushes,
                   batched |-> batch.batched, forbidden |-> batch.forbidden]
  <2>1. batch = b
    BY <1>1, BatchAsRecord
  <2>2. Flushed = [b EXCEPT !.operations = <<>>, !.flushes = b.flushes + 1]
    BY <2>1 DEF Flushed
  <2>3. QED
    BY <2>2
<1>3. batch.flushes + 1 \in Nat
  BY <1>1 DEF Batch
<1>4. QED
  BY <1>1, <1>2, <1>3 DEF Batch

\* The plan that a flush starts from, and the plan that it records.
LEMMA RecordedPlan ==
  ASSUME IInv, Flushing
  PROVE  LET r == Recorded(KeptPlan) IN
         /\ PlanInv(KeptPlan, cache) /\ CompleteInv(KeptPlan)
         /\ PlanInv(r, cache) /\ CompleteInv(r)
         /\ r.table = batch.operations /\ r.operations = batch.operations
         /\ r.topology = topology
<1> DEFINE r == Recorded(KeptPlan)
           cs == ChunksOf(batch.operations)
<1>1. PlanInv(KeptPlan, cache) /\ CompleteInv(KeptPlan)
  BY NoPlanInv DEF KeptPlan, IInv
<1>2. batch.operations \in Seq(CurlOperation) /\ batch.mode \in Modes /\ batch.operations # <<>>
  BY DEF IInv, Batch, Flushing
<1>3. cs \in SUBSET Chunks
      /\ \A i \in DOMAIN batch.operations : batch.operations[i].chunk \in cs
  BY <1>2, ChunksOfType
<1>4. DeviceOf(batch.operations) \in Devices \cup {NoDevice}
  <2>1. 1 \in DOMAIN batch.operations
    BY <1>2
  <2>2. cache[batch.operations[1].chunk] \in Mirror
    BY <1>3, <2>1 DEF IInv, CacheInv
  <2>3. QED
    BY <2>2 DEF DeviceOf, Mirror
<1>5. r.table = batch.operations /\ r.operations = batch.operations /\ r.topology = topology
      /\ r.complete = FALSE
      /\ r.mode = batch.mode /\ r.device = DeviceOf(batch.operations)
      /\ r.current = [c \in cs |-> TRUE] /\ r.stable \in Nat
  <2>1. KeptPlan.table = KeptPlan.operations /\ KeptPlan.stable \in Nat
    BY <1>1 DEF PlanInv, Plan
  <2>2. Sticky(KeptPlan.stable) \in Nat
    BY <2>1 DEF Sticky
  <2>3. QED
    BY <2>1, <2>2 DEF Recorded
<1>6. [c \in cs |-> TRUE] \in Generations
  BY <1>3 DEF Generations
<1>7. r = [table |-> r.table, operations |-> r.operations, current |-> r.current,
           mode |-> r.mode, topology |-> r.topology, device |-> r.device,
           stable |-> r.stable, complete |-> r.complete]
  BY DEF Recorded
<1> HIDE DEF r, cs
<1>8. r \in Plan
  BY <1>2, <1>4, <1>5, <1>6, <1>7 DEF Plan, IInv
<1>9. \A i \in DOMAIN batch.operations :
        batch.operations[i].address = cache[batch.operations[i].chunk].address
  BY DEF Flushing, IInv, BatchInv
<1>10. PlanInv(r, cache)
  BY <1>5, <1>8, <1>9 DEF PlanInv, cs
<1>11. CompleteInv(r)
  BY <1>5 DEF CompleteInv
<1>12. QED
  BY <1>1, <1>5, <1>10, <1>11 DEF r

\* A launch one by one: the phase is not one table, and no plan is recorded.
LEMMA FlushUnbatchedStep == ASSUME IInv, FlushUnbatched PROVE IInv'
<1>1. pc = "collect" /\ cache' = Updated /\ batch' = Flushed /\ batch.batched \in Nat
      /\ batch.flushes \in Nat /\ batch.step \in Nat
  BY DEF FlushUnbatched, Flushing, IInv, Batch
<1>2. CacheInv(cache') /\ PlanInv(plan', cache') /\ CompleteInv(plan')
  BY <1>1, UpdatedCache, PlanKept DEF IInv, FlushUnbatched
<1>3. LaunchesAreCurrent'
  BY <1>1, CollectedIsDue DEF FlushUnbatched, Launched, DueNow, LaunchesAreCurrent
<1>4. /\ batch' \in Batch /\ batch'.operations = <<>> /\ batch'.step = batch.step
      /\ batch'.flushes = batch.flushes + 1 /\ batch'.forbidden = batch.forbidden
      /\ batch'.batched = batch.batched
  BY <1>1, FlushedBatch DEF Flushed, IInv, Batch
<1>5. BatchInv(batch', cache')
  BY <1>4 DEF BatchInv
<1>6. NextIsDirect(batch', topology)
  BY <1>4 DEF NextIsDirect, FlushUnbatched, Flushing, Remaining, Item
<1>7. PhaseInv(batch', plan', topology)
  BY <1>1, <1>4, <1>6 DEF PhaseInv, IInv
<1>8. QED
  BY <1>1, <1>2, <1>3, <1>4, <1>5, <1>7 DEF IInv, FlushUnbatched

\* A batched launch records the plan it launches.
LEMMA FlushBatchedStep == ASSUME IInv, FlushBatched PROVE IInv'
<1>1. pc = "collect" /\ cache' = Updated /\ batch.batched \in Nat
      /\ batch' = [Flushed EXCEPT !.batched = batch.batched + 1]
      /\ batch.flushes \in Nat /\ batch.step \in Nat
  BY DEF FlushBatched, Flushing, Flushed, IInv, Batch
<1>2. /\ PlanInv(plan', cache) /\ CompleteInv(plan')
      /\ plan'.table = batch.operations /\ plan'.operations = batch.operations
      /\ plan'.topology = topology
  BY RecordedPlan DEF FlushBatched
<1>3. CacheInv(cache') /\ PlanInv(plan', cache')
  BY <1>1, <1>2, UpdatedCache, PlanKept
<1>4. LaunchesAreCurrent'
  BY <1>1, <1>2, CollectedIsDue DEF FlushBatched, Launched, DueNow, LaunchesAreCurrent
<1>5. /\ batch' \in Batch /\ batch'.operations = <<>> /\ batch'.step = batch.step
      /\ batch'.flushes = batch.flushes + 1 /\ batch'.forbidden = batch.forbidden
      /\ batch'.batched = batch.batched + 1
  <2>1. batch.batched + 1 \in Nat
    BY <1>1
  <2> DEFINE n == batch.batched + 1
  <2> HIDE DEF n
  <2>2. batch' = [Flushed EXCEPT !.batched = n] /\ n \in Nat
    BY <1>1, <2>1 DEF n
  <2>3. QED
    BY <2>2, FlushedBatch DEF n
<1>6. BatchInv(batch', cache')
  BY <1>5 DEF BatchInv
<1>7. NextIsDirect(batch', topology)
  BY <1>5 DEF NextIsDirect, FlushBatched, Flushing, Remaining, Item
<1>8. PhaseInv(batch', plan', topology)
  <2>1. PhaseInv(batch, plan, topology)
    BY <1>1 DEF IInv
  <2>2. ~ batch.forbidden /\ batch.flushes = 0 =>
          Matches(plan'.operations, topology, batch.step - 1)
    BY <1>2, <2>1 DEF PhaseInv
  <2>3. QED
    BY <1>1, <1>2, <1>5, <1>7, <2>1, <2>2 DEF PhaseInv
<1>9. QED
  BY <1>1, <1>2, <1>3, <1>4, <1>5, <1>6, <1>8 DEF IInv, FlushBatched

\* A flush that fails leaves a plan that is not replayed.
LEMMA FlushFailsStep == ASSUME IInv, FlushFails PROVE IInv'
<1>1. PlanInv(plan, cache)
  BY DEF IInv
<1>2. PlanInv(KeptPlan, cache) /\ PlanInv(Recorded(KeptPlan), cache)
  BY RecordedPlan DEF FlushFails
<1>3. plan' \in {Incomplete(plan), Incomplete(KeptPlan), Incomplete(Recorded(KeptPlan))}
  BY DEF FlushFails
<1>4. PlanInv(plan', cache) /\ CompleteInv(plan')
  BY <1>1, <1>2, <1>3, IncompletePlan
<1>5. QED
  BY <1>4, NothingLaunched, EndStep DEF FlushFails, IInv

\* A direct operation: this phase is not one table any more.
LEMMA DirectOperationStep == ASSUME IInv, DirectOperation PROVE IInv'
<1>1. /\ batch.step \in Nat /\ Len(Program[topology]) \in Nat
      /\ batch.step <= Len(Program[topology])
  BY ItemType DEF DirectOperation, Remaining
<1>2. PlanInv(plan', cache') /\ CompleteInv(plan')
  BY IncompletePlan DEF DirectOperation, IInv
<1>3. batch' = [step |-> batch.step + 1, operations |-> batch.operations,
                mode |-> batch.mode, flushes |-> batch.flushes,
                batched |-> batch.batched, forbidden |-> TRUE]
  BY DEF DirectOperation, IInv, Batch
<1>4. batch' \in Batch
  BY <1>1, <1>3 DEF IInv, Batch
<1>5. BatchInv(batch', cache')
  BY <1>3 DEF DirectOperation, BatchInv
<1>6. PhaseInv(batch', plan', topology)
  BY <1>1, <1>3 DEF PhaseInv, IInv, DirectOperation
<1>7. QED
  BY <1>2, <1>4, <1>5, <1>6, NothingLaunched DEF IInv, DirectOperation

\* The plan is certified only when one batched flush covered the phase.
LEMMA FinishPhaseStep == ASSUME IInv, FinishPhase PROVE IInv'
<1> DEFINE complete == batch.flushes = 1 /\ batch.batched = 1 /\ ~ batch.forbidden
<1>1. plan' = [plan EXCEPT !.complete = complete,
                           !.stable = IF complete THEN plan.stable ELSE 0]
  BY DEF FinishPhase
<1>2. PlanInv(plan', cache)
  BY <1>1 DEF IInv, PlanInv, Plan
<1>3. PhaseInv(batch, plan, topology) /\ ~ Remaining
  BY DEF FinishPhase, IInv
<1>4. batch.step \in Nat /\ Len(Program[topology]) \in Nat
  BY ReplayAssumption DEF IInv, Batch
<1>5. batch.step - 1 = Len(Program[topology])
  BY <1>3, <1>4 DEF PhaseInv, Remaining
<1>6. complete => Matches(plan.operations, topology, Len(Program[topology]))
                  /\ plan.topology = topology
  BY <1>3, <1>5 DEF PhaseInv
<1>7. plan'.operations = plan.operations /\ plan'.topology = plan.topology
      /\ plan'.complete = complete
  BY <1>1 DEF IInv, PlanInv, Plan
<1> HIDE DEF complete
<1>8. CompleteInv(plan')
  BY <1>6, <1>7 DEF CompleteInv, IInv
<1>9. QED
  BY <1>2, <1>8, NothingLaunched, EndStep DEF FinishPhase, IInv

\* Without batching every operation is launched on a mirror just ensured.
LEMMA UnbatchedOperationStep == ASSUME IInv, UnbatchedOperation PROVE IInv'
<1>1. batch.step \in Nat /\ batch.operations = <<>> /\ pc = "direct"
  BY DEF UnbatchedOperation, IInv, Batch
<1>2. batch' \in Batch /\ batch'.operations = <<>>
  <2>1. batch' = [batch EXCEPT !.step = batch.step + 1] /\ batch \in Batch
    BY DEF UnbatchedOperation, IInv
  <2>2. batch.step + 1 \in Nat \ {0}
    BY <1>1
  <2>3. QED
    BY <1>1, <2>1, <2>2 DEF Batch
<1>3. CASE Item.chunk = NoChunk /\ UNCHANGED <<cache, plan, launch>>
  BY <1>1, <1>2, <1>3, NothingLaunched DEF IInv, UnbatchedOperation
<1>4. CASE /\ Item.chunk # NoChunk
           /\ \E a \in Free :
                LET k == Ensured(cache[Item.chunk], a) IN
                /\ Become([cache EXCEPT ![Item.chunk] =
                             [k EXCEPT !.dirty = TRUE, !.ahead = TRUE]], plan)
                /\ launch' = [ran |-> <<Operation(Item, k)>>, due |-> <<Operation(Item, k)>>,
                              stale |-> IF k.fresh THEN {} ELSE {Item.chunk}]
  <2>1. PICK a \in Free :
          LET k == Ensured(cache[Item.chunk], a) IN
          /\ Become([cache EXCEPT ![Item.chunk] =
                       [k EXCEPT !.dirty = TRUE, !.ahead = TRUE]], plan)
          /\ launch' = [ran |-> <<Operation(Item, k)>>, due |-> <<Operation(Item, k)>>,
                        stale |-> IF k.fresh THEN {} ELSE {Item.chunk}]
    BY <1>4
  <2> DEFINE k == Ensured(cache[Item.chunk], a)
             marked == [k EXCEPT !.dirty = TRUE, !.ahead = TRUE]
  <2>2. Item.chunk \in Chunks /\ k \in Mirror /\ MirrorInv(k) /\ k.fresh /\ k.address # NoAddress
    BY <1>4, EnsuredItem DEF UnbatchedOperation
  <2>3. LaunchesAreCurrent'
    BY <2>1, <2>2 DEF LaunchesAreCurrent
  <2>4. Become([cache EXCEPT ![Item.chunk] = marked], plan)
    BY <2>1
  <2> HIDE DEF k
  <2>5. marked \in Mirror /\ MirrorInv(marked)
    BY <2>2, MarkedRow
  <2> HIDE DEF marked
  <2>6. CacheInv(cache') /\ PlanInv(plan', cache') /\ CompleteInv(plan')
    BY <2>2, <2>4, <2>5, OneCache DEF Become
  <2>7. QED
    BY <1>1, <1>2, <2>3, <2>6 DEF IInv, UnbatchedOperation
<1>5. QED
  BY <1>3, <1>4 DEF UnbatchedOperation

\* The end of a phase without batching.
LEMMA FinishUnbatchedStep == ASSUME IInv, FinishUnbatched PROVE IInv'
BY NothingLaunched, EndStep DEF FinishUnbatched, IInv

-----------------------------------------------------------------------------
(* The invariant and the properties.                                       *)

\* Every step of Next preserves the invariant.
LEMMA Step == ASSUME IInv, Next PROVE IInv'
<1>1. CASE \E c \in Chunks : HostRead(c) \/ HostWrite(c) \/ OtherKernel(c)
                             \/ DiscardMirror(c) \/ DestroyCache(c) \/ ResetCache(c)
  BY <1>1, HostReadStep, HostWriteStep, OtherKernelStep, DiscardMirrorStep,
     DestroyCacheStep, ResetCacheStep
<1>2. CASE \E d \in Devices : SelectDevice(d)
  BY <1>2, SelectDeviceStep
<1>3. CASE \E t \in Topologies : ChangeTopology(t)
  BY <1>3, ChangeTopologyStep
<1>4. CASE \E m \in Modes : BeginPhase(m)
  BY <1>4, BeginPhaseStep
<1>5. CASE Replay \/ ReplayFails \/ WalkChunks
  BY <1>5, ReplayStep, ReplayFailsStep, WalkChunksStep
<1>6. CASE Collect \/ CollectFails \/ DirectOperation
  BY <1>6, CollectStep, CollectFailsStep, DirectOperationStep
<1>7. CASE FlushUnbatched \/ FlushBatched \/ FlushFails \/ FinishPhase
  BY <1>7, FlushUnbatchedStep, FlushBatchedStep, FlushFailsStep, FinishPhaseStep
<1>8. CASE UnbatchedOperation \/ FinishUnbatched
  BY <1>8, UnbatchedOperationStep, FinishUnbatchedStep
<1>9. QED
  BY <1>1, <1>2, <1>3, <1>4, <1>5, <1>6, <1>7, <1>8 DEF Next

\* The inductive invariant of recorded curl phases holds in every state.
THEOREM Invariance == Spec => []IInv
<1>1. ASSUME IInv, UNCHANGED vars PROVE IInv'
  BY <1>1 DEF vars, IInv, LaunchesAreCurrent, CacheInv, PlanInv, CompleteInv,
              BatchInv, PhaseInv, NextIsDirect, Matches
<1>2. IInv /\ [Next]_vars => IInv'
  BY <1>1, Step
<1>3. QED
  BY <1>2, Initial, PTL DEF Spec

\* Every launch, replayed or not, runs the operations that are due, at the
\* addresses their arrays have now and on current contents: launch_curl_batch
\* and replay_if_ready.
THEOREM CurrentLaunches == Spec => []LaunchesAreCurrent
<1>1. IInv => LaunchesAreCurrent
  BY DEF IInv
<1>2. QED
  BY <1>1, Invariance, PTL

\* Results that only the device has are marked, whatever launched them:
\* mark_resident_dirty of the collected, direct and replayed operations.
THEOREM MarkedResults == Spec => []ResultsAreMarked
<1>1. IInv => ResultsAreMarked
  BY DEF IInv, CacheInv, MirrorInv, ResultsAreMarked
<1>2. QED
  BY <1>1, Invariance, PTL

\* A plan that may be replayed is the table of one whole phase of its
\* topology: certify_complete_curl_phase_noexcept.
THEOREM WholePhasePlans == Spec => []CompletePlansAreWholePhases
<1>1. ASSUME IInv PROVE CompletePlansAreWholePhases
  <2>1. plan.table = plan.operations /\ plan.operations \in Seq(CurlOperation)
    BY <1>1 DEF IInv, PlanInv, Plan
  <2>2. QED
    BY <1>1, <2>1 DEF IInv, CompleteInv, Matches, CompletePlansAreWholePhases
<1>2. QED
  BY <1>1, Invariance, PTL
=============================================================================
