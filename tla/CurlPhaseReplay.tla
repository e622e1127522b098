--------------------------- MODULE CurlPhaseReplay ---------------------------
(***************************************************************************)
(* Recorded curl phases (resident_curl_phase_batch of gpu_backend.cpp).    *)
(* A phase of fields::step_db collects the curl operations of all chunks,  *)
(* with the device addresses of their arrays, and launches them from one   *)
(* table on the device.  When the same table was built often enough, the   *)
(* next phase launches it without walking the chunks at all.  By then a    *)
(* mirror may have been freed, moved, recycled at the same address, or     *)
(* made stale by a write of the host.                                      *)
(*                                                                         *)
(* One owner; each of its chunks has a resident cache with one array that  *)
(* the chunk's curl reads and writes.  Allocation generations only ever    *)
(* grow, so a plan keeps, instead of the number it recorded, whether the   *)
(* cache still has it.                                                     *)
(***************************************************************************)
EXTENDS Naturals, Sequences, FiniteSets

CONSTANTS Chunks, Addresses, Devices,
          Topologies,  \* what the fingerprint of step_db tells apart
          Program,     \* per topology, the operations of a phase in order:
                       \* [chunk, param], or [chunk |-> NoChunk] for a direct one
          NoChunk, NoAddress, NoDevice

ASSUME ReplayAssumption ==
  /\ NoChunk \notin Chunks /\ NoAddress \notin Addresses /\ NoDevice \notin Devices
  /\ Program \in [Topologies -> Seq([chunk : Chunks \cup {NoChunk}, param : Nat])]

VARIABLES
  topology,   \* what the chunks, grids and parameters are now
  selected,   \* the device of the process
  cache,      \* per chunk: its mirror and device
  plan,       \* curl_phase_plan of the owner and field type
  pc,         \* "outside" of a phase, "ready" to replay, "collect", "direct"
  batch,      \* pending_curl_phase
  launch      \* the last launch of the phase: what ran, what was due

vars == <<topology, selected, cache, plan, pc, batch, launch>>

-----------------------------------------------------------------------------
(* A mirror.  fresh: it holds the current value of the array.  ahead: it   *)
(* holds results that the host array lacks.                                *)

NoMirror(d) == [address |-> NoAddress, dirty |-> FALSE, uploaded |-> FALSE,
                fresh |-> FALSE, ahead |-> FALSE, ordinal |-> d]

NoPlan == [table |-> <<>>, operations |-> <<>>, current |-> [c \in {} |-> TRUE],
           mode |-> "disabled", topology |-> NoChunk, device |-> NoDevice,
           stable |-> 0, complete |-> FALSE]

NoBatch == [step |-> 1, operations |-> <<>>, mode |-> "disabled",
            flushes |-> 0, batched |-> 0, forbidden |-> FALSE]

NoLaunch == [ran |-> <<>>, due |-> <<>>, stale |-> {}]

Init ==
  /\ topology \in Topologies
  /\ selected \in Devices
  /\ cache = [c \in Chunks |-> NoMirror(NoDevice)]
  /\ plan = NoPlan
  /\ pc = "outside"
  /\ batch = NoBatch
  /\ launch = NoLaunch

Free == Addresses \ {cache[c].address : c \in Chunks}

Published(k) == [k EXCEPT !.ahead = @ /\ ~ k.dirty, !.dirty = FALSE]

(* ensure_resident_mirror: allocates at `a` if there is no mirror, uploads *)
(* unless the mirror is dirty or uploaded.                                 *)
Ensured(k, a) ==
  LET m == IF k.address = NoAddress THEN [k EXCEPT !.address = a] ELSE k IN
  IF m.dirty \/ m.uploaded THEN m
  ELSE [m EXCEPT !.uploaded = TRUE, !.fresh = TRUE]

(* select_cache_device: a cache on another device publishes and moves. *)
OnDevice(k) ==
  IF k.ordinal \in {selected, NoDevice} THEN [k EXCEPT !.ordinal = selected]
  ELSE NoMirror(selected)

(* Mutant of Bumped: only a migration draws a new allocation generation. *)
BumpedByMigration(p, new) ==
  [p EXCEPT !.current = [c \in DOMAIN @ |-> @[c] /\ new[c].ordinal = cache[c].ordinal]]

(* What a change of the caches to `new` leaves of the recorded allocation  *)
(* generations: creating, freeing or moving a mirror draws a new one.      *)
Bumped(p, new) ==
  [p EXCEPT !.current = [c \in DOMAIN @ |->
     /\ @[c]
     /\ new[c].address = cache[c].address
     /\ new[c].ordinal = cache[c].ordinal]]

Become(new, p) == cache' = new /\ plan' = Bumped(p, new)

Incomplete(p) == [p EXCEPT !.complete = FALSE]

-----------------------------------------------------------------------------
(* Between the curl phases of a step *)

Outside == pc = "outside" /\ UNCHANGED <<pc, batch, launch>>

(* The host reads an array: the cache publishes its mirrors and keeps them.*)
HostRead(c) ==
  /\ Outside
  /\ cache[c].dirty
  /\ cache' = [cache EXCEPT ![c] = Published(@)]
  /\ UNCHANGED <<topology, selected, plan>>

(* The host publishes and then writes an array: KrylovWrite of             *)
(* ResidentCache.                                                          *)
HostWrite(c) ==
  /\ Outside
  /\ cache[c].address # NoAddress
  /\ cache' = [cache EXCEPT ![c] = [Published(@) EXCEPT !.uploaded = FALSE, !.fresh = FALSE]]
  /\ UNCHANGED <<topology, selected, plan>>

(* Another kernel of the step uses and writes the array. *)
OtherKernel(c) ==
  /\ Outside
  /\ \E a \in Free :
       LET k == Ensured(OnDevice(cache[c]), a) IN
       Become([cache EXCEPT ![c] = [k EXCEPT !.dirty = TRUE, !.ahead = TRUE]], plan)
  /\ UNCHANGED <<topology, selected>>

(* The array is freed; a new one may take its host address. *)
DiscardMirror(c) ==
  /\ Outside
  /\ cache[c].address # NoAddress
  /\ Become([cache EXCEPT ![c] = NoMirror(@.ordinal)], plan)
  /\ UNCHANGED <<topology, selected>>

(* A host function that rewrites the chunk destroys its cache. *)
DestroyCache(c) ==
  /\ Outside
  /\ cache[c].ordinal # NoDevice
  /\ cache' = [cache EXCEPT ![c] = NoMirror(NoDevice)]
  /\ plan' = IF c \in DOMAIN plan.current THEN NoPlan ELSE plan
  /\ UNCHANGED <<topology, selected>>

(* A cache reset publishes the mirrors and pools their memory. *)
ResetCache(c) ==
  /\ Outside
  /\ cache[c].ordinal # NoDevice
  /\ cache' = [cache EXCEPT ![c] = NoMirror(@.ordinal)]
  /\ plan' = NoPlan
  /\ UNCHANGED <<topology, selected>>

(* The process selects a device: all caches publish, all plans go. *)
SelectDevice(d) ==
  /\ Outside
  /\ d # selected
  /\ selected' = d
  /\ cache' = [c \in Chunks |-> [Published(cache[c]) EXCEPT !.uploaded = FALSE]]
  /\ plan' = NoPlan
  /\ UNCHANGED topology

(* Grids, parameters or array pointers of the owner change; every path     *)
(* that moves an array is one of the actions above.                        *)
ChangeTopology(t) ==
  /\ Outside
  /\ t # topology
  /\ topology' = t
  /\ UNCHANGED <<selected, cache, plan>>

-----------------------------------------------------------------------------
(* A curl phase *)

Modes == {"forced", "automatic", "disabled"}

ReplaySupported(t) == \A i \in DOMAIN Program[t] : Program[t][i].chunk # NoChunk

(* fields::step_db opens the resident phases of its chunks and reads the   *)
(* batching policy.                                                        *)
BeginPhase(m) ==
  /\ pc = "outside"
  /\ Become([c \in Chunks |-> OnDevice(cache[c])], plan)
  /\ batch' = [NoBatch EXCEPT !.mode = m]
  /\ launch' = NoLaunch
  /\ pc' = IF m = "disabled" THEN "direct" ELSE "ready"
  /\ UNCHANGED <<topology, selected>>

Operation(item, k) == [chunk |-> item.chunk, param |-> item.param, address |-> k.address]

(* The operations the chunks would issue now, with current addresses. *)
Due(items) == [i \in DOMAIN items |-> Operation(items[i], cache[items[i].chunk])]
ChunksOf(operations) == {operations[i].chunk : i \in DOMAIN operations}
Stale(operations) == {c \in ChunksOf(operations) : ~ cache[c].fresh}

(* The writable mirrors after a launch. *)
Written(cs) == [c \in Chunks |-> IF c \in cs THEN [cache[c] EXCEPT !.dirty = TRUE, !.ahead = TRUE]
                                 ELSE cache[c]]

Launched(ran, due) == launch' = [ran |-> ran, due |-> due, stale |-> Stale(due)]

(* Each mirror the plan depends on exists and needs no upload. *)
MirrorsReady ==
  \A c \in DOMAIN plan.current :
    cache[c].address # NoAddress /\ (cache[c].dirty \/ cache[c].uploaded)

(* replay_if_ready *)
ReplayReady ==
  /\ ReplaySupported(topology)
  /\ plan.complete
  /\ plan.mode = batch.mode
  /\ plan.topology = topology
  /\ plan.stable >= 2
  /\ Len(plan.operations) >= 2
  /\ \A c \in DOMAIN plan.current : plan.current[c] /\ cache[c].ordinal = plan.device
  /\ MirrorsReady

Sticky(n) == IF n = 2 THEN 2 ELSE n + 1

(* Mutant of Replay: the outputs of a replay are not marked. *)
ReplayUnmarked ==
  /\ pc = "ready"
  /\ ReplayReady
  /\ Launched(plan.table, Due(Program[topology]))
  /\ cache' = [c \in Chunks |-> IF c \in DOMAIN plan.current
                                THEN [cache[c] EXCEPT !.ahead = TRUE] ELSE cache[c]]
  /\ plan' = [plan EXCEPT !.stable = Sticky(@)]
  /\ batch' = NoBatch
  /\ pc' = "outside"
  /\ UNCHANGED <<topology, selected>>

(* The table is launched as it is and its outputs become authoritative.    *)
Replay ==
  /\ pc = "ready"
  /\ ReplayReady
  /\ Launched(plan.table, Due(Program[topology]))
  /\ cache' = Written(DOMAIN plan.current)
  /\ plan' = [plan EXCEPT !.stable = Sticky(@)]
  /\ batch' = NoBatch
  /\ pc' = "outside"
  /\ UNCHANGED <<topology, selected>>

(* The launch of a replay throws. *)
ReplayFails ==
  /\ pc = "ready"
  /\ ReplayReady
  /\ plan' = [Incomplete(plan) EXCEPT !.stable = 0]
  /\ batch' = NoBatch
  /\ pc' = "outside"
  /\ UNCHANGED <<topology, selected, cache, launch>>

(* No replay, or MEEP_GPU_DISABLE_CURL_PHASE_REPLAY. *)
WalkChunks ==
  /\ pc = "ready"
  /\ pc' = "collect"
  /\ UNCHANGED <<topology, selected, cache, plan, batch, launch>>

Item == Program[topology][batch.step]
Remaining == batch.step <= Len(Program[topology])

(* collect_curl_phase_operation: the mirror is ensured, the operation kept *)
(* and its output marked; the first operation makes the plan incomplete.   *)
Collect ==
  /\ pc = "collect" /\ Remaining /\ Item.chunk # NoChunk
  /\ \E a \in Free :
       LET k == Ensured(cache[Item.chunk], a) IN
       /\ Become([cache EXCEPT ![Item.chunk] = [k EXCEPT !.dirty = TRUE]],
                 IF batch.operations = <<>> /\ batch.flushes = 0
                 THEN Incomplete(plan) ELSE plan)
       /\ batch' = [batch EXCEPT !.step = @ + 1,
                                 !.operations = Append(@, Operation(Item, k))]
  /\ UNCHANGED <<topology, selected, pc, launch>>

(* The mirror of the next operation cannot be allocated or uploaded, and   *)
(* the batch is destroyed.                                                 *)
CollectFails ==
  /\ pc = "collect" /\ Remaining /\ Item.chunk # NoChunk
  /\ \E k \in {cache[Item.chunk]} \cup
              {[cache[Item.chunk] EXCEPT !.address = a] :
                 a \in IF cache[Item.chunk].address = NoAddress THEN Free ELSE {}} :
       Become([cache EXCEPT ![Item.chunk] = k], Incomplete(plan))
  /\ batch' = NoBatch
  /\ pc' = "outside"
  /\ UNCHANGED <<topology, selected, launch>>

Flushing ==
  /\ pc = "collect"
  /\ batch.operations # <<>>
  /\ Remaining => Item.chunk = NoChunk

Flushed == [batch EXCEPT !.operations = <<>>, !.flushes = @ + 1]

DueNow == Due(batch.operations)
Updated == [c \in Chunks |-> IF c \in ChunksOf(batch.operations)
                             THEN [cache[c] EXCEPT !.ahead = TRUE] ELSE cache[c]]

(* A single operation, or several that the automatic policy does not       *)
(* batch, are launched one by one.                                         *)
FlushUnbatched ==
  /\ Flushing
  /\ Len(batch.operations) = 1 \/ batch.mode = "automatic"
  /\ Launched(batch.operations, DueNow)
  /\ cache' = Updated
  /\ batch' = Flushed
  /\ UNCHANGED <<topology, selected, pc, plan>>

DeviceOf(operations) == cache[operations[1].chunk].ordinal

(* release_curl_phase_plan, for a plan on another device *)
KeptPlan ==
  IF plan.device \in {NoDevice, DeviceOf(batch.operations)} THEN plan ELSE NoPlan

(* The plan after a batched flush.  The table on the device is written     *)
(* again only if the operations differ from those it was made of.          *)
Recorded(p) ==
  LET matches == p.operations = batch.operations
      stable  == /\ matches
                 /\ DOMAIN p.current = ChunksOf(batch.operations)
                 /\ \A c \in DOMAIN p.current : p.current[c]
                 /\ p.mode = batch.mode
                 /\ p.topology = topology
  IN  [table |-> IF matches THEN p.table ELSE batch.operations,
       operations |-> batch.operations,
       current |-> [c \in ChunksOf(batch.operations) |-> TRUE],
       mode |-> batch.mode, topology |-> topology,
       device |-> DeviceOf(batch.operations),
       stable |-> IF stable THEN Sticky(p.stable) ELSE 0,
       complete |-> FALSE]

FlushBatched ==
  /\ Flushing
  /\ Len(batch.operations) >= 2
  /\ plan' = Recorded(KeptPlan)
  /\ Launched(plan'.table, DueNow)
  /\ cache' = Updated
  /\ batch' = [Flushed EXCEPT !.batched = @ + 1]
  /\ UNCHANGED <<topology, selected, pc>>

(* A flush throws: the table cannot be allocated or copied, or the launch  *)
(* fails after the plan was recorded.  A copy that fails in place is taken *)
(* to leave the table as it was: after an error of the copy itself the     *)
(* context of the device is lost, and nothing is launched from it again.   *)
FlushFails ==
  /\ Flushing
  /\ plan' \in {Incomplete(plan)} \cup
        (IF Len(batch.operations) = 1 THEN {}
         ELSE {Incomplete(KeptPlan), Incomplete(Recorded(KeptPlan))})
  /\ batch' = NoBatch
  /\ pc' = "outside"
  /\ UNCHANGED <<topology, selected, cache, launch>>

(* Mutant of DirectOperation: the phase may still be recorded as one table. *)
DirectOperationUnnoticed ==
  /\ pc = "collect" /\ Remaining /\ Item.chunk = NoChunk
  /\ batch.operations = <<>>
  /\ batch' = [batch EXCEPT !.step = @ + 1]
  /\ UNCHANGED <<topology, selected, cache, plan, pc, launch>>

(* An operation that is not collected (beta, BFAST, cylindrical) comes     *)
(* after a flush of what was collected before it; the phase is not a table.*)
DirectOperation ==
  /\ pc = "collect" /\ Remaining /\ Item.chunk = NoChunk
  /\ batch.operations = <<>>
  /\ batch' = [batch EXCEPT !.step = @ + 1, !.forbidden = TRUE]
  /\ plan' = Incomplete(plan)
  /\ UNCHANGED <<topology, selected, cache, pc, launch>>

(* finish, with certify_complete_curl_phase_noexcept *)
FinishPhase ==
  /\ pc = "collect" /\ ~ Remaining /\ batch.operations = <<>>
  /\ LET complete == batch.flushes = 1 /\ batch.batched = 1 /\ ~ batch.forbidden IN
     plan' = [plan EXCEPT !.complete = complete, !.stable = IF complete THEN @ ELSE 0]
  /\ batch' = NoBatch
  /\ pc' = "outside"
  /\ UNCHANGED <<topology, selected, cache, launch>>

(* With batching disabled every operation is launched by itself. *)
UnbatchedOperation ==
  /\ pc = "direct" /\ Remaining
  /\ \/ Item.chunk = NoChunk /\ UNCHANGED <<cache, plan, launch>>
     \/ /\ Item.chunk # NoChunk
        /\ \E a \in Free :
             LET k == Ensured(cache[Item.chunk], a) IN
             /\ Become([cache EXCEPT ![Item.chunk] = [k EXCEPT !.dirty = TRUE, !.ahead = TRUE]], plan)
             /\ launch' = [ran |-> <<Operation(Item, k)>>, due |-> <<Operation(Item, k)>>,
                           stale |-> IF k.fresh THEN {} ELSE {Item.chunk}]
  /\ batch' = [batch EXCEPT !.step = @ + 1]
  /\ UNCHANGED <<topology, selected, pc>>

FinishUnbatched ==
  /\ pc = "direct" /\ ~ Remaining
  /\ batch' = NoBatch
  /\ pc' = "outside"
  /\ UNCHANGED <<topology, selected, cache, plan, launch>>

Next ==
  \/ \E c \in Chunks : HostRead(c) \/ HostWrite(c) \/ OtherKernel(c) \/ DiscardMirror(c)
                       \/ DestroyCache(c) \/ ResetCache(c)
  \/ \E d \in Devices : SelectDevice(d)
  \/ \E t \in Topologies : ChangeTopology(t)
  \/ \E m \in Modes : BeginPhase(m)
  \/ Replay \/ ReplayFails \/ WalkChunks
  \/ Collect \/ CollectFails \/ DirectOperation
  \/ FlushUnbatched \/ FlushBatched \/ FlushFails \/ FinishPhase
  \/ UnbatchedOperation \/ FinishUnbatched

Spec == Init /\ [][Next]_vars

-----------------------------------------------------------------------------
(* Every launch, of a fresh table, a reused one or a replay, runs exactly  *)
(* the operations the chunks would issue now, at the addresses their       *)
(* arrays have now, on current contents.                                   *)
LaunchesAreCurrent == launch.ran = launch.due /\ launch.stale = {}

(* Results that only the device has are marked, so that the next reader on *)
(* the host, the next destruction or the next migration publishes them.    *)
ResultsAreMarked == \A c \in Chunks : cache[c].ahead => cache[c].dirty

(* A plan that may be replayed is the table of one whole phase of its      *)
(* topology: nothing was launched beside it and nothing is left out.       *)
CompletePlansAreWholePhases ==
  plan.complete =>
    /\ Len(plan.operations) = Len(Program[plan.topology])
    /\ \A i \in DOMAIN plan.operations :
         /\ plan.operations[i].chunk = Program[plan.topology][i].chunk
         /\ plan.operations[i].param = Program[plan.topology][i].param
    /\ plan.table = plan.operations
=============================================================================
