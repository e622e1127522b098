# GPMeep in TLA+

GPMeep is a fork of Meep (an FDTD solver for electromagnetics) that can run the
time step of a simulation on CUDA devices. The numerics are Meep's. What the fork
adds is a set of caches and protocols: field arrays that live on a device and are
copied to the host only when somebody looks, a backend that is chosen per
simulation object, a table by which MPI ranks claim devices, halo messages that are
packed, sent and scattered around kernels, tables of kernels that are replayed with
the addresses they recorded, and verdicts that stay on the device until they are
read. Above them are Meep's Python layer, whose objects create and destroy C++
objects behind the user's back, and a controller that runs long matrices of
simulations and survives being killed. These parts keep state across calls, are
entered from many places, and go wrong without a crash: a wrong number, a hang of a
large job, two ranks on one device, a result that is lost. This project models them.

Paths below are relative to the repository; the library is in `src/`, the CUDA
runtime in `cuda/src/`, the Python layer in `python/`, the controller in
`scripts/user-workloads/`.

## 1. Inventory

| Component | State it keeps | Operations | Talks to |
|---|---|---|---|
| Backend selection (`src/gpu_backend.cpp`, `backend_state`) | requested and active backend, selected device, readiness, generation | `set_backend`, `select_device`, refresh from the environment, preparation and activation by a step | every owner's decision; publishes all resident caches before a change |
| Resident cache (`gpu_backend.cpp`, `resident_cache`) | per owner: mirrors of host arrays (dirty bit, upload epoch), device, open phase | phases, upload on demand, kernels, sync, destroy, discard, invalidate, migrate | kernels of a step; every host function that reads or writes a field array |
| DFT residency and checkpoints (`dft.cpp`) | DFT arrays as mirrors of the resident cache | accumulate, scale, subtract, flux, save, load | resident cache; the process-wide active backend |
| Device assignment (`mympi.cpp`, `gpu_backend.cpp`) | one claim per rank in an RMA window of the MPI world; validated owners per rank | gather, release, barrier, claim, reduction | `fields::validate_gpu_device_assignment` |
| Finite check (`resident_finite_check_session`) | verdict word on the device, generation counter, pending flag | open session, accumulate, finish with or without readback | the resident cache that owns the word |
| Distributed preflight (`step_db.cpp`, `step.cpp`) | decision cache per owner and rank | about fifteen conditional collectives per step | device assignment, transport, backend selection |
| Transport negotiation (`mympi.cpp`) | settings of each rank | one collective comparison | distributed preflight, boundary exchange |
| Boundary exchange (`step.cpp`, `boundaries.cpp`, `mympi.cpp`) | topology cache, send and receive buffers, device stream, requests, messages on their way | gather, post, wait with callbacks, scatter, overlap with the update | kernels on the same arrays; the peers' exchanges |
| Persistent plans (`gpu_backend.cpp`) | tables with the device addresses they captured, stability counts, certificates | collect, flush, record, certify, replay, drop | allocation generations of the resident caches |
| Automatic policy, curl partition (`step_db.cpp`) | none | pure functions | preflight, curl kernels |
| User-workload matrix controller (`run_user_workload_matrix.py`) | lock, journal, checkpoint, marks, report, logs, history | start, resume, run a child, validate, checkpoint, archive, close, verify | child processes; a second controller of the same directory |
| Python run loop (`python/simulation.py`) | time, closures of step functions and stopping conditions | `run`, modifiers, conditions, `restart_fields` | `fields.step`, user code |
| Simulation object and checkpoints (`python/simulation.py`) | C++ fields and structure if they exist, list of monitors, pending file | lazy creation, changes, reset, restart, dump, load | C++ fields, DFT chunks, user code |
| Adjoint solver (`python/adjoint/optimization_problem.py`) | state INIT, FWD or ADJ, values, monitors | call, finite differences, plot | one Simulation |
| JAX wrapper (`python/adjoint/wrapper.py`) | monitors of the latest forward call | simulate, forward, reverse | one Simulation; JAX decides when |
| Chunk balancer (`python/chunk_balancer.py`) | a tree of split positions | adjust by measured times | structure |
| FDTD core, sources, materials, monitors, HDF5, geometry, bindings | fields and geometry | Meep's own numerics and I/O | read and write the arrays of the resident cache |
| Qualification scripts, notebooks, examples | none of their own | run programs and judge numbers | |

What is hard in it:

* **Stale copies.** Host and device hold the same array. Every host function
  that touches it has to sync before it reads and to invalidate after it writes, in the
  right order, and a failing copy may happen anywhere in between. A replayed table
  holds addresses on top of that, and an address may be recycled.
* **One active backend, several owners.** The active backend is a variable of the
  process; the decision to use it belongs to an owner and is cached.
* **Callbacks inside a step.** Custom sources and materials run user code between
  two kernels, which may even change the backend if no phase is open; receive callbacks
  run while MPI waits.
* **Three clocks.** The host thread, the device stream and MPI proceed independently;
  the bytes of a message belong to one of them at a time.
* **One claim per rank, one validation per owner**, and subcommunicators that
  validate at the same time.
* **A counter that wraps**: the 32-bit generation of the finite check.
* **Conditional collectives**: a branch on something only one rank knows hangs the
  job; an exception on one rank does too.
* **Crash and restart.** The controller may die between any two files it writes, also
  while it repairs what an earlier death left.
* **Objects created late and destroyed early.** A monitor of a script becomes a C++
  object in whichever call needs one first, and disappears with the fields; closures
  that remember samples outlive the run they were built for.
* **Partial failure**: an exception between two calls on a shared Simulation leaves
  it with the sources, the Bloch vector or the monitors of something else.

What makes each part correct: the cache is invisible (a program with it computes
what a program without it computes); a CPU step finds nothing left on a device; a
phase runs on the selected device; devices are not shared without consent; a
NaN that was seen is reported once and no other is; ranks meet in the same
collectives, on one backend, and a step ends; an update uses the neighbours' values
of its own step; a launched table is what the chunks would issue now; a matrix that
is restarted after every stop comes to a verifiable end and loses nothing it has
checkpointed; step functions are called when their modifiers say, and runs stop when
their conditions do; a loaded checkpoint continues what was dumped; values and
gradients come from the runs of the design they are reported for.

`PROJECT.json` lists all components with what is left out and why, and the hazards
at the lines where they bite.

## 2. Plan

1. **Done** — `ResidentCache` with `BackendState`, its abstract `FieldStore`, and the
   proof that one implements the other; `DftResidency` on top of it; `DeviceClaims`
   and its proofs; `FiniteVerdict`, its abstract `StickyVerdict`, and the refinement
   proof; `DistributedPreflight`.
2. **Done** — `BoundaryExchange` with the transport negotiation and its abstract
   `HaloLockstep`; `CurlPhaseReplay` and its proofs; `MatrixResume` with crashes and
   restarts; the Python layer: `StopConditions`, `RunLoop`, `Simulation`,
   `CheckpointScript`, `OptimizationProblem`, `MeepJaxWrapper`.
3. **Next to model** — `CurlPartition` and the automatic policy as pure operators
   against reference definitions on small boxes; destruction of an owner whose last
   copy fails; the CPU exchange and the construction of the connection lists; the E/H,
   source and polarization plans; lanes that survive their controller; `change_m` and
   cylindrical or `special_kz` simulations in `Simulation`.
4. **Done** — the proofs of `DftResidency` from the lemmas about `ResidentCache`, of
   `DistributedPreflight`, and of `BoundaryExchange` with its refinement of
   `HaloLockstep`.
5. **Done** — the proofs of `MatrixResume`: which files exist at each place of `main`, and
   how they relate to the items completed.
6. **Done** — the proofs of `Simulation` with its three users, for careful ones, and of
   `StopConditions`, which is the part of `RunLoop` without recursive operators.
7. **Next to prove** — `RunLoop` for one level of modifiers, as a function on programs
   instead of an operator on trees.

## 3. Modules

    FieldRows <- FieldStore                    what an array store is
    FieldRows, BackendState <- ResidentCache <- DftResidency <- MCDftResidency
    DftResidency <- ResidencyProofs
    DeviceClaims <- DeviceClaimsProofs, MCDeviceClaims
    FiniteVerdict <- FiniteVerdictProofs, MCFiniteVerdict
    DistributedPreflight <- DistributedPreflightProofs
    BoundaryExchange <- BoundaryExchangeProofs
    MatrixResume <- MatrixResumeProofs
    CurlPhaseReplay <- CurlPhaseReplayProofs, MCCurlPhaseReplay
    Simulation <- CheckpointScript
    Simulation <- OptimizationProblem <- MeepJaxWrapper
    StopConditions <- RunLoop
    RunLoop, CheckpointScript, MeepJaxWrapper <- MCFrontEnd
    StopConditions, CheckpointScript, MeepJaxWrapper <- FrontEndProofs

`<-` reads "is extended by". `ResidentCache` instantiates `FieldStore`,
`FiniteVerdict` instantiates `StickyVerdict`, `BoundaryExchange` instantiates
`HaloLockstep`: the abstract specification of each. `MC*` modules are instances for
TLC. Operators whose comment begins with "Mutant of" or "A bug" are deliberately
wrong variants of the definition that follows them. No specification uses them;
substituting one for its definition must break a property.

### BackendState, ResidentCache

An owner is a `fields` object with one local chunk and that chunk's cache.

| Model | Code |
|---|---|
| `requested`, `active`, `selected`, `ready` ... | `backend_state` |
| `exec[o]` | cached decision of the owner for the current generation: `"none"`, `"cuda"`, `"cpu"`, or `"fallback"` (a CPU decision that a change of features re-opens) |
| `host`, `dev` | contents of the host arrays and of their mirrors |
| `dirty`, `uploaded` | `device_dirty`; `uploaded_epoch != 0` |
| `ordinal` | `device_ordinal` |
| `phase` | `phase_active` and where the step is: in a persistent step (`"step"`), in an operation that owns its phase (`"op"`), or in a step that has none now (`"open"`) |
| `io` | the last operation as its caller saw it; it exists for the refinement |

Selection is `SetBackend`, `SetBackendFails`, `SelectDevice`; a changed environment
is a `SetBackend` that the next step makes. A step begins with one of
`BeginCpuStep` (cached), `AutomaticCpuStep`, or `AdmitCuda` followed by `BeginCudaStep`
(a persistent step), `BeginOpenCudaStep` (fluxes are recorded, or `initialize_field`) or
`BeginCudaStepWithNewMaterials`; its preflight may throw after it activated CUDA
(`CudaPreflightFails`) or before it activated anything (`CandidateFails`). An open step
runs `CpuUpdate` while the CPU is active, and `BeginOperation` while CUDA is; in a
phase, `Kernel` runs any number of times. A step ends by `FinishStep`, an operation by
`FinishOperation`, which publishes its results; an exception ends the step in
`FinishOperationFails` or `KernelFails`. Host
operations are `HostRead`, `PointRead`, `KrylovWrite`, `HostRewrite` and
`ReplaceArray`; each stands for all functions that treat the cache alike (sync and
read; read through the mirror; sync, write and invalidate; sync, write and destroy;
free and reallocate).

Abstractions: kernels are an arbitrary function `Combine` of two arrays; an array is
one mirror (sub-ranges and pooled allocations are left out); the 64-bit epoch is
reduced to "uploaded or not", and opening a phase may lose the uploaded marks, as the
branch of `begin_resident_phase` for an exhausted counter does. Backend and device may
change between steps and in a callback of a step that has no phase open (`NoPhase`),
because that is all the code refuses: the rest of such a step runs on the new backend,
whatever its preflight decided. Steps of two owners do not nest. A preflight that
re-opens a `"fallback"` and throws after it activated CUDA drops that decision here; the
code keeps it, and uses it again only if the features of the step become what they were.
`synchronize_magnetic_fields` steps H without a preflight, on the backend of the owner
that stepped last, between a `backup_component` and an `average_with_backup` of the same
components: it is one `HostRewrite`, and the states inside it are left out. A cache that migrates publishes its
dirty mirrors first (`OnDevice`, as `select_cache_device` does); since every change of
the device has published all caches already, that copy is a second line of defence:
no reachable state of the runs has anything left to publish there.

`FieldStore` is an array store with reads, writes and updates and no device. The
refinement maps its contents to `Authoritative`: the mirror where it is dirty, the
host array elsewhere.

### DftResidency

Extends the same state with the DFT functions of `dft.cpp`. Several of them branch
on the process-wide `cuda_active()` and not on the owner's decision, hence the pairs
`...OnDevice` and `...OnHost` guarded by `active`. A load may fail between its
uploads. `DftSpec` allows every request. `MatchingSpec` lets owners decide
differently, and uses the DFT of an owner only while the active backend is that
owner's; what happens otherwise is the run `load_hidden`.

### DeviceClaims

`table` is the RMA window, `valid[r]` the owners whose cached validation is of the
rank's current generation, `pc` the place of a rank in
`validate_distributed_device_assignment`. Table accesses are atomic because the code
holds an exclusive lock on the window; collectives are one action of their group.
MPI errors abort the job and are not modelled.

### FiniteVerdict

`slot`, `gen` and `pending` are the verdict word, `finite_result_generation` and
`finite_result_pending`; a word not allocated yet is a word that holds 0.
`LaunchFails` covers a launch that throws with or without having scanned. The counter
wraps at `MaxGen`, which is 2^32 - 1 in the code and 3 in the run. `StickyVerdict`
is a bit that scans set and a readback or the end of the cache clears; the
refinement maps it to `pending /\ slot = gen`.

### DistributedPreflight

Each rank runs the chain by itself. `at[r]` is the collective it is in, `vote[r]`
its contribution, `out[r]` the set of votes it got back. `Complete` fires only when
all ranks wait in the same collective. Nothing in the model synchronises ranks
otherwise, so a branch on local state shows as ranks in different collectives. What a
rank votes on memory, cells or transport is free. `stamp` tells a decision of this
environment from one of another, and from one of an older generation;
`SetEnvironment` lets a rank change a variable and change it back. An exception of a
multi-rank step is `MPI_Abort`, by the handler around the preflight or by
`distributed_step_failure_guard`.

### BoundaryExchange, HaloLockstep

| Model | Code |
|---|---|
| `setting` | what `MEEP_GPU_MPI_TRANSPORT`, `MEEP_GPU_MPI_COMPLETION` and the MPI library say on each rank, until they are compared |
| `transport`, `waitall` | pinned or device buffers; completion by Waitall or Waitsome |
| `pc[r]` | the host thread in `step_boundaries_impl`: idle, at the fence of the receive buffer, launching, ready to post, overlapping, waiting |
| `warm`, `next`, `mode` | the cached topology, the ping-pong slot, and how the running exchange goes: cold or cached, eager or not, which receive slot |
| `stream[r]` | operations queued on the device: gather, copy of a message, scatter, and the update, whole or as interior and shell |
| `edge`, `halo`, `used` | owned boundary values, copies of the neighbours' ones, the copies the last update read; a value is the number of updates that made it |
| `sendDevice`, `sendHost`, `recvDevice`, `recvHost` | the message bytes |
| `sendReq`, `recvReq`, `wire` | requests, and messages between their send and their receive |

`NegotiateTransport` is the comparison of the settings, for every combination of
them; only agreement starts an exchange. `Begin`, `Fence`, `Launch`, `SendReady`,
`PostRequests`, `Overlap`, `ReceiveCallback`, `Scatter`, `Finish` are the parts of
`step_boundaries_impl` in its order; `Execute` is the device, `Transmit` and
`Deliver` are MPI. A callback may fail; the error is rethrown when the remaining
requests are drained (`Fail`) and the guard aborts the job. The update of the E and H
fields reads no halo, so an exchange whose overlap launches nothing stands for it as
well. There is one message per pair of ranks and field type.

`HaloLockstep` says that the n-th update of a rank sees its neighbours after n
updates. The mapping is `done <- edge`, `saw <- used`.

### CurlPhaseReplay

| Model | Code |
|---|---|
| `topology` | all that the fingerprint of `step_db` covers; `Program` gives the operations of a phase |
| `cache[c]` | mirror of the array of chunk c: address, dirty, uploaded; `fresh` and `ahead` say what its bytes really are |
| `plan` | `curl_phase_plan`: table on the device, recorded operations, replay mode, stability count, completeness |
| `batch` | `pending_curl_phase`: what was collected, flushed, batched, forbidden |
| `launch` | the last launch: what ran, what the chunks would have issued, what was stale |

Between phases the host reads, writes, discards, destroys, resets and migrates as in
`ResidentCache`, but the addresses count here: a freed address may come back for
another chunk. Allocation generations grow for ever in the code; the plan keeps, for
each recorded generation, whether the cache still has it (`current`). In a phase,
`ReplayReady` and `Replay` are the short cut; otherwise `WalkChunks` collects the
operations, `FlushBatched` builds or reuses the table, `DirectOperation` is an
operation that is not collected, and any part may fail.

### MatrixResume

| Model | Code |
|---|---|
| `owner` | holder of the `flock` on `LOCK` |
| `journal`, `checkpoint` | `JOURNAL.json`, `CHECKPOINT.json` |
| `marks`, `report`, `complete` | `RUNNING`, `FAILED`, `DEVELOPMENT`; `report.json`; `COMPLETE` |
| `output`, `logs` | runtime directory and log of each item |
| `history` | `resume-history`, and which attempts have `ARCHIVED.json` |
| `pc`, `done`, `events` | per launcher: place in `main`, completed items, journal in memory |

Every write is atomic, because `atomic_write_text` renames and syncs; a step ends at
each of them. `Crash` ends a controller without its handler (SIGKILL, power,
KeyboardInterrupt, which `except Exception` does not catch); `Fault` is an exception,
after which the handler runs (`HandlerUnlinks`, `WriteFailure`). Two launchers race for
the lock. A resume verifies (`Load`), archives (`ArchiveFile`, `SealArchive`),
truncates the journal and goes on. Report and COMPLETE contain what they bind, not
its hash.

### StopConditions, RunLoop

| Model | Code |
|---|---|
| `t`, `ts` | `fields.t`, `last_source_time()`; one step is one unit |
| `signal` | what the conditions sample, chosen step by step |
| `script` | the step functions and conditions the user built, and when |
| `objects`, `verdicts` | the closures of each step function and condition |
| `run` | the running or last run, with its stop list after `_run_until` has rewritten it |
| `calls`, `last` | the calls the user's function received in it, and when the step functions were last evaluated before it |

`StopConditions` is the loop without its step functions: what the list of a run
becomes, and what the closures of the conditions do. `RunLoop` adds the step functions:
each of its actions is one of `StopConditions` with what happens to `objects` and
`calls`. `Build` (`BuildStops`) makes new objects, `Run(after)` (`RunStops`) is `run`
with `until` or `until_after_sources`, `Step` (`GoOn`) one iteration of the loop,
`Finish` (`Stop`) its end, `Interrupt` (`GiveUp`) an exception, `restart_fields`
(`RestartTime`) the return to time zero. `Careful` restricts scripts to uses that do
what the manual says (`CarefulStops`, `FreshFunctions`). What the code
does beyond them is in the model, and is not what the manual says:

* All numbers of an `until` list read the loop's variables when they are called, so
  all use the last one; in an `until_after_sources` list every function asks
  `cond[last]`, and one that is followed by a number raises (simulation.py:2943-3015).
* The list of the caller is rewritten in place; used again, its number is a
  time of the run before (2951).
* `after_sources_and_time` compares `t` with `last_source_time + T - t` (5339) and so
  fires half way between.
* `after_time`, `before_time` and `at_time` count from time zero, not from the start of
  the run; `at_every` is half a step early by its tolerance.
* `at_beginning` never passes "finish" on; `after_sources` and `during_sources` swallow
  it, or hand on "step" in its place, if a run ends before the sources do.
* Decay conditions keep their maxima after `restart_fields`; `stop_when_dft_decayed`
  and `stop_when_flux_decayed` fix their interval only at time zero, and the former
  does not restart its window with its first measurement (5695-5697).

Not in the model: `when_true` calls a condition, which by the manual takes no
arguments, with the simulation, and what `when_false` passes on takes none
(5305-5311, 5826); `_run_sources` passes `self` twice (3023);
`minimum_run_time` and `maximum_run_time`.

### Simulation, CheckpointScript

`sim` is the Python object with the C++ objects it owns:

| Model | Code |
|---|---|
| `fields` | `None`, or the C++ fields: real or complex, Bloch vector, sources, structure, `history`, registered DFT chunks in order |
| `dft_objects`, `handle` | the list, and what each monitor object points to: nothing yet, chunks of the fields, chunks of its own (persistent or detached), freed memory |
| `load_fields_file` | the pending file, which is never forgotten |
| `queue` | the calls that a driver has still to make |

A field is its history: the Bloch vector, sources and structure of each run since time
zero; a DFT is the list of histories it accumulated. That tells apart all that the
properties need: which runs, with what, in what order. A run is one step here, its
inside is `StopConditions` and `RunLoop`.

`CheckpointScript` is a user with monitors, changes of sources and Bloch vector,
dump, load and new processes. `promised` follows the calls by the manual: what the
fields and every monitor should have accumulated. `CarefulScript` demands that no
monitor is added or touched while a load is pending, that monitors are touched in the order
of their declaration, that a change from real to complex fields is made without
monitors or file, that nothing is reset while a file is set, and that a dump is made
with all monitors created and loaded into the same setup.

### OptimizationProblem, MeepJaxWrapper

`opt` is the optimizer: its state, values, gradient and place in `__call__`. Each of
its parts queues the calls it makes on the Simulation and waits; `Raise` may end the
row between any two. A call with `need_value = False` may return without a forward run
(`ReturnUnasked`), which counts as no answer. `get_fdf_funcs` adds two such callers: `_df`
drops its argument (optimization_problem.py:239), although the docstring calls it a
function of the design, and is `CallAgain`. The finite difference leaves the design changed.
`CarefulOptimizer` excludes what the code does not recover from: going on without a new
design after a failed call (unless it failed before its forward run ended), a
finite difference or plot between the runs of a gradient, and using a problem whose Bloch vector
was left negated.

`jax` holds the forward calls JAX has still to differentiate. `CarefulJax`: only the
latest call, and once; the wrapper keeps one set of forward monitors. It does not
negate the Bloch vector, so its instance has k = 0.

## 4. Runs

| Run | Instance | Properties |
|---|---|---|
| `dft_one_owner` | 1 owner, a field and a DFT array, 2 devices | `TypeOK`, `CleanMirrorsMatchHost`, `PhaseOnSelectedDevice`, `BehavesAsFieldStore` |
| `dft_two_owners` | 2 owners, 1 DFT array each, 1 device, `MatchingSpec` | `CpuOwnersHoldNoMirrorState`, `WritesAreVisible`, `BehavesAsFieldStore` |
| `device_claims` | ranks {1,2} and {3}, 1 owner each, 2 devices | `ClaimsAreCompatible`, `NoSilentOversubscription`, `ValidationEnds` |
| `finite_verdict` | 2 devices, counter wraps after 3 | `PendingIsOnSelectedDevice`, `BehavesAsStickyVerdict` |
| `distributed_preflight` | 2 ranks | `CollectivesMatch`, `OneBackend`, `CachedDecisionsAgree`, `StepEnds` |
| `boundary_exchange` | 2 ranks, 3 exchanges each, all settings | `ReceiveBytesAreFree`, `SendBytesAreStable`, `ExchangeKeepsLockstep`, `NegotiationHonoursRequests`, `ExchangesEnd` |
| `curl_phase_replay` | 2 chunks, 3 addresses, 2 devices, 4 kinds of phase | `LaunchesAreCurrent`, `ResultsAreMarked`, `CompletePlansAreWholePhases` |
| `matrix_resume` | 2 lanes, 1 comparison, 2 launchers, 2 kills, 1 exception | `CheckpointIsResumable`, `RunsStartClean`, `CompletionIsVerifiable`, `CheckpointedWorkIsKept`, `RestartsCloseTheMatrix` |
| `front_end` | the run loop, a script, an optimizer or a JAX program | `StepsAreDue`, `FinishFollowsSteps`, `DecayWasMeasured`, `StopsAtTheFirstCondition`, `MonitorsContinue`, `RegisteredMonitorsAreHeld`, `NoDanglingMonitor`, `ValuesAreOfTheDesign`, `GradientIsConsistent`, `GradientIsOfItsCall` |
| `load_hidden` | 2 owners, automatic backend, `DftSpec` | violates `WritesAreVisible` |
| `shared_claim` | 2 single-rank groups, 2 owners, 1 device | violates `NoSilentOversubscription` |
| `archive_interrupted` | 1 lane, 1 comparison, 2 kills | violates `ReportsBindEveryArchive` |

Run one with `tlc -config <cfg> <module>`; `PROJECT.json` names the pairs. Each
takes between a few seconds and about three minutes.

**Bounds.** There is no state constraint; what is bounded is bounded by a guard or a
constant.

* *Caches and claims.* Nothing to bound: two devices are what a migration needs, two
  arrays what a kernel with an input and an output needs, two owners what a shared
  backend variable needs, two values with the non-constant `Combine` (NAND) what
  telling a stale copy from a fresh one needs. Three ranks in groups of two and one
  give a collective with more than one member and a rival at the table.
* *Preflight.* Ranks react to the set of votes, and with two ranks every set of
  Boolean votes occurs. A counter that wraps after three generations (`MaxGen`) lets
  the verdict word hold what any earlier generation left there.
* *Boundary exchange.* `MaxRounds` = 3: a cold exchange, one with the secondary receive
  buffer, and one with the primary again, whose last scatter may still be queued. A
  topology may be rebuilt between any two. The messages of different peers meet only in the
  queue of their receiver, and in the count of requests; two ranks do not show two peers whose
  messages complete in either order.
* *Curl replay.* Two chunks, three addresses (so that one is free to be recycled), and
  phases that are whole, split by a direct operation, end with one, or have a single
  operation. The count of equal tables that makes a plan sticky is 2, as in the code.
* *Matrix.* The second kill can hit the repair of what the first left. A lane and its
  comparison go through the same steps; two lanes and one comparison give a
  completed, an interrupted and a future item. `MaxAttempts` = 3 leaves one restart after each stop.
* *Run loop.* `MaxTime` = 4 with intervals 1 and 2, sources that end at 2, and signals
  0, 1 and 4 that `Decay` = 4 tells apart: rise, decay and a zero in between all fit.
  Several runs fit into a session as well.
* *Simulation users.* `MaxHistory` = 2 and `MaxData` = 1: a dump is made once, after a run and
  with room for one more, which is the one that shows whether a restored
  simulation continues. Two monitors (order matters), two source lists, Bloch vectors 0
  and 1 (real and complex), two designs (old and new), two objectives (the second adjoint
  run starts where the first ended).

**Symmetry** is declared over owners and devices (resident cache), addresses and
devices (curl replay), monitors and source lists of the script (front end): only
in runs without liveness, and over values that nothing names. The other constants of
the front end are ordered or named by the code.

**Deadlock** is checked except in `matrix_resume`, `archive_interrupted` (a closed
matrix stops) and `front_end` (a script ends). An aborted job, and ranks that have
made their exchanges, stutter explicitly (`Ended`).

**Fairness.** None in the cache, verdict, replay and front-end modules; their
properties are safety properties.

* `DeviceClaims`, `DistributedPreflight`: a rank that is inside a validation or a
  preflight keeps running, and a collective that every member has entered returns.
  Nothing forces a rank to begin a step, except that its peers come to a step that
  one of them has entered (`JoinStep`), which is the SPMD contract of the library.
* `BoundaryExchange`: the same contract (`Join`); a host thread goes on
  (`HostStep`); a device executes what is queued; MPI makes progress on a message only
  while its sender or receiver waits in MPI (`Progress`), as the standard promises no
  more; an exception is not held back for ever (`Rethrow`). No callback is assumed to fail.
* `MatrixResume`: a controller that runs goes on, because `run_bounded` kills a child
  at its time limit; and somebody starts the command and repeats it with `--resume`,
  which is what the user guide asks for. Crashes and faults are not forced.

No fairness is assumed of failures, reconfiguration or the choice of votes.

**Findings.** Three runs contradict what the documentation says.

* `load_hidden`: `commit_dft_hdf5_datasets` discards mirrors only if CUDA is the
  active backend of the process. A dirty mirror of a CUDA owner survives a load made
  after another owner's automatic CPU step and hides the loaded data. `scale_dft`
  chooses its side by the same flag: for an owner that steps on the CPU it may leave
  the scaled DFT in a dirty mirror, which the next CPU step does not look at.
* `shared_claim`: the validation of a second owner withdraws the rank's one claim. If
  it fails, the first owner goes on with its cached validation and no claim, and
  another subcommunicator is granted the device.
* `archive_interrupted`: a controller that dies between making an attempt's directory
  and writing its `ARCHIVED.json` leaves an attempt that no later resume seals and
  every report rejects. Every resume runs to the report and fails. The M3 and hybrid
  matrices use the same archive helper.

The passing runs `dft_two_owners` and `device_claims` differ from the first two only in
`MatchingSpec` and in the number of owners; `RestartsCloseTheMatrix` exempts the
third. The run loop's divergences from the manual are listed in section 3.

## 5. Proofs

Checked by TLAPS (`tlapm <module>`), for every value of the constants under the named
assumptions of the modules.

| Theorem | Says |
|---|---|
| `ResidencyProofs!TypeCorrect` | `TypeOK` always |
| `ResidencyProofs!MirrorCoherence` | `CleanMirrorsMatchHost` always |
| `ResidencyProofs!CpuIsolation` | `CpuOwnersHoldNoMirrorState` always |
| `ResidencyProofs!PhaseDevice` | `PhaseOnSelectedDevice` always |
| `ResidencyProofs!CacheImplementsStore` | `ResidentCache` implements `FieldStore` |
| `ResidencyProofs!MatchingTypeCorrect`, `MatchingMirrorCoherence`, `MatchingCpuIsolation` | `MatchingSpec`: `TypeOK`, `CleanMirrorsMatchHost`, `CpuOwnersHoldNoMirrorState` always |
| `ResidencyProofs!WritesVisible` | `MatchingSpec`: `WritesAreVisible` always |
| `ResidencyProofs!MatchingImplementsStore` | `MatchingSpec` implements `FieldStore` |
| `ResidencyProofs!OneOwnerSafety` | `DftSpec`, if there is one owner: all of these invariants and `PhaseOnSelectedDevice` always |
| `ResidencyProofs!OneOwnerImplementsStore` | `DftSpec` implements `FieldStore`, if there is one owner |
| `DeviceClaimsProofs!TableExclusion` | `ClaimsAreCompatible` always |
| `DeviceClaimsProofs!OneOwnerExclusion` | `NoSilentOversubscription` always, if there is one owner |
| `FiniteVerdictProofs!VerdictNotMigrated` | `PendingIsOnSelectedDevice` always |
| `FiniteVerdictProofs!VerdictIsSticky` | `FiniteVerdict` implements `StickyVerdict` |
| `DistributedPreflightProofs!PreflightMatches` | `CollectivesMatch` always |
| `DistributedPreflightProofs!StepOnOneBackend` | `OneBackend` always |
| `DistributedPreflightProofs!CachedDecisionsMatch` | `CachedDecisionsAgree` always |
| `BoundaryExchangeProofs!ReceiveBuffers` | `ReceiveBytesAreFree` always |
| `BoundaryExchangeProofs!SendBuffers` | `SendBytesAreStable` always |
| `BoundaryExchangeProofs!Lockstepped` | `BoundaryExchange` implements `HaloLockstep` |
| `BoundaryExchangeProofs!Negotiation` | `NegotiationHonoursRequests` |
| `MatrixResumeProofs!Invariance` | the invariant of the files and of the controller in `main`, always |
| `MatrixResumeProofs!Resumability` | `CheckpointIsResumable` always |
| `MatrixResumeProofs!CleanStarts` | `RunsStartClean` always |
| `MatrixResumeProofs!VerifiableCompletion` | `CompletionIsVerifiable` always |
| `MatrixResumeProofs!KeptWork` | `CheckpointedWorkIsKept` |
| `CurlPhaseReplayProofs!CurrentLaunches` | `LaunchesAreCurrent` always |
| `CurlPhaseReplayProofs!MarkedResults` | `ResultsAreMarked` always |
| `CurlPhaseReplayProofs!WholePhasePlans` | `CompletePlansAreWholePhases` always |
| `FrontEndProofs!ScriptInvariant` | `ScriptSpec`, careful: the invariant of monitors, fields, file and promise, always |
| `FrontEndProofs!AlwaysContinues` | `ScriptSpec`, careful: `MonitorsContinue` always |
| `FrontEndProofs!AlwaysHeld`, `NeverDangles` | `ScriptSpec`, careful: `RegisteredMonitorsAreHeld`, `NoDanglingMonitor` always |
| `FrontEndProofs!OptimizerInvariant` | `OptimizerSpec`, careful: the invariant of the places of a call, always |
| `FrontEndProofs!ReturnedValues`, `ReturnedGradient` | `OptimizerSpec`, careful: `ValuesAreOfTheDesign`, `GradientIsConsistent` always |
| `FrontEndProofs!OptimizerMonitors` | `OptimizerSpec`, careful: `RegisteredMonitorsAreHeld` and `NoDanglingMonitor` always |
| `FrontEndProofs!JaxInvariant` | `JaxSpec`, careful: the invariant of the functions JAX calls, always |
| `FrontEndProofs!ReverseIsOfItsCall` | `JaxSpec`, careful: `GradientIsOfItsCall` always |
| `FrontEndProofs!JaxMonitors` | `JaxSpec`, careful: `RegisteredMonitorsAreHeld` and `NoDanglingMonitor` always |
| `FrontEndProofs!StopInvariant` | `StopSpec`, careful: the invariant of stop lists and closures, always |
| `FrontEndProofs!AlwaysMeasured` | `StopSpec`, careful: `DecayWasMeasured` always |
| `FrontEndProofs!StopsInTime` | `StopSpec`, careful: `StopsAtTheFirstCondition` |

"Careful" is the constant `CarefulScript`, `CarefulOptimizer`, `CarefulJax` or `Careful`:
the theorems of the front end are about users that keep to the uses of section 3. For
others they are false, as the code is.

**Resident cache.** The invariant `IInv` joins the coherence of a row (a dirty or
uploaded mirror exists; an uploaded and clean one equals its host array) with the
control state. The coherence alone is not inductive: a CPU step writes host arrays
without looking at the cache, so an owner that steps on the CPU must have no trusted
mirror; that depends on the decision cache, the active backend and the request
(`CpuOwnersClean`: a CPU decision, an open step while the CPU is active and a CPU request
each imply nothing dirty or uploaded). An operation in an open step looks at the active
backend alone: that CUDA is never active in an open step whose owner has a CPU decision,
and that a CPU request is what is active, are the other two parts of `ControlInv`. The rest is that every step is one row update
(`CacheUpdate`). For the refinement, each action changes `Authoritative` exactly as a
read, write or update of the store does, or leaves it alone.
Assumptions: the placeholder `NoValue` is not a value, `Combine` is a function on
values, `NoDevice` is not a device.

**DFT residency.** A DFT operation looks at the active backend of the *process*, a
step at the decision of the *owner*. `DftInv` is `IInv` with `WritesAreVisible`, and
every step of the cache alone keeps it. A DFT operation keeps it if the process matches
the owner (`Consulted`: with CUDA active the owner has not decided for the CPU; with the
CPU active it has no mirrors). `MatchingSpec` demands of the
program that the decision of the owner is the active backend; that this implies
`Consulted` needs one more part, `RequestInv` (a request for CUDA is what is active). For one owner nothing is demanded: every change of the
active backend comes from that owner's own step or from a selection, which publishes its
results and forgets the decision, so `Consulted` is itself an invariant. With two owners
it is not, which is the run `load_hidden`.

**Distributed preflight.** Whether two ranks wait in the same collective cannot be seen
from the one that has left and the one that has not: the argument is about where they
will go. `Target` gives, as a function of the votes a rank got back and of its request,
the collective it enters next. `Lockstep` says that ranks that have not left the last
collective are in it together with the same votes (`LeftTogether`), that a rank that
waits is at the target of those that have not left (`WaitingAhead`), and that a rank
between two steps is one collective away at most (`IdleNear`). It is inductive only with
`RequestsAgree` and `DecisionsAgree` (ranks beyond the vote on the mode have one request,
decisions that are not forgotten are equal), since a branch reads both, and with
`Local`, which ties the place of a rank to the values it carries there. All clauses are
about pairs of ranks, so nothing depends on their number.

**Boundary exchange.** Host thread, device stream and MPI go on by themselves, so the
invariant goes by actor. `HostInv`: the requests that can exist at each place of the
exchange. `QueueInv`: the device executes in order, at most one update is queued, and
the owned values are those of the host's round unless it still is. `SendInv`: the send
bytes are the values of the round once the gather has run. `ReceiveInv`: no queued
operation uses the receive slot of the running exchange before its callback; a completed
receive holds the value of the round (`Bytes`), and a scatter that is queued carries it
into the halo before the update (`Carries`, `Scatters`). `WireInv`: the messages between
two ranks are the consecutive rounds the one has sent and the other has not received.
None is inductive alone: that an update uses the right halo needs that the receive
matched the right message (`WireInv`), which needs that its bytes were those of the
round when they were sent (`SendInv`), which needs the order of the sender's stream
(`QueueInv`). For the refinement, the execution of an update maps to the step of
`HaloLockstep`, every other step to a stutter.
Assumptions: there is a rank.

**Matrix controller.** A controller that dies leaves the files as they are between two
writes, so what a resume needs must hold of the files alone, at every moment and whoever
is at work. `CheckpointInv`: the items of the checkpoint have the outputs and logs it
records, their events begin the journal, and nothing exists of an item beyond the next.
`Progress` says at each place of `main` how the memory of the one controller that holds
the lock (`LockInv`) and the files fit: the checkpoint is what it has completed, except
between `Validate` and `WriteCheckpoint`, where it is one run behind; the journal in
memory is the one in the file; the next item is clean from the sealing of the archive to
the start of its child. Each part needs the other: appending an event keeps
`CheckpointInv` because the journal in memory continues the one in the file, and a load
establishes `Progress` because the files are resumable. `OpeningInv` is the case without a
checkpoint (the launcher that made the directory is alone until the first one).
`CompletionInv` says that COMPLETE is either verifiable or `Superseded` by a later
attempt, and superseded wherever a controller may write. The lemmas about `FlattenSeq`,
which the expected journal is defined with, are inductions on the length: a set of
numbers that has zero and all successors is `Nat`, because `<` on `Nat` is well-founded.
Assumptions: there is a lane, and the bounds are natural numbers.

**Device claims.** `ClaimsAreCompatible` is kept by `Claim` because the test and the
store are one critical section. For the second theorem: as long as all ranks of a
group have the owner validated, none is inside a validation and each holds the claim
of its present device and consent (`ValidatedHoldClaims`), which needs that a granted
claim stays in the table until the reduction (`GrantedHoldClaims`). The invariant
fails with two owners, which is `shared_claim`.

**Finite verdict.** The word never holds a generation newer than the counter, a
session bound to a generation is bound to the current one with a pending verdict, and
a pending verdict or an open phase is on the selected device. Hence a new generation
differs from whatever the word holds, also right after the wrap, because the word is
cleared there.

**Curl replay.** `LaunchesAreCurrent` speaks of one launch; why it was right lies in
the phases before. `IInv` is the conjunction of: `MirrorInv` (a mirror that is dirty or
uploaded is fresh, results ahead of the host are marked), `PlanInv` (while the plan's
generations are current, its table holds the addresses the caches have),
`CompleteInv` (a certified plan lists the whole phase of the topology it was made for),
`BatchInv` (what has been collected so far is at the present addresses of dirty
mirrors) and `PhaseInv` (how the collected, flushed and directly launched parts are the
part of the program the phase has come through). `PlanInv` needs that every action which moves a mirror
goes through `Bumped`; `CompleteInv` needs `PhaseInv`, because the certificate is
given at the end of a phase for tables recorded in its middle.
Assumptions: the placeholders are not chunks, addresses or devices, and `Program`
gives each topology a sequence of operations.

**A Simulation and its script.** A checkpoint knows the data of a monitor by its
position only, and monitors get their chunks when something first needs them. What makes
a restored monitor go on with its own data is that the monitors with chunks are at all
times a beginning of `dft_objects`, in order. `Waiting` is a simulation without
fields, where no monitor has chunks; `Running` one with fields, where the first `Count`
of the list have them; `Full` where all have. `ScriptInv` joins this with the promise:
nothing yet (`Fresh`), what the fields hold (`Kept`), or that with the run in
progress (`Ahead`); and with `FileInv`: the data of a dump are those promised to the
monitors at their positions, and a pending file has as many as the list. None is
inductive alone: what a load gives a monitor needs the order of the list, the order needs
that no call creates a monitor out of turn, and that needs `Waiting` to have none. The
two loops over the list are recursive functions, of which `LoopExists` proves that they
have a value and `LoopValues` how it goes on; what they do to all monitors is then an induction
on how far they got.
Assumptions: a flux is not persistent (only `_add_dft_fields` takes `persist`).

**Optimizer and JAX wrapper.** They queue many calls at once, and an exception may end the
queue after any. An invariant of single calls would have a case for each place in each
queue. Instead it speaks of the queue as a whole: `Leads(K, s, q, v)` says that the
calls `q` lead from `s` to `v` through states that are all `Safe` (the list
is held, nothing dangles, the Bloch vector is one of `K`). Taking the first call off
keeps it (`FirstCall`), giving up leaves a safe state (`SafeEnds`), and two queues
compose (`ThenCalls`), so each part of `__call__` is one lemma: from any safe
state, `prepare_forward_run` with the run leads to the simulation with exactly that
forward run (`Reaches`, with the views `Ready` and `Live` of a simulation). `OptimizerInv`
names at each place (`PlaceIs`) where its queue leads; when the queue is empty that is
the simulation itself, and the values and gradients taken from it are those the
properties ask for. `Stands` is what a second call without a new design goes on with. `JaxInv` has
the same shape with one Bloch vector; only the latest forward call that has not been differentiated stands.
Assumptions: the monitors of the design region are persistent and those of the objectives are
not (adjoint/utils.py), Bloch vectors are integers.

**End of a run.** A condition asked in one run goes on in the next, so what its closure
knows has to be said of all times, not of those of the run. `Remembers` says it of a
closure that was asked at every time step: `cur_max` bounds the samples since `t0`, a
maximum is zero or a sample, a previous flux is that at `t0`, and the interval is set
once time has passed zero. `MemoryInv` demands that of scripts that were built at time zero; `RunInv`
that a run which asks such conditions belongs to one, and that its stops are those the
list asks for (`Wanted`), although all of them read the last number or the last entry:
a careful list has one number, and one function last. That is also why every call of
the list counts (`AllAnswers`, an induction along `AnyStop`). A comparison with a maximum of zero
is not vacuous: then the signal is zero as well (`Product`).
Assumptions: the signal has natural values, and rates, times and intervals are natural
numbers, the rates and intervals positive.
The specification is that of `StopConditions`; a behaviour of `RunLoop` is one of it, because each
action of `RunLoop` is an action of `StopConditions` with a conjunct about other
variables or one that restricts it.

**Only model-checked:** `ValidationEnds`, `StepEnds`, `ExchangesEnd` and
`RestartsCloseTheMatrix`, which are liveness under fairness and out of the prover's
reach; `StepsAreDue` and `FinishFollowsSteps`, which are about trees of step functions:
`Evaluated`, `Kinds` and `DueAt` are RECURSIVE operators, which the SMT backend does not
take, and an induction over trees has no instance in the provers. `StepsAreDue` is also not
true of every tree; the run has those whose modifiers compose as the manual says.

## 6. Not modelled

* *Numerics*: the FDTD update, geometry, averaging, sources, materials, monitors, the
  BiCGSTAB-L iteration, filters, gradients. A model checker has nothing to say about
  the values; when they are computed, from what and in which order is modelled where
  state is kept between calls.
* *I/O and bindings*: HDF5, SWIG and Scheme conversions, MPB. What a load writes is a
  free choice.
* *CUDA below "a copy, allocation or launch succeeds or throws"*, and plans other than
  that of the curl phase: they are rebuilt from a walk over the chunks whenever they are
  used.
* *DFT readers that treat mirrors as the flux does*: `dft_norm2`, near-to-far, LDOS,
  eigenmodes.
* *Boundary exchange on the CPU, and the connection lists* of `boundaries.cpp`.
* *Destruction of an owner whose last copy fails* (`fields.cpp:339` swallows it), and *a
  lane that survives its killed controller*: hazards without a property.
* *`change_m`, `special_kz`, `set_materials`, fragment statistics and the analysis
  functions* of `Simulation`.
* *Chunk balancer*: arithmetic on a tree of fractions. With a sensitivity below 1 a
  nested split may leave its box, which `split_at_fraction` (`vec.cpp:1055`) answers with
  an abort; a model would have to compute those fractions.
* *Automatic policy and curl partition*: pure functions, in the plan.
* *Scripts, notebooks, examples, benchmarks, packaging and tests.* They make up most of
  the lines of the repository, run programs and judge numbers, and keep no state of
  their own, with the exception of the matrix controllers.
