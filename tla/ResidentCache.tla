----------------------------- MODULE ResidentCache -----------------------------
(***************************************************************************)
(* The persistent residency of field arrays on a CUDA device               *)
(* (resident_cache in gpu_backend.cpp) under the time steps of step.cpp    *)
(* and the host operations of energy_and_flux.cpp, cw_fields.cpp,          *)
(* fields.cpp and fields_dump.cpp that read and write the same arrays.     *)
(*                                                                         *)
(* An owner is a fields object with its one local chunk and that chunk's   *)
(* cache.  Each host array may have a mirror on the device.  A mirror is   *)
(*   - dirty when a kernel wrote it and the host copy is out of date,      *)
(*   - uploaded when its uploaded_epoch is not 0: it was copied from the   *)
(*     host and is trusted not to have changed there since,                *)
(*   - otherwise an allocation whose contents are not trusted: the next    *)
(*     kernel uploads it again.                                            *)
(*                                                                         *)
(* The process runs one host thread.  The phases of a step are separate    *)
(* actions because kernels call back into the program (custom sources,     *)
(* custom materials), and a callback may run host operations on any owner. *)
(***************************************************************************)
EXTENDS BackendState, FieldRows

CONSTANTS
    Owner,      \* fields owners of the process
    NoValue,    \* the device contents of an array that has no mirror
    Combine     \* what a kernel stores from the old contents of two arrays

ASSUME NoValueAssumption == NoValue \notin Value
ASSUME CombineAssumption == Combine \in [Value \X Value -> Value]

VARIABLES
    exec,       \* cached decision of each owner, valid for this generation
    host,       \* contents of the host arrays
    dev,        \* contents of the device mirrors
    dirty,      \* arrays whose mirror is device_dirty
    uploaded,   \* arrays whose mirror has uploaded_epoch # 0
    ordinal,    \* device_ordinal of each cache
    phase,      \* what each owner is in the middle of
    io          \* last completed operation as the caller saw it

cacheVars == <<host, dev, dirty, uploaded>>
vars == <<backendVars, exec, cacheVars, ordinal, phase, io>>

\* "cpu" is final for the generation; "fallback" is a CPU decision that a
\* change of the step's features re-opens (cpu_feature_fallback).
CpuDecision == {"cpu", "fallback"}

\* phase_active: "step" is a whole persistent step, "op" one operation that
\* owns its phase.
ResidentPhase == {"step", "op"}

\* A step that opens no resident phase ("open") is one of a CPU owner, or one
\* on the device between its operations (fluxes, initialize_field).
StepKind == {"step", "open"}

CacheTypeOK ==
    /\ host \in [Owner -> [Array -> Value]]
    /\ dev \in [Owner -> [Array -> Value \union {NoValue}]]
    /\ dirty \in [Owner -> SUBSET Array]
    /\ uploaded \in [Owner -> SUBSET Array]

OwnersTypeOK ==
    /\ exec \in [Owner -> {"none", "cuda"} \union CpuDecision]
    /\ ordinal \in [Owner -> Device \union {NoDevice}]
    /\ phase \in [Owner -> {"idle", "open"} \union ResidentPhase]

\* The types of the backend selection, the caches, the owners and io.
TypeOK ==
    /\ BackendTypeOK
    /\ CacheTypeOK
    /\ OwnersTypeOK
    /\ io \in {<<>>} \union ({"read", "write", "update"} \X Owner \X Contents)

Init ==
    /\ BackendInit
    /\ exec = [o \in Owner |-> "none"]
    /\ host \in [Owner -> [Array -> Value]]
    /\ dev = [o \in Owner |-> [f \in Array |-> NoValue]]
    /\ dirty = [o \in Owner |-> {}]
    /\ uploaded = [o \in Owner |-> {}]
    /\ ordinal = [o \in Owner |-> NoDevice]
    /\ phase = [o \in Owner |-> "idle"]
    /\ io = <<>>

-----------------------------------------------------------------------------
(* The state of one cache.                                                   *)

InPhase(o) == phase[o] \in ResidentPhase

\* No step is running: the host thread is in the user's code.
Idle == \A o \in Owner : phase[o] = "idle"

\* No resident phase is active: a step may be running, and a callback of it be
\* the caller.
NoPhase == \A o \in Owner : ~InPhase(o)

\* The mirrors a kernel uses as they are.
Current(o) == dirty[o] \union uploaded[o]

\* Mutant of Authoritative: the sync copies every mirror, dirty or not.
SyncsEveryMirror(o) == dev[o]

\* What sync_resident_mirrors_to_host leaves in the host arrays.
Authoritative(o) ==
    [f \in Array |-> IF f \in dirty[o] THEN dev[o][f] ELSE host[o][f]]

\* What the kernels of a phase see once ensure_resident_mirror ran for S.
Ensured(o, S) ==
    [f \in Array |-> IF f \in S \ Current(o) THEN host[o][f] ELSE dev[o][f]]

NoMirrors == [f \in Array |-> NoValue]

\* sync_resident_cache_for_owner: every dirty mirror is copied to the host.
Sync(o) == host' = [host EXCEPT ![o] = Authoritative(o)]

\* A sync, then the host arrays in DOMAIN w are written.
SyncAndWrite(o, w) == host' = [host EXCEPT ![o] = Overlay(w, Authoritative(o))]

\* destroy_resident_cache_for_owner after a sync: nothing is dirty any more,
\* the mirrors and the cache itself are gone.
DestroyCache(o) ==
    /\ dev' = [dev EXCEPT ![o] = NoMirrors]
    /\ dirty' = [dirty EXCEPT ![o] = {}]
    /\ uploaded' = [uploaded EXCEPT ![o] = {}]
    /\ ordinal' = [ordinal EXCEPT ![o] = NoDevice]

\* The per-cache loop of sync_and_invalidate_all_resident_caches, for the
\* caches in S: their mirrors stay allocated, none of them is trusted.
PublishAndInvalidate(S) ==
    /\ host' = [o \in Owner |-> IF o \in S THEN Authoritative(o) ELSE host[o]]
    /\ dirty' = [o \in Owner |-> IF o \in S THEN {} ELSE dirty[o]]
    /\ uploaded' = [o \in Owner |-> IF o \in S THEN {} ELSE uploaded[o]]
    /\ UNCHANGED <<dev, ordinal>>

\* select_cache_device: a cache that lives on another device than d first
\* publishes to the host and drops its mirrors.
OnDevice(o, d) ==
    IF ordinal[o] \in {NoDevice, d}
       THEN [host |-> host[o], dev |-> dev[o],
             dirty |-> dirty[o], uploaded |-> uploaded[o]]
       ELSE [host |-> Authoritative(o), dev |-> NoMirrors,
             dirty |-> {}, uploaded |-> {}]

\* begin_resident_phase on the device that is selected once the preflight is
\* over.  When the epoch counter wraps around, every uploaded_epoch is 0.
OpenPhase(o, p) ==
    LET c == OnDevice(o, selected')
    IN  /\ host' = [host EXCEPT ![o] = c.host]
        /\ dev' = [dev EXCEPT ![o] = c.dev]
        /\ dirty' = [dirty EXCEPT ![o] = c.dirty]
        /\ \E u \in {c.uploaded, {}} : uploaded' = [uploaded EXCEPT ![o] = u]
        /\ ordinal' = [ordinal EXCEPT ![o] = selected']
        /\ phase' = [phase EXCEPT ![o] = p]

-----------------------------------------------------------------------------
(* Backend and device selection by the user, between steps or in a callback. *)

\* Every cached decision is of an older generation (++generation).
ForgetDecisions == exec' = [o \in Owner |-> "none"]

SetBackend(m) ==
    /\ NoPhase
    /\ PublishAndInvalidate(Owner)
    /\ \E env \in Device \union {NoDevice} : Configure(m, env)
    /\ ForgetDecisions
    /\ UNCHANGED <<phase, io>>

\* set_backend throws: a copy to the host failed after the caches in S were
\* published, or no device could be selected and the configuration is restored.
SetBackendFails ==
    /\ NoPhase
    /\ \E S \in SUBSET Owner : PublishAndInvalidate(S)
    /\ UNCHANGED <<backendVars, exec, phase, io>>

\* Mutant of SelectDevice: an active phase does not stop it.
SelectDeviceInPhase(d) ==
    /\ PublishAndInvalidate(Owner)
    /\ SelectReadyDevice(d)
    /\ ForgetDecisions
    /\ UNCHANGED <<phase, io>>

SelectDevice(d) ==
    /\ NoPhase
    /\ PublishAndInvalidate(Owner)
    /\ SelectReadyDevice(d)
    /\ ForgetDecisions
    /\ UNCHANGED <<phase, io>>

-----------------------------------------------------------------------------
(* One time step of an owner: preflight, kernels, end.                       *)

\* The preflight finds the cached CPU decision, or a CPU request.  It does
\* not touch the cache: set_backend("cpu") has published every mirror.
BeginCpuStep(o) ==
    /\ Idle
    /\ exec[o] \in CpuDecision \/ requested = "cpu"
    /\ exec' = IF exec[o] \in CpuDecision THEN exec
                                          ELSE [exec EXCEPT ![o] = "cpu"]
    /\ Activate("cpu")
    /\ phase' = [phase EXCEPT ![o] = "open"]
    /\ UNCHANGED <<selected, ready, cacheVars, ordinal, io>>

\* Mutant of AutomaticCpuStep: it syncs and keeps the cache.
AutomaticCpuStepKeepsCache(o, e) ==
    /\ Idle
    /\ requested = "auto"
    /\ exec[o] # "cpu"
    /\ Sync(o)
    /\ dirty' = [dirty EXCEPT ![o] = {}]
    /\ exec' = [exec EXCEPT ![o] = e]
    /\ Activate("cpu")
    /\ CandidatePrepared \/ UNCHANGED <<selected, ready>>
    /\ phase' = [phase EXCEPT ![o] = "open"]
    /\ UNCHANGED <<dev, uploaded, ordinal, io>>

\* The automatic backend decides for the CPU: too few cells, no device, or a
\* feature without a kernel.  prepare_gpu_owner_for_cpu tears the cache down.
AutomaticCpuStep(o, e) ==
    /\ Idle
    /\ requested = "auto"
    /\ exec[o] # "cpu"
    /\ Sync(o)
    /\ DestroyCache(o)
    /\ exec' = [exec EXCEPT ![o] = e]
    /\ Activate("cpu")
    /\ CandidatePrepared \/ UNCHANGED <<selected, ready>>
    /\ phase' = [phase EXCEPT ![o] = "open"]
    /\ UNCHANGED io

\* The preflight lets the owner run on the device: a cached decision, a CUDA
\* request, or an automatic decision that may prepare its device first.
AdmitCuda(o) ==
    /\ Idle
    /\ requested # "cpu"
    /\ exec[o] # "cpu"
    /\ exec' = [exec EXCEPT ![o] = "cuda"]
    /\ CandidatePrepared
    /\ Activate("cuda")

\* The preflight throws after it activated CUDA: the transport or the device
\* assignment is refused, or a required feature has no kernel.  A CPU fallback
\* it re-opened does not apply any more: the features have changed.
CudaPreflightFails(o) ==
    /\ Idle
    /\ requested # "cpu"
    /\ exec[o] # "cpu"
    /\ \E e \in {"none", "cuda"} : exec' = [exec EXCEPT ![o] = e]
    /\ CandidatePrepared
    /\ Activate("cuda")
    /\ UNCHANGED <<cacheVars, ordinal, phase, io>>

\* The preflight of the automatic backend throws after it prepared a device
\* and before it activates anything: one rank could not prepare a device, or
\* could not evaluate the workload policy.
CandidateFails(o) ==
    /\ Idle
    /\ requested = "auto"
    /\ exec[o] # "cpu"
    /\ CandidatePrepared
    /\ UNCHANGED <<requested, active, explicit, exec, cacheVars, ordinal, phase, io>>

\* A persistent step opens its phase before its first kernel.
BeginCudaStep(o) ==
    /\ AdmitCuda(o)
    /\ OpenPhase(o, "step")
    /\ UNCHANGED io

\* A step that leaves the phases to its operations.
BeginOpenCudaStep(o) ==
    /\ AdmitCuda(o)
    /\ phase' = [phase EXCEPT ![o] = "open"]
    /\ UNCHANGED <<cacheVars, ordinal, io>>

\* The materials changed: the cache is published and destroyed before the
\* coefficient arrays in DOMAIN w are rewritten, then the step begins anew.
BeginCudaStepWithNewMaterials(o, p, w) ==
    /\ AdmitCuda(o)
    /\ SyncAndWrite(o, w)
    /\ dev' = [dev EXCEPT ![o] = NoMirrors]
    /\ dirty' = [dirty EXCEPT ![o] = {}]
    /\ uploaded' = [uploaded EXCEPT ![o] = {}]
    /\ ordinal' = [ordinal EXCEPT ![o] = IF p = "step" THEN selected' ELSE NoDevice]
    /\ phase' = [phase EXCEPT ![o] = p]
    /\ io' = <<"write", o, w>>

\* An operation of a step without a phase of its own opens one when CUDA is
\* active now, whatever the step was admitted to when it began.
BeginOperation(o) ==
    /\ phase[o] = "open"
    /\ active = "cuda"
    /\ UNCHANGED <<backendVars, exec, io>>
    /\ OpenPhase(o, "op")

\* An operation while the CPU is active reads and writes the host arrays.
CpuUpdate(o, f, g) ==
    LET w == [x \in {g} |-> Combine[<<host[o][f], host[o][g]>>]]
    IN  /\ phase[o] = "open"
        /\ active = "cpu"
        /\ host' = [host EXCEPT ![o] = Overlay(w, host[o])]
        /\ io' = <<"update", o, w>>
        /\ UNCHANGED <<backendVars, exec, dev, dirty, uploaded, ordinal, phase>>

\* A CUDA update makes its arrays resident, launches, and marks its output.
Kernel(o, f, g) ==
    LET row == Ensured(o, {f, g})
        w == [x \in {g} |-> Combine[<<row[f], row[g]>>]]
    IN  /\ InPhase(o)
        /\ dev' = [dev EXCEPT ![o] = Overlay(w, row)]
        /\ uploaded' = [uploaded EXCEPT ![o] =
                           @ \union ({f, g} \ dirty[o])]
        /\ dirty' = [dirty EXCEPT ![o] = @ \union {g}]
        /\ io' = <<"update", o, w>>
        /\ UNCHANGED <<backendVars, exec, host, ordinal, phase>>

\* An operation of a phase throws after the arrays in S became resident; the
\* sessions on the stack discard the phase and keep every dirty mirror.
KernelFails(o, S) ==
    /\ InPhase(o)
    /\ dev' = [dev EXCEPT ![o] = Ensured(o, S)]
    /\ uploaded' = [uploaded EXCEPT ![o] = @ \union (S \ dirty[o])]
    /\ phase' = [phase EXCEPT ![o] = "idle"]
    /\ UNCHANGED <<backendVars, exec, host, dirty, ordinal, io>>

\* finish(false) of a persistent step: the results stay on the device.  The
\* end of any other step, also one that a callback throws out of.
FinishStep(o) ==
    /\ phase[o] \in StepKind
    /\ phase' = [phase EXCEPT ![o] = "idle"]
    /\ UNCHANGED <<backendVars, exec, cacheVars, ordinal, io>>

\* finish(true) of an operation that owns its phase: the results are
\* published, and every mirror must be uploaded again in the next phase.
FinishOperation(o) ==
    /\ phase[o] = "op"
    /\ Sync(o)
    /\ dirty' = [dirty EXCEPT ![o] = {}]
    /\ uploaded' = [uploaded EXCEPT ![o] = {}]
    /\ phase' = [phase EXCEPT ![o] = "open"]
    /\ UNCHANGED <<backendVars, exec, dev, ordinal, io>>

\* finish(true) throws while it stages a copy: no host array changed.
FinishOperationFails(o) ==
    /\ phase[o] = "op"
    /\ phase' = [phase EXCEPT ![o] = "idle"]
    /\ UNCHANGED <<backendVars, exec, cacheVars, ordinal, io>>

-----------------------------------------------------------------------------
(* Host operations on the arrays of an owner.                                *)

\* sync, then read the host arrays: backup_component, fields_to_array, dump,
\* the array accessors of the language bindings.
HostRead(o, S) ==
    /\ ~InPhase(o)
    /\ Sync(o)
    /\ dirty' = [dirty EXCEPT ![o] = {}]
    /\ io' = <<"read", o, [f \in S |-> host'[o][f]]>>
    /\ UNCHANGED <<backendVars, exec, dev, uploaded, ordinal, phase>>

\* read_resident_field_point: a dirty mirror is read on the device, anything
\* else on the host.  It changes nothing and may run inside a phase.
PointRead(o, f) ==
    /\ io' = <<"read", o, [x \in {f} |-> Authoritative(o)[x]]>>
    /\ UNCHANGED <<backendVars, exec, cacheVars, ordinal, phase>>

\* Mutant of KrylovWrite: the writes are not announced.
KrylovWriteUnannounced(o, w) ==
    /\ ~InPhase(o)
    /\ SyncAndWrite(o, w)
    /\ dirty' = [dirty EXCEPT ![o] = {}]
    /\ io' = <<"write", o, w>>
    /\ UNCHANGED <<backendVars, exec, dev, uploaded, ordinal, phase>>

\* array_to_fields of the frequency-domain solver: sync, announce the writes
\* (prepare_resident_host_writes_for_owner), write, keep the other mirrors.
KrylovWrite(o, w) ==
    /\ ~InPhase(o)
    /\ SyncAndWrite(o, w)
    /\ dirty' = [dirty EXCEPT ![o] = {}]
    /\ uploaded' = [uploaded EXCEPT ![o] = @ \ DOMAIN w]
    /\ io' = <<"write", o, w>>
    /\ UNCHANGED <<backendVars, exec, dev, ordinal, phase>>

\* sync, write, destroy the cache: restore_component, average_with_backup,
\* zero_fields, remove_susceptibilities, load.
HostRewrite(o, w) ==
    /\ ~InPhase(o)
    /\ SyncAndWrite(o, w)
    /\ DestroyCache(o)
    /\ io' = <<"write", o, w>>
    /\ UNCHANGED <<backendVars, exec, phase>>

\* An array is freed and another one allocated in its place, possibly at the
\* same address: its mirror is discarded, never published (f_minus_p, DFTs).
ReplaceArray(o, f, v) ==
    LET w == [x \in {f} |-> v]
    IN  /\ host' = [host EXCEPT ![o] = Overlay(w, host[o])]
        /\ dev' = [dev EXCEPT ![o][f] = NoValue]
        /\ dirty' = [dirty EXCEPT ![o] = @ \ {f}]
        /\ uploaded' = [uploaded EXCEPT ![o] = @ \ {f}]
        /\ io' = <<"write", o, w>>
        /\ UNCHANGED <<backendVars, exec, ordinal, phase>>

-----------------------------------------------------------------------------
Selection ==
    \/ \E m \in Mode : SetBackend(m)
    \/ SetBackendFails
    \/ \E d \in Device : SelectDevice(d)

Stepping(o) ==
    \/ BeginCpuStep(o)
    \/ \E e \in CpuDecision : AutomaticCpuStep(o, e)
    \/ CudaPreflightFails(o)
    \/ CandidateFails(o)
    \/ BeginCudaStep(o)
    \/ BeginOpenCudaStep(o)
    \/ \E p \in StepKind, w \in Contents : BeginCudaStepWithNewMaterials(o, p, w)
    \/ BeginOperation(o)
    \/ \E f, g \in Array : CpuUpdate(o, f, g)
    \/ \E f, g \in Array : Kernel(o, f, g)
    \/ \E S \in SUBSET Array : KernelFails(o, S)
    \/ FinishStep(o)
    \/ FinishOperation(o)
    \/ FinishOperationFails(o)

HostOperation(o) ==
    \/ \E S \in SUBSET Array : HostRead(o, S)
    \/ \E f \in Array : PointRead(o, f)
    \/ \E w \in Contents : KrylovWrite(o, w)
    \/ \E w \in Contents : HostRewrite(o, w)
    \/ \E f \in Array, v \in Value : ReplaceArray(o, f, v)

Next ==
    \/ Selection
    \/ \E o \in Owner : Stepping(o)
    \/ \E o \in Owner : HostOperation(o)

Spec == Init /\ [][Next]_vars

-----------------------------------------------------------------------------
(* Properties.                                                               *)

\* A mirror that the next kernel will use without uploading it, and that no
\* kernel has written, still has the contents of its host array: no host
\* write anywhere in the program escaped the cache (ensure_resident_mirror
\* skips the copy on the strength of this).
CleanMirrorsMatchHost ==
    \A o \in Owner : \A f \in uploaded[o] \ dirty[o] : dev[o][f] = host[o][f]

\* An owner whose steps run on the CPU, or whose step goes on there after a
\* callback changed the backend, has no mirror that a later phase would trust
\* and no device result the host lacks, although a CPU step with a cached
\* decision never looks at the cache (gpu_backend_preflight_is_cached).
CpuOwnersHoldNoMirrorState ==
    \A o \in Owner :
        exec[o] \in CpuDecision \/ (phase[o] = "open" /\ active = "cpu")
            => Current(o) = {}

\* A phase runs where its mirrors are: on the selected device, with CUDA the
\* active backend of the process and no decision of the owner against it; a
\* persistent step has the owner's decision for it.  A device change that is
\* let through while a phase is open would break it.
PhaseOnSelectedDevice ==
    \A o \in Owner : InPhase(o) =>
        /\ ordinal[o] = selected
        /\ active = "cuda"
        /\ exec[o] \notin CpuDecision
        /\ phase[o] = "step" => exec[o] = "cuda"

\* The whole cache is invisible: with the authoritative copy of each array as
\* its value, every operation, also one that fails, is an operation of a
\* plain array store or changes nothing (FieldStore).
Store == INSTANCE FieldStore WITH val <- [o \in Owner |-> Authoritative(o)]
BehavesAsFieldStore == Store!Spec

===============================================================================
