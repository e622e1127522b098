----------------------------- MODULE BackendState -----------------------------
(***************************************************************************)
(* The process-wide backend selection of gpu_backend.cpp (backend_state):  *)
(* which backend the user requested, which device is selected and ready,   *)
(* and which backend the step that ran last published as active.           *)
(*                                                                         *)
(* There is one such state per process although every fields owner makes   *)
(* its own CPU or CUDA decision: `active' is whatever owner was activated  *)
(* last.  The mutex of the structure makes each operator below atomic.     *)
(***************************************************************************)
CONSTANTS
    Device,     \* ordinals of the compatible devices the process can see
    NoDevice    \* the ordinal -1: no device selected

ASSUME NoDeviceAssumption == NoDevice \notin Device

VARIABLES
    requested,  \* "cpu", "auto" or "cuda": what the user asked for
    active,     \* "cpu" or "cuda": what cuda_active() answers
    selected,   \* selected_device
    ready,      \* device_ready
    explicit    \* explicit_device_selection: select_device() was called

backendVars == <<requested, active, selected, ready, explicit>>

Mode == {"cpu", "auto", "cuda"}

BackendTypeOK ==
    /\ requested \in Mode
    /\ active \in {"cpu", "cuda"}
    /\ selected \in Device \union {NoDevice}
    /\ ready \in BOOLEAN
    /\ explicit \in BOOLEAN

\* The lazily configured state of a process that has not touched the device:
\* MEEP_GPU_BACKEND names the CPU or the automatic backend.
BackendInit ==
    /\ requested \in {"cpu", "auto"}
    /\ active = "cpu"
    /\ selected = NoDevice
    /\ ready = FALSE
    /\ explicit = FALSE

\* The device a selection settles on: the one of the environment (env, or
\* NoDevice when MEEP_GPU_DEVICE is not set), else the one selected before,
\* else any the rank is compatible with.
Chosen(env) ==
    CASE env # NoDevice                          -> {env}
      [] env = NoDevice /\ selected # NoDevice   -> {selected}
      [] env = NoDevice /\ selected = NoDevice   -> Device

(***************************************************************************)
(* configure_transaction_locked when configure_locked returns.  The CPU    *)
(* backend and the automatic one without an explicit device leave no       *)
(* device ready; every other request has selected one, or it threw.        *)
(***************************************************************************)
Configure(m, env) ==
    /\ requested' = m
    /\ UNCHANGED explicit
    /\ IF m = "cpu" \/ (m = "auto" /\ env = NoDevice /\ ~explicit)
          THEN /\ active' = "cpu"
               /\ ready' = FALSE
               /\ UNCHANGED selected
          ELSE /\ active' = "cuda"
               /\ ready' = TRUE
               /\ selected' \in Chosen(env)

\* select_device: an explicit choice, which a CPU request only records.
SelectReadyDevice(d) ==
    /\ selected' = d
    /\ ready' = TRUE
    /\ explicit' = TRUE
    /\ active' = IF requested = "cpu" THEN active ELSE "cuda"
    /\ UNCHANGED requested

\* activate_backend_for_owner: a step publishes its owner's decision.
Activate(e) ==
    /\ requested = "cpu" => e = "cpu"
    /\ requested = "cuda" => e = "cuda"
    /\ active' = e
    /\ UNCHANGED <<requested, explicit>>

\* prepare_cuda_candidate_for_distributed_step found a device: only the
\* automatic backend selects one here, and only when none is ready yet.
CandidatePrepared ==
    /\ ready' = TRUE
    /\ IF ready THEN UNCHANGED selected
                ELSE /\ requested = "auto"
                     /\ selected' \in Chosen(NoDevice)
===============================================================================
