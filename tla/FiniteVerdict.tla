----------------------------- MODULE FiniteVerdict -----------------------------
(***************************************************************************)
(* The finite check of the fields on the device                            *)
(* (resident_finite_check_session in gpu_backend.cpp).                     *)
(*                                                                         *)
(* The verdict is one word of device memory in the cache of the first      *)
(* chunk.  A scan that meets a NaN or an Inf stores the current generation *)
(* there, so a new check starts without clearing the word: it moves on to  *)
(* the next generation.  A check finished without a readback stays pending *)
(* and the next session continues its generation.                          *)
(*                                                                         *)
(* A word that is not allocated yet is a word that holds 0: both are       *)
(* equal to no generation that is in use.                                  *)
(***************************************************************************)
EXTENDS Naturals

CONSTANTS
    Device,     \* CUDA devices
    NoDevice,   \* device_ordinal < 0
    MaxGen      \* largest generation (2^32 - 1 in the code)

ASSUME MaxGenAssumption == MaxGen \in Nat \ {0}
ASSUME NoOrdinalAssumption == NoDevice \notin Device

VARIABLES
    alive,      \* the cache is registered
    selected,   \* device of the process
    device,     \* device of the cache
    phase,      \* phase_active
    finite,     \* whether the resident fields are finite
    slot,       \* *finite_result
    gen,        \* finite_result_generation
    pending,    \* finite_result_pending
    plan,       \* finite_check.device_spans is built
    session,    \* "none", "open", or "bound" to generation sgen
    sgen,       \* generation_ of the session
    answer      \* result of the last finish

cache == <<alive, device, phase>>
word == <<slot, gen, pending>>
vars == <<alive, selected, device, phase, finite, slot, gen, pending, plan,
          session, sgen, answer>>

\* The types of the verdict word and of the session bound to it.
TypeOK ==
    /\ alive \in BOOLEAN /\ phase \in BOOLEAN /\ finite \in BOOLEAN
    /\ pending \in BOOLEAN /\ plan \in BOOLEAN /\ answer \in BOOLEAN
    /\ selected \in Device
    /\ device \in Device \union {NoDevice}
    /\ slot \in 0..MaxGen
    /\ gen \in 0..MaxGen
    /\ session \in {"none", "open", "bound"}
    /\ sgen \in 0..MaxGen

Init ==
    /\ alive = FALSE /\ phase = FALSE
    /\ finite \in BOOLEAN
    /\ selected \in Device /\ device = NoDevice
    /\ slot = 0 /\ gen = 0 /\ pending = FALSE /\ plan = FALSE
    /\ session = "none" /\ sgen = 0
    /\ answer = TRUE

\* clear_device_buffers, as far as the verdict is concerned.
Cleared == slot' = 0 /\ gen' = 0 /\ pending' = FALSE /\ plan' = FALSE

-----------------------------------------------------------------------------
(* The cache around the check.                                               *)

\* The cache is created when it is first used.
CreateCache ==
    /\ ~alive
    /\ alive' = TRUE
    /\ UNCHANGED <<selected, device, phase, finite, word, plan, session, sgen, answer>>

\* begin_resident_phase and select_cache_device: a cache that is on another
\* device migrates, which frees its buffers.
OpenPhase ==
    /\ alive /\ ~phase
    /\ phase' = TRUE
    /\ device' = selected
    /\ IF device \in Device /\ device # selected
          THEN Cleared
          ELSE UNCHANGED <<word, plan>>
    /\ UNCHANGED <<alive, selected, finite, session, sgen, answer>>

\* The kernels of a step.
Kernel(f) ==
    /\ phase /\ session = "none"
    /\ finite' = f
    /\ UNCHANGED <<cache, selected, word, plan, session, sgen, answer>>

\* finish_resident_phase or discard_resident_phase.
ClosePhase ==
    /\ phase /\ session = "none"
    /\ phase' = FALSE
    /\ UNCHANGED <<alive, selected, device, finite, word, plan, session, sgen, answer>>

\* Mutant of SelectDevice: a pending verdict does not refuse the change.
SelectDevicePending(d) ==
    /\ ~phase
    /\ selected' = d
    /\ UNCHANGED <<cache, finite, word, plan, session, sgen, answer>>

\* select_device; sync_and_invalidate_all_resident_caches refuses it.
SelectDevice(d) ==
    /\ ~phase /\ ~pending
    /\ selected' = d
    /\ UNCHANGED <<cache, finite, word, plan, session, sgen, answer>>

\* reset_resident_cache_for_owner_reusing_allocations keeps the verdict.
ResetReusingAllocations ==
    /\ alive /\ ~phase
    /\ plan' = FALSE
    /\ UNCHANGED <<cache, selected, finite, word, session, sgen, answer>>

\* destroy_resident_cache_for_owner and discard_resident_cache_for_owner.
DestroyCache ==
    /\ alive /\ session = "none"
    /\ alive' = FALSE
    /\ phase' = FALSE
    /\ device' = NoDevice
    /\ Cleared
    /\ UNCHANGED <<selected, finite, session, sgen, answer>>

-----------------------------------------------------------------------------
(* The session.                                                              *)

EndSession == session' = "none" /\ sgen' = 0

\* The constructor.
OpenSession ==
    /\ phase /\ session = "none"
    /\ session' = "open"
    /\ UNCHANGED <<cache, selected, finite, word, plan, sgen, answer>>

\* Mutant of Started: the word keeps its old generations when they wrap.
StartedWithoutClear ==
    IF session = "bound" \/ pending
       THEN [slot |-> slot, gen |-> gen]
       ELSE IF gen = MaxGen
               THEN [slot |-> slot, gen |-> 1]
               ELSE [slot |-> slot, gen |-> gen + 1]

\* initialize_result: the word and the generation that the scans will use.
Started ==
    IF session = "bound" \/ pending
       THEN [slot |-> slot, gen |-> gen]
       ELSE IF gen = MaxGen
               THEN [slot |-> 0, gen |-> 1]
               ELSE [slot |-> slot, gen |-> gen + 1]

SessionGen == IF session = "bound" THEN sgen ELSE Started.gen

\* all_finite_generation_fp32: what the scan leaves in the word.
Scanned == IF finite THEN Started.slot ELSE SessionGen

\* accumulate, for the arrays of one chunk.
Accumulate ==
    /\ session # "none"
    /\ plan' = TRUE
    /\ slot' = Scanned
    /\ gen' = Started.gen
    /\ pending' = TRUE
    /\ session' = "bound"
    /\ sgen' = SessionGen
    /\ UNCHANGED <<cache, selected, finite, answer>>

\* accumulate throws at the launch, which may have scanned or not: the
\* exception ends the session and nothing becomes pending.
LaunchFails(ran) ==
    /\ session # "none"
    /\ plan' = TRUE
    /\ slot' = IF ran THEN Scanned ELSE Started.slot
    /\ gen' = Started.gen
    /\ EndSession
    /\ UNCHANGED <<cache, selected, finite, pending, answer>>

\* accumulate throws earlier (no memory for the plan or the word, the word
\* cannot be cleared), or finish(true) cannot copy the word to the host.
SessionThrows ==
    /\ session # "none"
    /\ plan' \in {plan, TRUE}
    /\ EndSession
    /\ UNCHANGED <<cache, selected, finite, word, answer>>

\* finish(false).
FinishDeferred ==
    /\ session # "none"
    /\ answer' = TRUE
    /\ EndSession
    /\ UNCHANGED <<cache, selected, finite, word, plan>>

\* finish(true).  A session that scanned nothing reads a pending verdict.
FinishRead ==
    /\ session # "none"
    /\ IF session = "open" /\ ~pending
          THEN answer' = TRUE /\ UNCHANGED pending
          ELSE /\ answer' = (slot # IF session = "bound" THEN sgen ELSE gen)
               /\ pending' = FALSE
    /\ EndSession
    /\ UNCHANGED <<cache, selected, finite, slot, gen, plan>>

-----------------------------------------------------------------------------
Next ==
    \/ CreateCache \/ OpenPhase \/ ClosePhase \/ ResetReusingAllocations \/ DestroyCache
    \/ \E f \in BOOLEAN : Kernel(f)
    \/ \E d \in Device : SelectDevice(d)
    \/ OpenSession \/ Accumulate \/ SessionThrows \/ FinishDeferred \/ FinishRead
    \/ \E ran \in BOOLEAN : LaunchFails(ran)

Spec == Init /\ [][Next]_vars

-----------------------------------------------------------------------------
(* Properties.                                                               *)

\* A verdict that was not read yet is on the device of the process: opening a
\* phase never migrates the cache and frees the only copy of the verdict.
PendingIsOnSelectedDevice == pending => device = selected

\* The word, its generation counter and its wrap behave as one sticky bit: a
\* NaN or Inf that a scan recorded is reported by the next readback, a check
\* of finite fields never fails on the remains of an older generation, and
\* only the readback or the end of the cache clears it.
Sticky == INSTANCE StickyVerdict WITH bad <- pending /\ slot = gen
BehavesAsStickyVerdict == Sticky!Spec
===============================================================================
