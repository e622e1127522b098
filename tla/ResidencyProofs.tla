--------------------------- MODULE ResidencyProofs ---------------------------
(***************************************************************************)
(* Proofs about ResidentCache, and about DftResidency on top of it, for    *)
(* any owners, arrays, devices and kernel.  The cache alone comes first;   *)
(* its lemmas serve both.                                                  *)
(***************************************************************************)
EXTENDS DftResidency, TLAPS

(***************************************************************************)
(* The inductive invariant.  CleanMirrorsMatchHost alone is not inductive: *)
(* a sync copies dirty mirrors, so those must exist; a CPU step changes    *)
(* host arrays under any mirror, so its owner must have none that is       *)
(* trusted, which in turn rests on where decisions come from.              *)
(***************************************************************************)
CoherentRow(h, d, di, u) ==
    /\ h \in [Array -> Value]
    /\ d \in [Array -> Value \union {NoValue}]
    /\ di \in SUBSET Array
    /\ u \in SUBSET Array
    /\ \A f \in di \union u : d[f] \in Value
    /\ \A f \in u \ di : d[f] = h[f]

CacheInv ==
    /\ CacheTypeOK
    /\ \A o \in Owner : CoherentRow(host[o], dev[o], dirty[o], uploaded[o])

CpuOwnersClean ==
    \A o \in Owner :
        exec[o] \in CpuDecision \/ (phase[o] = "open" /\ active = "cpu") \/ requested = "cpu"
            => dirty[o] = {} /\ uploaded[o] = {}

ControlInv ==
    /\ BackendTypeOK
    /\ OwnersTypeOK
    /\ CpuOwnersClean
    /\ PhaseOnSelectedDevice
    /\ \A o \in Owner : phase[o] = "open" /\ active = "cuda" => exec[o] \notin CpuDecision
    /\ requested = "cpu" => active = "cpu"

IoTypeOK == io \in {<<>>} \union ({"read", "write", "update"} \X Owner \X Contents)

IInv == CacheInv /\ ControlInv /\ IoTypeOK

-----------------------------------------------------------------------------
(* Rows.                                                                     *)

\* Writing new contents over a row of values gives a row of values.
LEMMA OverlayType ==
    ASSUME NEW row \in [Array -> Value], NEW w \in Contents
    PROVE  Overlay(w, row) \in [Array -> Value]
<1>1. PICK S \in SUBSET Array : w \in [S -> Value]
  BY DEF Contents
<1>2. QED
  BY <1>1 DEF Overlay

\* New contents for one array.
LEMMA SingletonContents ==
    ASSUME NEW f \in Array, NEW v \in Value
    PROVE  [x \in {f} |-> v] \in Contents
<1>1. {f} \in SUBSET Array
  OBVIOUS
<1>2. [x \in {f} |-> v] \in [{f} -> Value]
  OBVIOUS
<1>3. QED
  BY <1>1, <1>2 DEF Contents

\* The contents of some arrays of a row.
LEMMA RestrictionContents ==
    ASSUME NEW row \in [Array -> Value], NEW S \in SUBSET Array
    PROVE  [x \in S |-> row[x]] \in Contents
<1>1. [x \in S |-> row[x]] \in [S -> Value]
  OBVIOUS
<1>2. QED
  BY <1>1 DEF Contents

\* A kernel result is a value.
LEMMA CombineType ==
    ASSUME NEW a \in Value, NEW b \in Value
    PROVE  Combine[<<a, b>>] \in Value
BY CombineAssumption

\* What a sync publishes is a row of values.
LEMMA AuthoritativeType ==
    ASSUME CacheInv, NEW o \in Owner
    PROVE  Authoritative(o) \in [Array -> Value]
BY DEF CacheInv, CoherentRow, Authoritative

\* An action that leaves one owner's cache coherent preserves CacheInv.
LEMMA CacheUpdate ==
    ASSUME CacheInv, NEW o \in Owner, NEW h, NEW d, NEW di, NEW u,
           CoherentRow(h, d, di, u),
           host' = [host EXCEPT ![o] = h],
           dev' = [dev EXCEPT ![o] = d],
           dirty' = [dirty EXCEPT ![o] = di],
           uploaded' = [uploaded EXCEPT ![o] = u]
    PROVE  CacheInv'
<1>1. CacheTypeOK'
  BY DEF CacheInv, CacheTypeOK, CoherentRow
<1>2. ASSUME NEW p \in Owner
      PROVE  CoherentRow(host'[p], dev'[p], dirty'[p], uploaded'[p])
  <2>1. CASE p = o
    BY <2>1 DEF CacheInv, CacheTypeOK
  <2>2. CASE p # o
    BY <2>2 DEF CacheInv, CacheTypeOK
  <2>3. QED
    BY <2>1, <2>2
<1>3. QED
  BY <1>1, <1>2 DEF CacheInv

\* A cache nothing happens to.
LEMMA CacheUnchanged ==
    ASSUME CacheInv, UNCHANGED cacheVars
    PROVE  CacheInv'
BY DEF CacheInv, CacheTypeOK, cacheVars, CoherentRow

-----------------------------------------------------------------------------
\* The initial state satisfies the invariant.
LEMMA InitInv == Init => IInv
<1> SUFFICES ASSUME Init PROVE IInv
  OBVIOUS
<1>1. CacheInv
  BY DEF Init, CacheInv, CacheTypeOK, CoherentRow
<1>2. ControlInv
  BY DEF Init, BackendInit, ControlInv, BackendTypeOK, OwnersTypeOK, Mode,
         CpuOwnersClean, PhaseOnSelectedDevice, InPhase, ResidentPhase, CpuDecision
<1>3. QED
  BY <1>1, <1>2 DEF Init, IInv, IoTypeOK

\* A kernel preserves the invariant: what it uploads equals the host array, and
\* its output is dirty.
LEMMA KernelInv ==
    ASSUME IInv, NEW o \in Owner, NEW f \in Array, NEW g \in Array, Kernel(o, f, g)
    PROVE  IInv'
<1> DEFINE row == Ensured(o, {f, g})
           v == Combine[<<row[f], row[g]>>]
           w == [x \in {g} |-> v]
           d == Overlay(w, row)
           di == dirty[o] \union {g}
           u == uploaded[o] \union ({f, g} \ dirty[o])
<1> USE DEF IInv
<1>1. row[f] \in Value /\ row[g] \in Value
  BY DEF CacheInv, CoherentRow, Ensured, Current
<1>2. v \in Value /\ w \in Contents
  BY <1>1, CombineType, SingletonContents
<1>3. CoherentRow(host[o], d, di, u)
  BY <1>2 DEF CacheInv, CoherentRow, Ensured, Current, Overlay
<1>4. CacheInv'
  <2>1. /\ host' = [host EXCEPT ![o] = host[o]]
        /\ dev' = [dev EXCEPT ![o] = d]
        /\ dirty' = [dirty EXCEPT ![o] = di]
        /\ uploaded' = [uploaded EXCEPT ![o] = u]
    BY DEF Kernel, CacheInv, CacheTypeOK
  <2>2. QED
    BY <1>3, <2>1, CacheUpdate
<1>5. ControlInv'
  BY DEF Kernel, ControlInv, OwnersTypeOK, BackendTypeOK, CpuOwnersClean,
         PhaseOnSelectedDevice, CpuDecision, InPhase, ResidentPhase,
         backendVars, CacheInv, CacheTypeOK
<1>6. IoTypeOK'
  BY <1>2 DEF Kernel, IoTypeOK
<1>7. QED
  BY <1>4, <1>5, <1>6

\* sync_and_invalidate_all_resident_caches, whole or interrupted, keeps the
\* caches coherent.
LEMMA PublishInv ==
    ASSUME CacheInv, NEW S \in SUBSET Owner, PublishAndInvalidate(S)
    PROVE  CacheInv'
<1>1. \A o \in Owner : Authoritative(o) \in [Array -> Value]
  BY AuthoritativeType
<1>2. CacheTypeOK'
  BY <1>1 DEF PublishAndInvalidate, CacheInv, CacheTypeOK
<1>3. ASSUME NEW o \in Owner
      PROVE  CoherentRow(host'[o], dev'[o], dirty'[o], uploaded'[o])
  BY <1>1 DEF PublishAndInvalidate, CacheInv, CacheTypeOK, CoherentRow
<1>4. QED
  BY <1>2, <1>3 DEF CacheInv

\* After a complete publication no owner has a trusted mirror.
LEMMA PublishEmpties ==
    ASSUME PublishAndInvalidate(Owner), NEW o \in Owner
    PROVE  dirty'[o] = {} /\ uploaded'[o] = {}
BY DEF PublishAndInvalidate

\* set_backend preserves the invariant: it leaves nothing dirty or trusted.
LEMMA SetBackendInv ==
    ASSUME IInv, NEW m \in Mode, SetBackend(m)
    PROVE  IInv'
<1> USE DEF IInv
<1>1. CacheInv'
  BY PublishInv DEF SetBackend
<1>2. \A o \in Owner : dirty'[o] = {} /\ uploaded'[o] = {}
  BY PublishEmpties DEF SetBackend
<1>3. PICK env \in Device \union {NoDevice} : Configure(m, env)
  BY DEF SetBackend
<1>4. BackendTypeOK'
  BY <1>3 DEF Configure, Chosen, ControlInv, BackendTypeOK
<1>5. ordinal' = ordinal /\ phase' = phase /\ exec' = [o \in Owner |-> "none"]
  BY DEF SetBackend, PublishAndInvalidate, ForgetDecisions
<1>6. (requested = "cpu" => active = "cpu")' /\ \A o \in Owner : ~InPhase(o)
  BY <1>3 DEF Configure, SetBackend, NoPhase
<1>7. ControlInv'
  BY <1>2, <1>4, <1>5, <1>6 DEF ControlInv, OwnersTypeOK, CpuOwnersClean,
     PhaseOnSelectedDevice, InPhase, CpuDecision
<1>8. QED
  BY <1>1, <1>7 DEF SetBackend, IoTypeOK

\* A set_backend that throws preserves it, whichever caches it published.
LEMMA SetBackendFailsInv ==
    ASSUME IInv, SetBackendFails
    PROVE  IInv'
<1> USE DEF IInv
<1>1. PICK S \in SUBSET Owner : PublishAndInvalidate(S)
  BY DEF SetBackendFails
<1>2. CacheInv'
  BY <1>1, PublishInv
<1>3. \A o \in Owner : dirty[o] = {} /\ uploaded[o] = {} =>
                           dirty'[o] = {} /\ uploaded'[o] = {}
  BY <1>1 DEF PublishAndInvalidate
<1>4. ControlInv'
  BY <1>1, <1>3 DEF SetBackendFails, PublishAndInvalidate, backendVars, ControlInv,
     BackendTypeOK, OwnersTypeOK, CpuOwnersClean, PhaseOnSelectedDevice, InPhase
<1>5. QED
  BY <1>2, <1>4 DEF SetBackendFails, IoTypeOK

\* select_device preserves the invariant: no phase is open when it succeeds.
LEMMA SelectDeviceInv ==
    ASSUME IInv, NEW d \in Device, SelectDevice(d)
    PROVE  IInv'
<1> USE DEF IInv
<1>1. CacheInv'
  BY PublishInv DEF SelectDevice
<1>2. \A o \in Owner : dirty'[o] = {} /\ uploaded'[o] = {}
  BY PublishEmpties DEF SelectDevice
<1>3. BackendTypeOK' /\ (requested = "cpu" => active = "cpu")'
  BY DEF SelectDevice, SelectReadyDevice, ControlInv, BackendTypeOK
<1>4. ordinal' = ordinal /\ phase' = phase /\ exec' = [o \in Owner |-> "none"]
  BY DEF SelectDevice, PublishAndInvalidate, ForgetDecisions
<1>5. \A o \in Owner : ~InPhase(o)
  BY DEF SelectDevice, NoPhase
<1>6. ControlInv'
  BY <1>2, <1>3, <1>4, <1>5 DEF ControlInv, OwnersTypeOK, CpuOwnersClean,
     PhaseOnSelectedDevice, InPhase, CpuDecision
<1>7. QED
  BY <1>1, <1>6 DEF SelectDevice, IoTypeOK

-----------------------------------------------------------------------------
(* Steps.                                                                    *)

\* A CPU step preserves the invariant without looking at the cache: the cached
\* CPU decision, or the CPU request, implies that no mirror is current.
LEMMA BeginCpuStepInv ==
    ASSUME IInv, NEW o \in Owner, BeginCpuStep(o)
    PROVE  IInv'
<1> USE DEF IInv
<1>1. CacheInv'
  BY CacheUnchanged DEF BeginCpuStep
<1>2. ControlInv'
  BY DEF BeginCpuStep, Activate, Idle, cacheVars, ControlInv, BackendTypeOK,
     OwnersTypeOK, CpuOwnersClean, PhaseOnSelectedDevice, InPhase,
     ResidentPhase, CpuDecision, Mode
<1>3. QED
  BY <1>1, <1>2 DEF BeginCpuStep, IoTypeOK

\* An automatic CPU decision preserves the invariant: it destroys the cache.
LEMMA AutomaticCpuStepInv ==
    ASSUME IInv, NEW o \in Owner, NEW e \in CpuDecision, AutomaticCpuStep(o, e)
    PROVE  IInv'
<1> USE DEF IInv
<1>1. CoherentRow(Authoritative(o), NoMirrors, {}, {})
  BY AuthoritativeType DEF CoherentRow, NoMirrors
<1>2. CacheInv'
  BY <1>1, CacheUpdate DEF AutomaticCpuStep, Sync, DestroyCache
<1>3. BackendTypeOK'
  BY DEF AutomaticCpuStep, Activate, CandidatePrepared, Chosen, ControlInv,
     BackendTypeOK, Mode
<1>4. OwnersTypeOK'
  BY DEF AutomaticCpuStep, DestroyCache, ControlInv, OwnersTypeOK, CpuDecision
<1>5. /\ dirty' = [dirty EXCEPT ![o] = {}]
      /\ uploaded' = [uploaded EXCEPT ![o] = {}]
      /\ requested' = requested /\ requested = "auto"
      /\ exec' = [exec EXCEPT ![o] = e]
      /\ phase' = [phase EXCEPT ![o] = "open"]
      /\ active' = "cpu"
      /\ \A p \in Owner : phase[p] = "idle"
  BY DEF AutomaticCpuStep, DestroyCache, Activate, Idle
<1>6. CpuOwnersClean'
  BY <1>5 DEF CacheInv, CacheTypeOK, ControlInv, OwnersTypeOK, CpuOwnersClean
<1>7. PhaseOnSelectedDevice'
  BY <1>5 DEF ControlInv, OwnersTypeOK, PhaseOnSelectedDevice, InPhase, ResidentPhase
<1>8. ControlInv'
  BY <1>3, <1>4, <1>5, <1>6, <1>7 DEF ControlInv, OwnersTypeOK, CpuDecision
<1>9. QED
  BY <1>2, <1>8 DEF AutomaticCpuStep, IoTypeOK

\* What the admission of an owner to the device leaves behind.
LEMMA AdmitCudaFacts ==
    ASSUME IInv, NEW o \in Owner, CandidatePrepared, Activate("cuda")
    PROVE  BackendTypeOK' /\ active' = "cuda" /\ requested' = requested
BY DEF IInv, ControlInv, CandidatePrepared, Activate, Chosen, BackendTypeOK, Mode

\* A preflight that throws preserves the invariant: it touches no mirror.
LEMMA CudaPreflightFailsInv ==
    ASSUME IInv, NEW o \in Owner, CudaPreflightFails(o)
    PROVE  IInv'
<1> USE DEF IInv
<1>1. CacheInv'
  BY CacheUnchanged DEF CudaPreflightFails
<1>2. BackendTypeOK' /\ requested' = requested
  BY AdmitCudaFacts DEF CudaPreflightFails
<1>3. ControlInv'
  BY <1>2 DEF CudaPreflightFails, Idle, cacheVars, ControlInv, OwnersTypeOK,
     CpuOwnersClean, PhaseOnSelectedDevice, InPhase, ResidentPhase, CpuDecision
<1>4. QED
  BY <1>1, <1>3 DEF CudaPreflightFails, IoTypeOK

\* So does one that throws before it activates a backend.
LEMMA CandidateFailsInv ==
    ASSUME IInv, NEW o \in Owner, CandidateFails(o)
    PROVE  IInv'
<1> USE DEF IInv
<1>1. CacheInv'
  BY CacheUnchanged DEF CandidateFails
<1>2. BackendTypeOK'
  BY DEF CandidateFails, CandidatePrepared, Chosen, ControlInv, BackendTypeOK
<1>3. ControlInv'
  BY <1>2 DEF CandidateFails, Idle, cacheVars, ControlInv, OwnersTypeOK,
     CpuOwnersClean, PhaseOnSelectedDevice, InPhase, ResidentPhase
<1>4. QED
  BY <1>1, <1>3 DEF CandidateFails, IoTypeOK

\* The control state when a step begins that was admitted to the device: a
\* persistent step is in its phase from the start.
LEMMA OpenedControl ==
    ASSUME IInv, NEW o \in Owner, NEW p \in StepKind, AdmitCuda(o),
           NEW d \in Device \union {NoDevice},
           ordinal' = [ordinal EXCEPT ![o] = d],
           p = "step" => d = selected',
           phase' = [phase EXCEPT ![o] = p],
           \A q \in Owner \ {o} : dirty'[q] = dirty[q] /\ uploaded'[q] = uploaded[q]
    PROVE  ControlInv'
<1> USE DEF IInv
<1>1. BackendTypeOK' /\ active' = "cuda" /\ requested' = requested
  BY AdmitCudaFacts DEF AdmitCuda
<1>2. OwnersTypeOK'
  BY DEF AdmitCuda, ControlInv, OwnersTypeOK, StepKind, ResidentPhase
<1>3. /\ exec' = [exec EXCEPT ![o] = "cuda"]
      /\ requested # "cpu"
      /\ \A q \in Owner : phase[q] = "idle"
  BY DEF AdmitCuda, Idle
<1>4. CpuOwnersClean'
  BY <1>1, <1>3 DEF ControlInv, OwnersTypeOK, CpuOwnersClean, CpuDecision
<1>5. PhaseOnSelectedDevice'
  BY <1>1, <1>3 DEF ControlInv, OwnersTypeOK, PhaseOnSelectedDevice, InPhase,
     ResidentPhase, StepKind, CpuDecision
<1>6. QED
  BY <1>1, <1>2, <1>3, <1>4, <1>5 DEF ControlInv, OwnersTypeOK, CpuDecision

\* A cache stays coherent, and its arrays keep their values, when it moves.
LEMMA OnDeviceCoherent ==
    ASSUME CacheInv, NEW o \in Owner, NEW d
    PROVE  LET c == OnDevice(o, d)
           IN  /\ CoherentRow(c.host, c.dev, c.dirty, c.uploaded)
               /\ CoherentRow(c.host, c.dev, c.dirty, {})
<1>1. CoherentRow(host[o], dev[o], dirty[o], uploaded[o])
  BY DEF CacheInv
<1>2. CoherentRow(Authoritative(o), NoMirrors, {}, {})
  BY AuthoritativeType DEF CoherentRow, NoMirrors
<1>3. QED
  BY <1>1, <1>2 DEF OnDevice, CoherentRow

\* Opening a phase keeps the caches coherent and adds no mirror, also when the
\* cache moves between devices or loses the trust in its mirrors.
LEMMA OpenPhaseCache ==
    ASSUME CacheInv, NEW o \in Owner, NEW p, OpenPhase(o, p)
    PROVE  /\ CacheInv'
           /\ dirty'[o] \subseteq dirty[o] /\ uploaded'[o] \subseteq uploaded[o]
           /\ \A q \in Owner \ {o} : dirty'[q] = dirty[q] /\ uploaded'[q] = uploaded[q]
<1> DEFINE c == OnDevice(o, selected')
<1>1. PICK u \in {c.uploaded, {}} : uploaded' = [uploaded EXCEPT ![o] = u]
  BY DEF OpenPhase
<1>2. CoherentRow(c.host, c.dev, c.dirty, u)
  BY <1>1, OnDeviceCoherent
<1>3. CacheInv'
  BY <1>1, <1>2, CacheUpdate DEF OpenPhase
<1>4. \A q \in Owner \ {o} : dirty'[q] = dirty[q] /\ uploaded'[q] = uploaded[q]
  BY <1>1 DEF OpenPhase, CacheInv, CacheTypeOK
<1>5. dirty'[o] \subseteq dirty[o] /\ uploaded'[o] \subseteq uploaded[o]
  BY <1>1 DEF OpenPhase, OnDevice, CacheInv, CacheTypeOK
<1>6. QED
  BY <1>3, <1>4, <1>5

\* A step admitted to the device preserves the invariant, with a phase ...
LEMMA BeginCudaStepInv ==
    ASSUME IInv, NEW o \in Owner, BeginCudaStep(o)
    PROVE  IInv'
<1> USE DEF IInv
<1>1. CacheInv'
  BY OpenPhaseCache DEF BeginCudaStep
<1>2. \A q \in Owner \ {o} : dirty'[q] = dirty[q] /\ uploaded'[q] = uploaded[q]
  BY OpenPhaseCache DEF BeginCudaStep
<1>3. selected' \in Device \union {NoDevice}
  BY AdmitCudaFacts DEF BeginCudaStep, AdmitCuda, BackendTypeOK
<1>4. ControlInv'
  BY <1>2, <1>3, OpenedControl DEF BeginCudaStep, OpenPhase, StepKind
<1>5. QED
  BY <1>1, <1>4 DEF BeginCudaStep, IoTypeOK

\* ... and without.
LEMMA BeginOpenCudaStepInv ==
    ASSUME IInv, NEW o \in Owner, BeginOpenCudaStep(o)
    PROVE  IInv'
<1> USE DEF IInv
<1>1. CacheInv'
  BY CacheUnchanged DEF BeginOpenCudaStep
<1>2. ordinal' = [ordinal EXCEPT ![o] = ordinal[o]] /\ ordinal[o] \in Device \union {NoDevice}
  BY DEF BeginOpenCudaStep, ControlInv, OwnersTypeOK
<1>3. ControlInv'
  BY <1>2, OpenedControl DEF BeginOpenCudaStep, cacheVars, StepKind
<1>4. QED
  BY <1>1, <1>3 DEF BeginOpenCudaStep, IoTypeOK

\* An operation that opens its phase preserves the invariant: CUDA is active,
\* and that is never so in a step whose owner has a CPU decision.
LEMMA BeginOperationInv ==
    ASSUME IInv, NEW o \in Owner, BeginOperation(o)
    PROVE  IInv'
<1> USE DEF IInv
<1>1. /\ CacheInv'
      /\ dirty'[o] \subseteq dirty[o] /\ uploaded'[o] \subseteq uploaded[o]
      /\ \A q \in Owner \ {o} : dirty'[q] = dirty[q] /\ uploaded'[q] = uploaded[q]
  BY OpenPhaseCache DEF BeginOperation
<1>2. /\ UNCHANGED <<backendVars, exec>>
      /\ phase' = [phase EXCEPT ![o] = "op"]
      /\ ordinal' = [ordinal EXCEPT ![o] = selected]
      /\ phase[o] = "open" /\ active = "cuda"
  BY DEF BeginOperation, OpenPhase, backendVars
<1>3. BackendTypeOK' /\ OwnersTypeOK'
  BY <1>2 DEF ControlInv, BackendTypeOK, OwnersTypeOK, ResidentPhase, backendVars
<1>4. CpuOwnersClean'
  BY <1>1, <1>2 DEF ControlInv, OwnersTypeOK, CpuOwnersClean, backendVars
<1>5. PhaseOnSelectedDevice'
  BY <1>2 DEF ControlInv, OwnersTypeOK, PhaseOnSelectedDevice, InPhase, backendVars
<1>6. ControlInv'
  BY <1>2, <1>3, <1>4, <1>5 DEF ControlInv, OwnersTypeOK, backendVars
<1>7. QED
  BY <1>1, <1>6 DEF BeginOperation, IoTypeOK

\* Rewriting the materials preserves the invariant: no mirror survives it.
LEMMA BeginCudaStepWithNewMaterialsInv ==
    ASSUME IInv, NEW o \in Owner, NEW p \in StepKind, NEW w \in Contents,
           BeginCudaStepWithNewMaterials(o, p, w)
    PROVE  IInv'
<1> USE DEF IInv
<1> DEFINE h == Overlay(w, Authoritative(o))
<1>1. CoherentRow(h, NoMirrors, {}, {})
  BY AuthoritativeType, OverlayType DEF CoherentRow, NoMirrors
<1>2. CacheInv'
  BY <1>1, CacheUpdate DEF BeginCudaStepWithNewMaterials, SyncAndWrite
<1>3. \A q \in Owner \ {o} : dirty'[q] = dirty[q] /\ uploaded'[q] = uploaded[q]
  BY DEF BeginCudaStepWithNewMaterials, CacheInv, CacheTypeOK
<1>4. selected' \in Device \union {NoDevice}
  BY AdmitCudaFacts DEF BeginCudaStepWithNewMaterials, AdmitCuda, BackendTypeOK
<1>5. ControlInv'
  BY <1>3, <1>4, OpenedControl DEF BeginCudaStepWithNewMaterials
<1>6. QED
  BY <1>2, <1>5 DEF BeginCudaStepWithNewMaterials, IoTypeOK

\* A CPU update preserves the invariant although it writes host arrays: the
\* owner has no current mirror.
LEMMA CpuUpdateInv ==
    ASSUME IInv, NEW o \in Owner, NEW f \in Array, NEW g \in Array, CpuUpdate(o, f, g)
    PROVE  IInv'
<1> USE DEF IInv
<1> DEFINE v == Combine[<<host[o][f], host[o][g]>>]
           w == [x \in {g} |-> v]
           h == Overlay(w, host[o])
<1>1. v \in Value /\ w \in Contents
  <2>1. host[o][f] \in Value /\ host[o][g] \in Value
    BY DEF CacheInv, CacheTypeOK
  <2>2. v \in Value
    BY <2>1, CombineType
  <2>3. QED
    BY <2>2, SingletonContents
<1>2. dirty[o] = {} /\ uploaded[o] = {}
  BY DEF CpuUpdate, ControlInv, CpuOwnersClean
<1>3. CoherentRow(h, dev[o], dirty[o], uploaded[o])
  BY <1>1, <1>2, OverlayType DEF CacheInv, CacheTypeOK, CoherentRow
<1>4. CacheInv'
  <2>1. /\ host' = [host EXCEPT ![o] = h]
        /\ dev' = [dev EXCEPT ![o] = dev[o]]
        /\ dirty' = [dirty EXCEPT ![o] = dirty[o]]
        /\ uploaded' = [uploaded EXCEPT ![o] = uploaded[o]]
    BY DEF CpuUpdate, CacheInv, CacheTypeOK
  <2>2. QED
    BY <1>3, <2>1, CacheUpdate
<1>5. ControlInv'
  BY DEF CpuUpdate, ControlInv, OwnersTypeOK, BackendTypeOK, CpuOwnersClean,
         PhaseOnSelectedDevice, InPhase, backendVars
<1>6. QED
  BY <1>1, <1>4, <1>5 DEF CpuUpdate, IoTypeOK

\* A failing operation preserves the invariant: what it uploaded is coherent.
LEMMA KernelFailsInv ==
    ASSUME IInv, NEW o \in Owner, NEW S \in SUBSET Array, KernelFails(o, S)
    PROVE  IInv'
<1> USE DEF IInv
<1> DEFINE d == Ensured(o, S)
           u == uploaded[o] \union (S \ dirty[o])
<1>1. CoherentRow(host[o], d, dirty[o], u)
  BY DEF CacheInv, CoherentRow, Ensured, Current
<1>2. CacheInv'
  <2>1. /\ host' = [host EXCEPT ![o] = host[o]]
        /\ dev' = [dev EXCEPT ![o] = d]
        /\ dirty' = [dirty EXCEPT ![o] = dirty[o]]
        /\ uploaded' = [uploaded EXCEPT ![o] = u]
    BY DEF KernelFails, CacheInv, CacheTypeOK
  <2>2. QED
    BY <1>1, <2>1, CacheUpdate
<1>3. ControlInv'
  BY DEF KernelFails, ControlInv, OwnersTypeOK, BackendTypeOK, CpuOwnersClean,
         PhaseOnSelectedDevice, CpuDecision, InPhase, ResidentPhase,
         backendVars, CacheInv, CacheTypeOK
<1>4. QED
  BY <1>2, <1>3 DEF KernelFails, IoTypeOK

\* The control state when a step ends, or a phase within it, and no mirror is
\* added.
LEMMA EndedControl ==
    ASSUME IInv, NEW o \in Owner, NEW p \in {"idle", "open"}, InPhase(o) \/ p = "idle",
           UNCHANGED <<backendVars, exec, ordinal>>,
           phase' = [phase EXCEPT ![o] = p],
           \A q \in Owner : dirty'[q] \subseteq dirty[q] /\ uploaded'[q] \subseteq uploaded[q]
    PROVE  ControlInv'
BY DEF IInv, ControlInv, OwnersTypeOK, BackendTypeOK, CpuOwnersClean,
       PhaseOnSelectedDevice, InPhase, ResidentPhase, backendVars

\* The end of a step preserves the invariant.
LEMMA FinishStepInv ==
    ASSUME IInv, NEW o \in Owner, FinishStep(o)
    PROVE  IInv'
<1>1. CacheInv'
  BY CacheUnchanged DEF FinishStep, IInv
<1>2. ControlInv'
  BY EndedControl DEF FinishStep, cacheVars
<1>3. QED
  BY <1>1, <1>2 DEF FinishStep, IInv, IoTypeOK

\* The publication at the end of an operation preserves the invariant.
LEMMA FinishOperationInv ==
    ASSUME IInv, NEW o \in Owner, FinishOperation(o)
    PROVE  IInv'
<1> USE DEF IInv
<1>1. CoherentRow(Authoritative(o), dev[o], {}, {})
  BY AuthoritativeType DEF CacheInv, CoherentRow
<1>2. CacheInv'
  <2>1. dev' = [dev EXCEPT ![o] = dev[o]]
    BY DEF FinishOperation, CacheInv, CacheTypeOK
  <2>2. QED
    BY <1>1, <2>1, CacheUpdate DEF FinishOperation, Sync
<1>3. \A q \in Owner : dirty'[q] \subseteq dirty[q] /\ uploaded'[q] \subseteq uploaded[q]
  BY DEF FinishOperation, CacheInv, CacheTypeOK
<1>4. ControlInv'
  BY <1>3, EndedControl DEF FinishOperation, InPhase, ResidentPhase
<1>5. QED
  BY <1>2, <1>4 DEF FinishOperation, IoTypeOK

\* A failing publication preserves the invariant: nothing was copied.
LEMMA FinishOperationFailsInv ==
    ASSUME IInv, NEW o \in Owner, FinishOperationFails(o)
    PROVE  IInv'
<1>1. CacheInv'
  BY CacheUnchanged DEF FinishOperationFails, IInv
<1>2. ControlInv'
  BY EndedControl DEF FinishOperationFails, cacheVars
<1>3. QED
  BY <1>1, <1>2 DEF FinishOperationFails, IInv, IoTypeOK

-----------------------------------------------------------------------------
(* Host operations.                                                          *)

\* The control state when trusted mirrors go away between phases of an owner,
\* or in a phase that keeps its device.
LEMMA ShrunkControl ==
    ASSUME IInv, NEW o \in Owner,
           UNCHANGED <<backendVars, exec, phase>>,
           \/ UNCHANGED ordinal
           \/ ~InPhase(o) /\ ordinal' = [ordinal EXCEPT ![o] = NoDevice],
           \A q \in Owner : dirty'[q] \subseteq dirty[q] /\ uploaded'[q] \subseteq uploaded[q]
    PROVE  ControlInv'
BY DEF IInv, ControlInv, OwnersTypeOK, BackendTypeOK, CpuOwnersClean,
       PhaseOnSelectedDevice, InPhase, ResidentPhase, backendVars

\* A synced read preserves the invariant: a clean mirror still equals its array.
LEMMA HostReadInv ==
    ASSUME IInv, NEW o \in Owner, NEW S \in SUBSET Array, HostRead(o, S)
    PROVE  IInv'
<1> USE DEF IInv
<1>1. Authoritative(o) \in [Array -> Value]
  BY AuthoritativeType
<1>2. CoherentRow(Authoritative(o), dev[o], {}, uploaded[o])
  BY <1>1 DEF CacheInv, CoherentRow, Authoritative
<1>3. CacheInv'
  <2>1. /\ dev' = [dev EXCEPT ![o] = dev[o]]
        /\ uploaded' = [uploaded EXCEPT ![o] = uploaded[o]]
    BY DEF HostRead, CacheInv, CacheTypeOK
  <2>2. QED
    BY <1>2, <2>1, CacheUpdate DEF HostRead, Sync
<1>4. \A q \in Owner : dirty'[q] \subseteq dirty[q] /\ uploaded'[q] \subseteq uploaded[q]
  BY DEF HostRead, CacheInv, CacheTypeOK
<1>5. ControlInv'
  BY <1>4, ShrunkControl DEF HostRead
<1>6. host'[o] = Authoritative(o)
  BY DEF HostRead, Sync, CacheInv, CacheTypeOK
<1>7. [f \in S |-> host'[o][f]] \in Contents
  BY <1>1, <1>6, RestrictionContents
<1>8. QED
  BY <1>3, <1>5, <1>7 DEF HostRead, IoTypeOK

\* A point read changes nothing but io.
LEMMA PointReadInv ==
    ASSUME IInv, NEW o \in Owner, NEW f \in Array, PointRead(o, f)
    PROVE  IInv'
<1> USE DEF IInv
<1>1. [x \in {f} |-> Authoritative(o)[x]] \in Contents
  BY AuthoritativeType, RestrictionContents
<1>2. CacheInv'
  BY CacheUnchanged DEF PointRead
<1>3. ControlInv'
  BY ShrunkControl DEF PointRead, cacheVars
<1>4. QED
  BY <1>1, <1>2, <1>3 DEF PointRead, IoTypeOK

\* An announced host write preserves the invariant: its mirrors lose trust.
LEMMA KrylovWriteInv ==
    ASSUME IInv, NEW o \in Owner, NEW w \in Contents, KrylovWrite(o, w)
    PROVE  IInv'
<1> USE DEF IInv
<1> DEFINE h == Overlay(w, Authoritative(o))
           u == uploaded[o] \ DOMAIN w
<1>1. CoherentRow(h, dev[o], {}, u)
  <2>1. h \in [Array -> Value]
    BY AuthoritativeType, OverlayType
  <2>2. \A f \in u : dev[o][f] \in Value /\ h[f] = dev[o][f]
    BY DEF CacheInv, CoherentRow, Authoritative, Overlay
  <2>3. QED
    BY <2>1, <2>2 DEF CacheInv, CoherentRow
<1>2. CacheInv'
  <2>1. /\ dev' = [dev EXCEPT ![o] = dev[o]]
        /\ uploaded' = [uploaded EXCEPT ![o] = u]
    BY DEF KrylovWrite, CacheInv, CacheTypeOK
  <2>2. QED
    BY <1>1, <2>1, CacheUpdate DEF KrylovWrite, SyncAndWrite
<1>3. \A q \in Owner : dirty'[q] \subseteq dirty[q] /\ uploaded'[q] \subseteq uploaded[q]
  BY DEF KrylovWrite, CacheInv, CacheTypeOK
<1>4. ControlInv'
  BY <1>3, ShrunkControl DEF KrylovWrite
<1>5. QED
  BY <1>2, <1>4 DEF KrylovWrite, IoTypeOK

\* A rewrite that destroys the cache preserves the invariant.
LEMMA HostRewriteInv ==
    ASSUME IInv, NEW o \in Owner, NEW w \in Contents, HostRewrite(o, w)
    PROVE  IInv'
<1> USE DEF IInv
<1> DEFINE h == Overlay(w, Authoritative(o))
<1>1. CoherentRow(h, NoMirrors, {}, {})
  BY AuthoritativeType, OverlayType DEF CoherentRow, NoMirrors
<1>2. CacheInv'
  BY <1>1, CacheUpdate DEF HostRewrite, SyncAndWrite, DestroyCache
<1>3. \A q \in Owner : dirty'[q] \subseteq dirty[q] /\ uploaded'[q] \subseteq uploaded[q]
  BY DEF HostRewrite, DestroyCache, CacheInv, CacheTypeOK
<1>4. ControlInv'
  BY <1>3, ShrunkControl DEF HostRewrite, DestroyCache
<1>5. QED
  BY <1>2, <1>4 DEF HostRewrite, IoTypeOK

\* The replacement of an array preserves the invariant: its mirror is gone.
LEMMA ReplaceArrayInv ==
    ASSUME IInv, NEW o \in Owner, NEW f \in Array, NEW v \in Value, ReplaceArray(o, f, v)
    PROVE  IInv'
<1> USE DEF IInv
<1> DEFINE w == [x \in {f} |-> v]
           h == Overlay(w, host[o])
           d == [dev[o] EXCEPT ![f] = NoValue]
           di == dirty[o] \ {f}
           u == uploaded[o] \ {f}
<1>1. w \in Contents
  BY SingletonContents
<1>2. CoherentRow(h, d, di, u)
  BY DEF CacheInv, CoherentRow, Overlay
<1>3. CacheInv'
  <2>1. /\ host' = [host EXCEPT ![o] = h]
        /\ dev' = [dev EXCEPT ![o] = d]
        /\ dirty' = [dirty EXCEPT ![o] = di]
        /\ uploaded' = [uploaded EXCEPT ![o] = u]
    BY DEF ReplaceArray, CacheInv, CacheTypeOK
  <2>2. QED
    BY <1>2, <2>1, CacheUpdate
<1>4. \A q \in Owner : dirty'[q] \subseteq dirty[q] /\ uploaded'[q] \subseteq uploaded[q]
  BY DEF ReplaceArray, CacheInv, CacheTypeOK
<1>5. ControlInv'
  BY <1>4, ShrunkControl DEF ReplaceArray
<1>6. QED
  BY <1>1, <1>3, <1>5 DEF ReplaceArray, IoTypeOK

-----------------------------------------------------------------------------
\* Every step of the specification preserves the invariant.
LEMMA NextInv == IInv /\ [Next]_vars => IInv'
<1> SUFFICES ASSUME IInv, [Next]_vars PROVE IInv'
  OBVIOUS
<1>1. CASE Selection
  BY <1>1, SetBackendInv, SetBackendFailsInv, SelectDeviceInv DEF Selection
<1>2. ASSUME NEW o \in Owner, Stepping(o) PROVE IInv'
  BY <1>2, BeginCpuStepInv, AutomaticCpuStepInv, CudaPreflightFailsInv,
     CandidateFailsInv, BeginCudaStepInv, BeginOpenCudaStepInv,
     BeginCudaStepWithNewMaterialsInv, BeginOperationInv, CpuUpdateInv, KernelInv,
     KernelFailsInv, FinishStepInv, FinishOperationInv, FinishOperationFailsInv
     DEF Stepping
<1>3. ASSUME NEW o \in Owner, HostOperation(o) PROVE IInv'
  BY <1>3, HostReadInv, PointReadInv, KrylovWriteInv, HostRewriteInv,
     ReplaceArrayInv DEF HostOperation
<1>4. CASE UNCHANGED vars
  BY <1>4 DEF vars, backendVars, cacheVars, IInv, CacheInv, CacheTypeOK, CoherentRow,
     ControlInv, BackendTypeOK, OwnersTypeOK, CpuOwnersClean,
     PhaseOnSelectedDevice, InPhase, IoTypeOK
<1>5. QED
  BY <1>1, <1>2, <1>3, <1>4 DEF Next

\* The inductive invariant holds in every execution.
THEOREM Invariance == Spec => []IInv
BY InitInv, NextInv, PTL DEF Spec

\* Every variable keeps its type in every execution.
THEOREM TypeCorrect == Spec => []TypeOK
<1>1. IInv => TypeOK
  BY DEF IInv, CacheInv, ControlInv, IoTypeOK, TypeOK
<1>2. QED
  BY <1>1, Invariance, PTL

\* A mirror that is trusted and not written by a kernel equals its host array:
\* no host write of any modelled operation escapes the cache.
THEOREM MirrorCoherence == Spec => []CleanMirrorsMatchHost
<1>1. IInv => CleanMirrorsMatchHost
  BY DEF IInv, CacheInv, CoherentRow, CleanMirrorsMatchHost
<1>2. QED
  BY <1>1, Invariance, PTL

\* An owner that steps on the CPU has no trusted and no dirty mirror.
THEOREM CpuIsolation == Spec => []CpuOwnersHoldNoMirrorState
<1>1. IInv => CpuOwnersHoldNoMirrorState
  BY DEF IInv, ControlInv, CpuOwnersClean, CpuOwnersHoldNoMirrorState, Current
<1>2. QED
  BY <1>1, Invariance, PTL

\* A phase runs on the selected device with CUDA active.
THEOREM PhaseDevice == Spec => []PhaseOnSelectedDevice
<1>1. IInv => PhaseOnSelectedDevice
  BY DEF IInv, ControlInv
<1>2. QED
  BY <1>1, Invariance, PTL

-----------------------------------------------------------------------------
(***************************************************************************)
(* The cache implements the plain array store: val is the authoritative    *)
(* copy of every array.  A step changes the cache of one owner, to host    *)
(* row h, mirrors d and dirty set di; Row(h, d, di) is what the owner then *)
(* holds.  Every action either keeps that row or is one operation on it.   *)
(***************************************************************************)
Row(h, d, di) == [f \in Array |-> IF f \in di THEN d[f] ELSE h[f]]

Val == [o \in Owner |-> Authoritative(o)]

\* When one owner's row becomes r and no other changes, val maps to the store's
\* row update.
LEMMA ValUpdate ==
    ASSUME CacheInv, NEW o \in Owner, NEW h, NEW d, NEW di,
           host' = [host EXCEPT ![o] = h],
           dev' = [dev EXCEPT ![o] = d],
           dirty' = [dirty EXCEPT ![o] = di]
    PROVE  Val' = [Val EXCEPT ![o] = Row(h, d, di)]
<1>1. host'[o] = h /\ dev'[o] = d /\ dirty'[o] = di
  BY DEF CacheInv, CacheTypeOK
<1>2. \A p \in Owner \ {o} :
          host'[p] = host[p] /\ dev'[p] = dev[p] /\ dirty'[p] = dirty[p]
  BY DEF CacheInv, CacheTypeOK
<1>3. \A p \in Owner : Val'[p] = [Val EXCEPT ![o] = Row(h, d, di)][p]
  BY <1>1, <1>2 DEF Val, Authoritative, Row
<1>4. QED
  BY <1>3 DEF Val

\* When no row changes, val does not.
LEMMA ValUnchanged ==
    ASSUME CacheInv, UNCHANGED cacheVars
    PROVE  Val' = Val
BY DEF Val, Authoritative, cacheVars

\* An action that keeps the row of an owner, and io, stutters.
LEMMA ValKept ==
    ASSUME CacheInv, NEW o \in Owner, NEW h, NEW d, NEW di,
           host' = [host EXCEPT ![o] = h],
           dev' = [dev EXCEPT ![o] = d],
           dirty' = [dirty EXCEPT ![o] = di],
           Row(h, d, di) = Authoritative(o)
    PROVE  Val' = Val
<1>1. Val' = [Val EXCEPT ![o] = Row(h, d, di)]
  BY ValUpdate
<1>2. Val[o] = Row(h, d, di)
  BY DEF Val
<1>3. QED
  BY <1>1, <1>2 DEF Val

\* An action that stores a kernel result in the authoritative row is Update.
LEMMA UpdateRefines ==
    ASSUME NEW o \in Owner, NEW f \in Array, NEW g \in Array, NEW w,
           w = [x \in {g} |-> Combine[<<Authoritative(o)[f], Authoritative(o)[g]>>]],
           Val' = [Val EXCEPT ![o] = Overlay(w, Authoritative(o))],
           io' = <<"update", o, w>>
    PROVE  Store!Next
<1>1. w = [x \in {g} |-> Combine[<<Val[o][f], Val[o][g]>>]]
  BY DEF Val
<1>2. Store!Update(o, o, f, g)
  BY <1>1 DEF Store!Update, Val, Overlay, Store!Overlay
<1>3. QED
  BY <1>2 DEF Store!Next

\* An action that overlays contents on the authoritative row is Write.
LEMMA WriteRefines ==
    ASSUME NEW o \in Owner, NEW w \in Contents,
           Val' = [Val EXCEPT ![o] = Overlay(w, Authoritative(o))],
           io' = <<"write", o, w>>
    PROVE  Store!Next
<1>1. Store!Write(o, w)
  BY DEF Store!Write, Val, Overlay, Store!Overlay
<1>2. QED
  BY <1>1 DEF Store!Next, Contents, Store!Contents

\* An action that reports contents of the authoritative row is Read.
LEMMA ReadRefines ==
    ASSUME NEW o \in Owner, NEW S \in SUBSET Array,
           Val' = Val,
           io' = <<"read", o, [f \in S |-> Authoritative(o)[f]]>>
    PROVE  Store!Next
<1>1. Store!Read(o, S)
  BY DEF Store!Read, Val
<1>2. QED
  BY <1>1 DEF Store!Next

\* A publication of any set of caches changes no value.
LEMMA PublishKeeps ==
    ASSUME CacheInv, NEW S \in SUBSET Owner, PublishAndInvalidate(S)
    PROVE  Val' = Val
<1>1. \A o \in Owner : Authoritative(o)' = Authoritative(o)
  BY DEF PublishAndInvalidate, Authoritative, CacheInv, CacheTypeOK
<1>2. QED
  BY <1>1 DEF Val

\* A change of backend or device, also a failed one, is invisible.
LEMMA SelectionRefines ==
    ASSUME IInv, Selection
    PROVE  Val' = Val /\ io' = io
<1>1. PICK S \in SUBSET Owner : PublishAndInvalidate(S)
  BY DEF Selection, SetBackend, SetBackendFails, SelectDevice
<1>2. QED
  BY <1>1, PublishKeeps DEF IInv, Selection, SetBackend, SetBackendFails, SelectDevice

\* The teardown of a cache for a CPU step is invisible.
LEMMA AutomaticCpuStepRefines ==
    ASSUME IInv, NEW o \in Owner, NEW e \in CpuDecision, AutomaticCpuStep(o, e)
    PROVE  Val' = Val
<1>1. Row(Authoritative(o), NoMirrors, {}) = Authoritative(o)
  BY DEF Row, Authoritative
<1>2. QED
  BY <1>1, ValKept DEF AutomaticCpuStep, Sync, DestroyCache, IInv

\* Opening a phase, with its migration between devices, is invisible.
LEMMA OpenPhaseRefines ==
    ASSUME CacheInv, NEW o \in Owner, NEW p, OpenPhase(o, p)
    PROVE  Val' = Val
<1> DEFINE c == OnDevice(o, selected')
<1>1. Row(c.host, c.dev, c.dirty) = Authoritative(o)
  BY DEF Row, Authoritative, OnDevice
<1>2. QED
  BY <1>1, ValKept DEF OpenPhase

\* The rewriting of the materials is a write and nothing else.
LEMMA NewMaterialsRefines ==
    ASSUME IInv, NEW o \in Owner, NEW p \in StepKind, NEW w \in Contents,
           BeginCudaStepWithNewMaterials(o, p, w)
    PROVE  Store!Next
<1> DEFINE h == Overlay(w, Authoritative(o))
<1>1. Row(h, NoMirrors, {}) = h
  BY DEF Row, Overlay
<1>2. Val' = [Val EXCEPT ![o] = h]
  BY <1>1, ValUpdate DEF BeginCudaStepWithNewMaterials, SyncAndWrite, IInv
<1>3. QED
  BY <1>2, WriteRefines DEF BeginCudaStepWithNewMaterials

\* A CPU update is a kernel of the store: its owner has nothing dirty.
LEMMA CpuUpdateRefines ==
    ASSUME IInv, NEW o \in Owner, NEW f \in Array, NEW g \in Array, CpuUpdate(o, f, g)
    PROVE  Store!Next
<1> DEFINE w == [x \in {g} |-> Combine[<<host[o][f], host[o][g]>>]]
           h == Overlay(w, host[o])
<1>1. dirty[o] = {}
  BY DEF CpuUpdate, IInv, ControlInv, CpuOwnersClean
<1>2. Authoritative(o) = host[o]
  BY <1>1 DEF Authoritative, IInv, CacheInv, CacheTypeOK
<1>3. Row(h, dev[o], dirty[o]) = Overlay(w, Authoritative(o))
  BY <1>1, <1>2 DEF Row, Overlay
<1>4. dev' = [dev EXCEPT ![o] = dev[o]] /\ dirty' = [dirty EXCEPT ![o] = dirty[o]]
  BY DEF CpuUpdate, IInv, CacheInv, CacheTypeOK
<1>5. Val' = [Val EXCEPT ![o] = Overlay(w, Authoritative(o))]
  <2>1. host' = [host EXCEPT ![o] = h]
    BY DEF CpuUpdate
  <2>2. Val' = [Val EXCEPT ![o] = Row(h, dev[o], dirty[o])]
    BY <1>4, <2>1, ValUpdate, ZenonT(40) DEF IInv
  <2>3. QED
    BY <1>3, <2>2
<1>6. w = [x \in {g} |-> Combine[<<Authoritative(o)[f], Authoritative(o)[g]>>]]
  BY <1>2
<1>7. io' = <<"update", o, w>>
  BY DEF CpuUpdate
<1>8. QED
  BY <1>5, <1>6, <1>7, UpdateRefines

\* What a kernel reads is the authoritative copy: this is where coherence of
\* the mirrors is needed.
LEMMA EnsuredIsAuthoritative ==
    ASSUME CacheInv, NEW o \in Owner, NEW S \in SUBSET Array, NEW f \in S
    PROVE  Ensured(o, S)[f] = Authoritative(o)[f]
BY DEF CacheInv, CoherentRow, Ensured, Current, Authoritative

\* A CUDA kernel is a kernel of the store: it computes from current contents.
LEMMA KernelRefines ==
    ASSUME IInv, NEW o \in Owner, NEW f \in Array, NEW g \in Array, Kernel(o, f, g)
    PROVE  Store!Next
<1> DEFINE row == Ensured(o, {f, g})
           w == [x \in {g} |-> Combine[<<row[f], row[g]>>]]
           d == Overlay(w, row)
           di == dirty[o] \union {g}
<1>1. row[f] = Authoritative(o)[f] /\ row[g] = Authoritative(o)[g]
  BY EnsuredIsAuthoritative DEF IInv
<1>2. Row(host[o], d, di) = Overlay(w, Authoritative(o))
  BY DEF Row, Overlay, Authoritative, Ensured, Current
<1>3. host' = [host EXCEPT ![o] = host[o]]
  BY DEF Kernel, IInv, CacheInv, CacheTypeOK
<1>4. Val' = [Val EXCEPT ![o] = Overlay(w, Authoritative(o))]
  <2>1. dev' = [dev EXCEPT ![o] = d] /\ dirty' = [dirty EXCEPT ![o] = di]
    BY DEF Kernel
  <2>2. Val' = [Val EXCEPT ![o] = Row(host[o], d, di)]
    BY <1>3, <2>1, ValUpdate, ZenonT(40) DEF IInv
  <2>3. QED
    BY <1>2, <2>2
<1>5. w = [x \in {g} |-> Combine[<<Authoritative(o)[f], Authoritative(o)[g]>>]]
  BY <1>1
<1>6. io' = <<"update", o, w>>
  BY DEF Kernel
<1>7. QED
  BY <1>4, <1>5, <1>6, UpdateRefines

\* A failing operation is invisible.
LEMMA KernelFailsRefines ==
    ASSUME IInv, NEW o \in Owner, NEW S \in SUBSET Array, KernelFails(o, S)
    PROVE  Val' = Val
<1>1. Row(host[o], Ensured(o, S), dirty[o]) = Authoritative(o)
  BY DEF Row, Authoritative, Ensured, Current
<1>2. host' = [host EXCEPT ![o] = host[o]] /\ dirty' = [dirty EXCEPT ![o] = dirty[o]]
  BY DEF KernelFails, IInv, CacheInv, CacheTypeOK
<1>3. QED
  BY <1>1, <1>2, ValKept, ZenonT(40) DEF KernelFails, IInv

\* The publication of an operation's results is invisible.
LEMMA FinishOperationRefines ==
    ASSUME IInv, NEW o \in Owner, FinishOperation(o)
    PROVE  Val' = Val
<1>1. Row(Authoritative(o), dev[o], {}) = Authoritative(o)
  BY DEF Row, Authoritative
<1>2. dev' = [dev EXCEPT ![o] = dev[o]]
  BY DEF FinishOperation, IInv, CacheInv, CacheTypeOK
<1>3. QED
  BY <1>1, <1>2, ValKept DEF FinishOperation, Sync, IInv

\* A synced read returns the current contents.
LEMMA HostReadRefines ==
    ASSUME IInv, NEW o \in Owner, NEW S \in SUBSET Array, HostRead(o, S)
    PROVE  Store!Next
<1>1. Row(Authoritative(o), dev[o], {}) = Authoritative(o)
  BY DEF Row, Authoritative
<1>2. dev' = [dev EXCEPT ![o] = dev[o]]
  BY DEF HostRead, IInv, CacheInv, CacheTypeOK
<1>3. Val' = Val
  BY <1>1, <1>2, ValKept DEF HostRead, Sync, IInv
<1>4. host'[o] = Authoritative(o)
  BY DEF HostRead, Sync, IInv, CacheInv, CacheTypeOK
<1>5. io' = <<"read", o, [f \in S |-> Authoritative(o)[f]]>>
  BY <1>4 DEF HostRead
<1>6. QED
  BY <1>3, <1>5, ReadRefines

\* A point read returns the current contents, also inside a phase.
LEMMA PointReadRefines ==
    ASSUME IInv, NEW o \in Owner, NEW f \in Array, PointRead(o, f)
    PROVE  Store!Next
<1>1. Val' = Val
  BY ValUnchanged DEF PointRead, IInv
<1>2. QED
  BY <1>1, ReadRefines DEF PointRead

\* An announced host write is a write and nothing else.
LEMMA KrylovWriteRefines ==
    ASSUME IInv, NEW o \in Owner, NEW w \in Contents, KrylovWrite(o, w)
    PROVE  Store!Next
<1> DEFINE h == Overlay(w, Authoritative(o))
<1>1. Row(h, dev[o], {}) = h
  BY DEF Row, Overlay
<1>2. dev' = [dev EXCEPT ![o] = dev[o]]
  BY DEF KrylovWrite, IInv, CacheInv, CacheTypeOK
<1>3. Val' = [Val EXCEPT ![o] = h]
  <2>1. host' = [host EXCEPT ![o] = h] /\ dirty' = [dirty EXCEPT ![o] = {}]
    BY DEF KrylovWrite, SyncAndWrite
  <2>2. Val' = [Val EXCEPT ![o] = Row(h, dev[o], {})]
    BY <1>2, <2>1, ValUpdate DEF IInv
  <2>3. QED
    BY <1>1, <2>2
<1>4. QED
  BY <1>3, WriteRefines DEF KrylovWrite

\* A rewrite is not undone by the destruction of the cache that follows.
LEMMA HostRewriteRefines ==
    ASSUME IInv, NEW o \in Owner, NEW w \in Contents, HostRewrite(o, w)
    PROVE  Store!Next
<1> DEFINE h == Overlay(w, Authoritative(o))
<1>1. Row(h, NoMirrors, {}) = h
  BY DEF Row, Overlay
<1>2. Val' = [Val EXCEPT ![o] = h]
  BY <1>1, ValUpdate DEF HostRewrite, SyncAndWrite, DestroyCache, IInv
<1>3. QED
  BY <1>2, WriteRefines DEF HostRewrite

\* The old contents of a replaced array never come back.
LEMMA ReplaceArrayRefines ==
    ASSUME IInv, NEW o \in Owner, NEW f \in Array, NEW v \in Value, ReplaceArray(o, f, v)
    PROVE  Store!Next
<1> DEFINE w == [x \in {f} |-> v]
           h == Overlay(w, host[o])
           d == [dev[o] EXCEPT ![f] = NoValue]
           di == dirty[o] \ {f}
<1>1. Row(h, d, di) = Overlay(w, Authoritative(o))
  BY DEF Row, Overlay, Authoritative, IInv, CacheInv, CacheTypeOK
<1>2. dev' = [dev EXCEPT ![o] = d]
  BY DEF ReplaceArray, IInv, CacheInv, CacheTypeOK
<1>3. Val' = [Val EXCEPT ![o] = Overlay(w, Authoritative(o))]
  <2>1. host' = [host EXCEPT ![o] = h] /\ dirty' = [dirty EXCEPT ![o] = di]
    BY DEF ReplaceArray
  <2>2. Val' = [Val EXCEPT ![o] = Row(h, d, di)]
    BY <1>2, <2>1, ValUpdate DEF IInv
  <2>3. QED
    BY <1>1, <2>2
<1>4. w \in Contents
  BY SingletonContents
<1>5. QED
  BY <1>3, <1>4, WriteRefines DEF ReplaceArray

\* Every step of the cache is a step of the array store, or a stutter.
LEMMA StepRefines ==
    ASSUME IInv, [Next]_vars
    PROVE  Store!Next \/ (Val' = Val /\ io' = io)
<1>1. CASE Selection
  BY <1>1, SelectionRefines
<1>2. ASSUME NEW o \in Owner, Stepping(o)
      PROVE  Store!Next \/ (Val' = Val /\ io' = io)
  <2>1. CASE \/ BeginCpuStep(o) \/ CudaPreflightFails(o) \/ CandidateFails(o)
             \/ BeginOpenCudaStep(o) \/ FinishStep(o) \/ FinishOperationFails(o)
    BY <2>1, ValUnchanged DEF BeginCpuStep, CudaPreflightFails, CandidateFails,
       BeginOpenCudaStep, FinishStep, FinishOperationFails, IInv
  <2>2. CASE \E e \in CpuDecision : AutomaticCpuStep(o, e)
    BY <2>2, AutomaticCpuStepRefines DEF AutomaticCpuStep
  <2>3. CASE BeginCudaStep(o) \/ BeginOperation(o)
    BY <2>3, OpenPhaseRefines DEF BeginCudaStep, BeginOperation, IInv
  <2>4. CASE \E S \in SUBSET Array : KernelFails(o, S)
    BY <2>4, KernelFailsRefines DEF KernelFails
  <2>5. CASE FinishOperation(o)
    BY <2>5, FinishOperationRefines DEF FinishOperation
  <2>6. QED
    BY <1>2, <2>1, <2>2, <2>3, <2>4, <2>5, NewMaterialsRefines, CpuUpdateRefines,
       KernelRefines DEF Stepping
<1>3. ASSUME NEW o \in Owner, HostOperation(o)
      PROVE  Store!Next
  BY <1>3, HostReadRefines, PointReadRefines, KrylovWriteRefines,
     HostRewriteRefines, ReplaceArrayRefines DEF HostOperation
<1>4. CASE UNCHANGED vars
  BY <1>4, ValUnchanged DEF vars, IInv
<1>5. QED
  BY <1>1, <1>2, <1>3, <1>4 DEF Next

\* The residency cache implements the array store, whatever fails and whoever
\* calls: the caller of any modelled operation cannot tell that it exists.
THEOREM CacheImplementsStore == Spec => BehavesAsFieldStore
<1>1. Init => Store!Init
  <2> SUFFICES ASSUME Init PROVE Val \in [Owner -> [Array -> Value]] /\ io = <<>>
    BY DEF Store!Init, Val
  <2>1. CacheInv
    BY InitInv DEF IInv
  <2>2. QED
    BY <2>1, AuthoritativeType DEF Val, Init
<1>2. IInv /\ [Next]_vars => [Store!Next]_(Store!vars)
  BY StepRefines DEF Store!vars, Val
<1>3. QED
  BY <1>1, <1>2, Invariance, PTL DEF Spec, BehavesAsFieldStore, Store!Spec

-----------------------------------------------------------------------------
(***************************************************************************)
(* The operations on DFT arrays: MatchingSpec, where owners may decide     *)
(* differently, and DftSpec when the process has one owner.                *)
(*                                                                         *)
(* A DFT operation picks its path by the active backend of the process.    *)
(* It is safe when the caches it touches are Consulted: on the CUDA path   *)
(* the owner may hold mirrors, on the CPU path it holds none.  What the    *)
(* operations do to a consulted cache is proved once; that they only meet  *)
(* such caches is an invariant of each of the two specifications.          *)
(***************************************************************************)

\* The path that the active backend selects is one the owner's cache is fit for.
Consulted(o) ==
    /\ active = "cuda" => exec[o] \notin CpuDecision
    /\ active = "cpu" => dirty[o] = {} /\ uploaded[o] = {}

\* A request for CUDA is what is active.
RequestInv == requested = "cuda" => active = "cuda"

-----------------------------------------------------------------------------
(* DFT operations preserve the invariant of the cache.                       *)

\* The control state after an operation on the CUDA path of a consulted owner:
\* it may add mirrors and move the cache to the selected device.
LEMMA DeviceControl ==
    ASSUME IInv, NEW o \in Owner, Consulted(o), active = "cuda",
           UNCHANGED <<backendVars, exec, phase>>,
           ordinal' = [ordinal EXCEPT ![o] = selected],
           \A q \in Owner \ {o} : dirty'[q] = dirty[q] /\ uploaded'[q] = uploaded[q]
    PROVE  ControlInv'
BY DEF IInv, Consulted, ControlInv, OwnersTypeOK, BackendTypeOK, CpuOwnersClean,
       PhaseOnSelectedDevice, InPhase, ResidentPhase, backendVars

\* Scaling on the device preserves the invariant: the result is dirty.
LEMMA ScaleDftOnDeviceInv ==
    ASSUME IInv, NEW o \in Owner, NEW f \in Array, Consulted(o), ScaleDftOnDevice(o, f)
    PROVE  IInv'
<1> USE DEF IInv
<1> DEFINE c == OnDevice(o, selected)
           old == IF f \in c.dirty \union c.uploaded THEN c.dev[f] ELSE c.host[f]
           v == Combine[<<old, old>>]
           w == [x \in {f} |-> v]
           d == Overlay(w, c.dev)
           di == c.dirty \union {f}
           u == c.uploaded \union ({f} \ c.dirty)
<1>1. CoherentRow(c.host, c.dev, c.dirty, c.uploaded)
  BY OnDeviceCoherent
<1>2. old \in Value
  BY <1>1 DEF CoherentRow
<1>3. v \in Value /\ w \in Contents
  BY <1>2, CombineType, SingletonContents
<1>4. CoherentRow(c.host, d, di, u)
  <2> HIDE DEF c, v
  <2>1. QED
    BY <1>1, <1>3 DEF CoherentRow, Overlay
<1>5. CacheInv'
  <2>1. /\ host' = [host EXCEPT ![o] = c.host]
        /\ dev' = [dev EXCEPT ![o] = d]
        /\ dirty' = [dirty EXCEPT ![o] = di]
        /\ uploaded' = [uploaded EXCEPT ![o] = u]
    BY DEF ScaleDftOnDevice
  <2> HIDE DEF d, di, u, c
  <2>2. QED
    BY <1>4, <2>1, CacheUpdate
<1>6. \A q \in Owner \ {o} : dirty'[q] = dirty[q] /\ uploaded'[q] = uploaded[q]
  BY DEF ScaleDftOnDevice, CacheInv, CacheTypeOK
<1>7. ControlInv'
  BY <1>6, DeviceControl DEF ScaleDftOnDevice
<1>8. IoTypeOK'
  BY <1>3 DEF ScaleDftOnDevice, IoTypeOK
<1>9. QED
  BY <1>5, <1>7, <1>8

\* The reduction of a flux preserves the invariant: the operand it uploads
\* equals the host array, and a cache in a phase does not move.
LEMMA ReadFluxOnDeviceInv ==
    ASSUME IInv, NEW o \in Owner, NEW f \in Array, Consulted(o), ReadFluxOnDevice(o, f)
    PROVE  IInv'
<1> USE DEF IInv
<1> DEFINE c == OnDevice(o, selected)
           row == [x \in Array |-> IF x = f /\ f \notin c.dirty \union c.uploaded
                                      THEN c.host[x] ELSE c.dev[x]]
           u == c.uploaded \union ({f} \ c.dirty)
<1>1. CoherentRow(c.host, c.dev, c.dirty, c.uploaded)
  BY OnDeviceCoherent
<1>2. CoherentRow(c.host, row, c.dirty, u) /\ row[f] \in Value
  <2> HIDE DEF c
  <2>1. QED
    BY <1>1 DEF CoherentRow
<1>3. CacheInv'
  <2>1. /\ host' = [host EXCEPT ![o] = c.host]
        /\ dev' = [dev EXCEPT ![o] = row]
        /\ dirty' = [dirty EXCEPT ![o] = c.dirty]
        /\ uploaded' = [uploaded EXCEPT ![o] = u]
    BY DEF ReadFluxOnDevice
  <2> HIDE DEF row, u, c
  <2>2. QED
    BY <1>2, <2>1, CacheUpdate
<1>4. \A q \in Owner \ {o} : dirty'[q] = dirty[q] /\ uploaded'[q] = uploaded[q]
  BY DEF ReadFluxOnDevice, CacheInv, CacheTypeOK
<1>5. ControlInv'
  BY <1>4, DeviceControl DEF ReadFluxOnDevice
<1>6. io' = <<"read", o, [x \in {f} |-> row[f]]>>
  BY DEF ReadFluxOnDevice
<1>7. [x \in {f} |-> row[f]] \in Contents
  BY <1>2, SingletonContents
<1>8. IoTypeOK'
  <2> HIDE DEF row
  <2>1. QED
    BY <1>6, <1>7 DEF IoTypeOK
<1>9. QED
  BY <1>3, <1>5, <1>8

\* A load with CUDA active preserves the invariant, also when an upload fails:
\* a mirror is trusted only where the loaded contents reached it.
LEMMA LoadDftOnDeviceInv ==
    ASSUME IInv, NEW o \in Owner, NEW w \in Contents, NEW U \in SUBSET DOMAIN w,
           Consulted(o), LoadDftOnDevice(o, w, U)
    PROVE  IInv'
<1> USE DEF IInv
<1> DEFINE c == OnDevice(o, selected)
           m == [x \in DOMAIN w |-> IF x \in U THEN w[x] ELSE NoValue]
           h == Overlay(w, c.host)
           d == Overlay(m, c.dev)
           di == c.dirty \ DOMAIN w
           u == (c.uploaded \ DOMAIN w) \union U
<1>1. CoherentRow(c.host, c.dev, c.dirty, c.uploaded)
  BY OnDeviceCoherent
<1>2. PICK S \in SUBSET Array : w \in [S -> Value]
  BY DEF Contents
<1>3. CoherentRow(h, d, di, u)
  <2> HIDE DEF c
  <2>1. QED
    BY <1>1, <1>2 DEF CoherentRow, Overlay
<1>4. CacheInv'
  <2>1. /\ host' = [host EXCEPT ![o] = h]
        /\ dev' = [dev EXCEPT ![o] = d]
        /\ dirty' = [dirty EXCEPT ![o] = di]
        /\ uploaded' = [uploaded EXCEPT ![o] = u]
    BY DEF LoadDftOnDevice
  <2> HIDE DEF h, d, di, u, c
  <2>2. QED
    BY <1>3, <2>1, CacheUpdate
<1>5. \A q \in Owner \ {o} : dirty'[q] = dirty[q] /\ uploaded'[q] = uploaded[q]
  BY DEF LoadDftOnDevice, CacheInv, CacheTypeOK
<1>6. ControlInv'
  BY <1>5, DeviceControl DEF LoadDftOnDevice
<1>7. QED
  BY <1>4, <1>6 DEF LoadDftOnDevice, IoTypeOK

\* A load with the CPU active preserves the invariant although it does not
\* look at the cache: the consulted owner has no mirror that is trusted.
LEMMA LoadDftOnHostInv ==
    ASSUME IInv, NEW o \in Owner, NEW w \in Contents, Consulted(o), LoadDftOnHost(o, w)
    PROVE  IInv'
<1> USE DEF IInv
<1> DEFINE h == Overlay(w, host[o])
<1>1. dirty[o] = {} /\ uploaded[o] = {}
  BY DEF LoadDftOnHost, Consulted
<1>2. CoherentRow(h, dev[o], dirty[o], uploaded[o])
  BY <1>1, OverlayType DEF CacheInv, CacheTypeOK, CoherentRow
<1>3. CacheInv'
  <2>1. /\ host' = [host EXCEPT ![o] = h]
        /\ dev' = [dev EXCEPT ![o] = dev[o]]
        /\ dirty' = [dirty EXCEPT ![o] = dirty[o]]
        /\ uploaded' = [uploaded EXCEPT ![o] = uploaded[o]]
    BY DEF LoadDftOnHost, CacheInv, CacheTypeOK
  <2> HIDE DEF h
  <2>2. QED
    BY <1>2, <2>1, CacheUpdate
<1>4. ControlInv'
  BY ShrunkControl DEF LoadDftOnHost
<1>5. QED
  BY <1>3, <1>4 DEF LoadDftOnHost, IoTypeOK

\* What a combination on the host stores: contents for one array.
LEMMA CombinedContents ==
    ASSUME CacheInv, NEW o \in Owner, NEW p \in Owner, NEW f \in Array, NEW g \in Array
    PROVE  [x \in {g} |-> Combine[<<Authoritative(p)[f], Authoritative(o)[g]>>]] \in Contents
<1>1. Authoritative(p)[f] \in Value /\ Authoritative(o)[g] \in Value
  BY AuthoritativeType
<1>2. QED
  BY <1>1, CombineType, SingletonContents

\* A combination of the DFTs of two owners on the host preserves the invariant
\* whatever is active: both are synced and the mirror of the result is gone.
LEMMA CombineDftOnHostInv ==
    ASSUME IInv, NEW o \in Owner, NEW p \in Owner, NEW f \in Array, NEW g \in Array,
           CombineDftOnHost(o, p, f, g)
    PROVE  IInv'
<1> USE DEF IInv
<1> DEFINE v == Combine[<<Authoritative(p)[f], Authoritative(o)[g]>>]
           w == [x \in {g} |-> v]
           h == Overlay(w, Authoritative(o))
           d == [dev[o] EXCEPT ![g] = NoValue]
           u == uploaded[o] \ {g}
<1>1. w \in Contents
  BY CombinedContents
<1>2. h \in [Array -> Value]
  BY <1>1, OverlayType, AuthoritativeType
<1>3. CoherentRow(h, d, {}, u)
  <2> HIDE DEF v
  <2>1. QED
    BY <1>2 DEF CacheInv, CoherentRow, Authoritative, Overlay
<1>4. CoherentRow(Authoritative(p), dev[p], {}, uploaded[p])
  BY AuthoritativeType DEF CacheInv, CoherentRow, Authoritative
<1>5. /\ host' = [host EXCEPT ![p] = Authoritative(p), ![o] = h]
      /\ dev' = [dev EXCEPT ![o] = d]
      /\ dirty' = [dirty EXCEPT ![p] = {}, ![o] = {}]
      /\ uploaded' = [uploaded EXCEPT ![o] = u]
  BY DEF CombineDftOnHost, CacheInv, CacheTypeOK
<1> HIDE DEF h, d, u
<1>6. CacheInv'
  <2>1. CacheTypeOK'
    BY <1>3, <1>4, <1>5 DEF CacheInv, CacheTypeOK, CoherentRow
  <2>2. ASSUME NEW q \in Owner
        PROVE  CoherentRow(host'[q], dev'[q], dirty'[q], uploaded'[q])
    <3>1. CASE q = o
      BY <1>3, <1>5, <3>1 DEF CacheInv, CacheTypeOK
    <3>2. CASE q = p /\ q # o
      BY <1>4, <1>5, <3>2 DEF CacheInv, CacheTypeOK
    <3>3. CASE q # o /\ q # p
      BY <1>5, <3>3 DEF CacheInv, CacheTypeOK
    <3>4. QED
      BY <3>1, <3>2, <3>3
  <2>3. QED
    BY <2>1, <2>2 DEF CacheInv
<1>7. \A q \in Owner : dirty'[q] \subseteq dirty[q] /\ uploaded'[q] \subseteq uploaded[q]
  BY <1>5 DEF u, CacheInv, CacheTypeOK
<1>8. ControlInv'
  BY <1>7, ShrunkControl DEF CombineDftOnHost
<1>9. io' = <<"update", o, w>>
  BY DEF CombineDftOnHost
<1>10. QED
  BY <1>1, <1>6, <1>8, <1>9 DEF IoTypeOK

\* Loaded contents are contents of arrays of the owner.
LEMMA DftContentsAreContents == DftContents \subseteq Contents
BY DftAssumption DEF DftContents, Contents

\* Every DFT operation on a consulted owner preserves the invariant.
LEMMA DftOperationInv ==
    ASSUME IInv, NEW o \in Owner, Consulted(o), DftOperation(o)
    PROVE  IInv'
<1> USE DftAssumption
<1>1. ASSUME NEW f \in Dft, ScaleDftOnDevice(o, f) PROVE IInv'
  BY <1>1, ScaleDftOnDeviceInv
<1>2. ASSUME NEW f \in Dft, ScaleDftOnHost(o, f) PROVE IInv'
  BY <1>2, CombineDftOnHostInv DEF ScaleDftOnHost
<1>3. ASSUME NEW f \in Dft, ReadFluxOnDevice(o, f) PROVE IInv'
  BY <1>3, ReadFluxOnDeviceInv
<1>4. ASSUME NEW f \in Dft, ReadDftOnHost(o, f) PROVE IInv'
  <2>1. {f} \in SUBSET Array
    OBVIOUS
  <2>2. QED
    BY <1>4, <2>1, HostReadInv DEF ReadDftOnHost
<1>5. ASSUME NEW f \in Dft, SaveDftOnDevice(o, f) PROVE IInv'
  BY <1>5, PointReadInv DEF SaveDftOnDevice
<1>6. ASSUME NEW p \in Owner, NEW f \in Dft, NEW g \in Dft, CombineDftOnHost(o, p, f, g)
      PROVE  IInv'
  BY <1>6, CombineDftOnHostInv
<1>7. ASSUME NEW w \in DftContents, NEW U \in SUBSET DOMAIN w, LoadDftOnDevice(o, w, U)
      PROVE  IInv'
  BY <1>7, DftContentsAreContents, LoadDftOnDeviceInv
<1>8. ASSUME NEW w \in DftContents, LoadDftOnHost(o, w) PROVE IInv'
  BY <1>8, DftContentsAreContents, LoadDftOnHostInv
<1>9. QED
  BY <1>1, <1>2, <1>3, <1>4, <1>5, <1>6, <1>7, <1>8 DEF DftOperation

-----------------------------------------------------------------------------
(* DFT operations are operations of the array store.                         *)

\* A scaling on the device computes from the current contents.
LEMMA ScaleDftOnDeviceRefines ==
    ASSUME IInv, NEW o \in Owner, NEW f \in Array, ScaleDftOnDevice(o, f)
    PROVE  Store!Next
<1> DEFINE c == OnDevice(o, selected)
           old == IF f \in c.dirty \union c.uploaded THEN c.dev[f] ELSE c.host[f]
           w == [x \in {f} |-> Combine[<<old, old>>]]
           d == Overlay(w, c.dev)
           di == c.dirty \union {f}
<1>1. CoherentRow(host[o], dev[o], dirty[o], uploaded[o])
  BY DEF IInv, CacheInv
<1>2. old = Authoritative(o)[f]
  BY <1>1 DEF OnDevice, CoherentRow, Authoritative
<1>3. \A x \in Array : IF x \in c.dirty THEN c.dev[x] = Authoritative(o)[x]
                                       ELSE c.host[x] = Authoritative(o)[x]
  BY DEF OnDevice, Authoritative
<1>4. Row(c.host, d, di) = Overlay(w, Authoritative(o))
  <2> HIDE DEF c, old
  <2>1. QED
    BY <1>3 DEF Row, Overlay
<1>5. /\ host' = [host EXCEPT ![o] = c.host]
      /\ dev' = [dev EXCEPT ![o] = d]
      /\ dirty' = [dirty EXCEPT ![o] = di]
      /\ io' = <<"update", o, w>>
  BY DEF ScaleDftOnDevice
<1> HIDE DEF c, old, d, di
<1>6. Val' = [Val EXCEPT ![o] = Overlay(w, Authoritative(o))]
  BY <1>4, <1>5, ValUpdate, ZenonT(40) DEF IInv
<1>7. w = [x \in {f} |-> Combine[<<Authoritative(o)[f], Authoritative(o)[f]>>]]
  BY <1>2
<1>8. QED
  BY <1>5, <1>6, <1>7, UpdateRefines

\* A flux is reduced from the current contents and changes none.
LEMMA ReadFluxOnDeviceRefines ==
    ASSUME IInv, NEW o \in Owner, NEW f \in Array, ReadFluxOnDevice(o, f)
    PROVE  Store!Next
<1> DEFINE c == OnDevice(o, selected)
           row == [x \in Array |-> IF x = f /\ f \notin c.dirty \union c.uploaded
                                      THEN c.host[x] ELSE c.dev[x]]
<1>1. CoherentRow(host[o], dev[o], dirty[o], uploaded[o])
  BY DEF IInv, CacheInv
<1>2. row[f] = Authoritative(o)[f]
  BY <1>1 DEF OnDevice, CoherentRow, Authoritative
<1>3. Row(c.host, row, c.dirty) = Authoritative(o)
  BY DEF Row, OnDevice, Authoritative
<1>4. /\ host' = [host EXCEPT ![o] = c.host]
      /\ dev' = [dev EXCEPT ![o] = row]
      /\ dirty' = [dirty EXCEPT ![o] = c.dirty]
      /\ io' = <<"read", o, [x \in {f} |-> row[x]]>>
  BY DEF ReadFluxOnDevice
<1> HIDE DEF c, row
<1>5. Val' = Val
  BY <1>3, <1>4, ValKept DEF IInv
<1>6. [x \in {f} |-> row[x]] = [x \in {f} |-> Authoritative(o)[x]]
  BY <1>2
<1>7. {f} \in SUBSET Array
  OBVIOUS
<1>8. QED
  BY <1>4, <1>5, <1>6, <1>7, ReadRefines

\* A load on the device is a write and nothing else: no mirror hides it.
LEMMA LoadDftOnDeviceRefines ==
    ASSUME IInv, NEW o \in Owner, NEW w \in Contents, NEW U \in SUBSET DOMAIN w,
           LoadDftOnDevice(o, w, U)
    PROVE  Store!Next
<1> DEFINE c == OnDevice(o, selected)
           m == [x \in DOMAIN w |-> IF x \in U THEN w[x] ELSE NoValue]
           h == Overlay(w, c.host)
           d == Overlay(m, c.dev)
           di == c.dirty \ DOMAIN w
<1>1. \A x \in Array : IF x \in c.dirty THEN c.dev[x] = Authoritative(o)[x]
                                       ELSE c.host[x] = Authoritative(o)[x]
  BY DEF OnDevice, Authoritative
<1>2. Row(h, d, di) = Overlay(w, Authoritative(o))
  <2> HIDE DEF c
  <2>1. QED
    BY <1>1 DEF Row, Overlay
<1>3. /\ host' = [host EXCEPT ![o] = h]
      /\ dev' = [dev EXCEPT ![o] = d]
      /\ dirty' = [dirty EXCEPT ![o] = di]
      /\ io' = <<"write", o, w>>
  BY DEF LoadDftOnDevice
<1> HIDE DEF c, m, h, d, di
<1>4. Val' = [Val EXCEPT ![o] = Overlay(w, Authoritative(o))]
  BY <1>2, <1>3, ValUpdate, ZenonT(40) DEF IInv
<1>5. QED
  BY <1>3, <1>4, WriteRefines

\* A load on the host of a consulted owner is a write: nothing is dirty there.
LEMMA LoadDftOnHostRefines ==
    ASSUME IInv, NEW o \in Owner, NEW w \in Contents, Consulted(o), LoadDftOnHost(o, w)
    PROVE  Store!Next
<1> DEFINE h == Overlay(w, host[o])
<1>1. dirty[o] = {}
  BY DEF LoadDftOnHost, Consulted
<1>2. Authoritative(o) = host[o]
  BY <1>1 DEF Authoritative, IInv, CacheInv, CacheTypeOK
<1>3. Row(h, dev[o], dirty[o]) = Overlay(w, Authoritative(o))
  BY <1>1, <1>2 DEF Row, Overlay
<1>4. /\ host' = [host EXCEPT ![o] = h]
      /\ dev' = [dev EXCEPT ![o] = dev[o]]
      /\ dirty' = [dirty EXCEPT ![o] = dirty[o]]
  BY DEF LoadDftOnHost, IInv, CacheInv, CacheTypeOK
<1> HIDE DEF h
<1>5. Val' = [Val EXCEPT ![o] = Overlay(w, Authoritative(o))]
  BY <1>3, <1>4, ValUpdate, ZenonT(40) DEF IInv
<1>6. QED
  BY <1>5, WriteRefines DEF LoadDftOnHost

\* A combination on the host is an update from the current contents of both
\* owners, and the sync of the operand's owner is invisible.
LEMMA CombineDftOnHostRefines ==
    ASSUME IInv, NEW o \in Owner, NEW p \in Owner, NEW f \in Array, NEW g \in Array,
           CombineDftOnHost(o, p, f, g)
    PROVE  Store!Next
<1> DEFINE w == [x \in {g} |-> Combine[<<Authoritative(p)[f], Authoritative(o)[g]>>]]
           h == Overlay(w, Authoritative(o))
<1>1. host' = [host EXCEPT ![p] = Authoritative(p), ![o] = h]
  BY DEF CombineDftOnHost
<1>2. dirty' = [dirty EXCEPT ![p] = {}, ![o] = {}] /\ io' = <<"update", o, w>>
  BY DEF CombineDftOnHost
<1>3. \A q \in Owner : Authoritative(q)' =
          [x \in Array |-> IF x \in dirty'[q] THEN dev'[q][x] ELSE host'[q][x]]
  BY DEF Authoritative
<1>4. ASSUME NEW q \in Owner
      PROVE  Val'[q] = [Val EXCEPT ![o] = h][q]
  <2>1. CASE q = o
    <3>1. host'[o] = h /\ dirty'[o] = {}
      BY <1>1, <1>2 DEF IInv, CacheInv, CacheTypeOK
    <3>2. h = [x \in Array |-> h[x]]
      BY DEF Overlay
    <3> HIDE DEF h
    <3>3. QED
      BY <1>3, <2>1, <3>1, <3>2 DEF Val
  <2>2. CASE q = p /\ q # o
    <3>1. host'[p] = Authoritative(p) /\ dirty'[p] = {}
      BY <1>1, <1>2, <2>2 DEF IInv, CacheInv, CacheTypeOK
    <3>2. Authoritative(p)' = Authoritative(p)
      BY <3>1, <1>3 DEF Authoritative
    <3>3. QED
      BY <2>2, <3>2 DEF Val
  <2>3. CASE q # o /\ q # p
    <3>1. host'[q] = host[q] /\ dirty'[q] = dirty[q] /\ dev'[q] = dev[q]
      BY <1>1, <1>2, <2>3 DEF CombineDftOnHost, IInv, CacheInv, CacheTypeOK
    <3>2. Authoritative(q)' = Authoritative(q)
      BY <3>1, <1>3 DEF Authoritative
    <3>3. QED
      BY <2>3, <3>2 DEF Val
  <2>4. QED
    BY <2>1, <2>2, <2>3
<1>5. Val' = [Val EXCEPT ![o] = h]
  BY <1>4 DEF Val
<1>6. Store!Update(o, p, f, g)
  <2>1. w = [x \in {g} |-> Combine[<<Val[p][f], Val[o][g]>>]]
    BY DEF Val
  <2>2. QED
    BY <1>2, <1>5, <2>1 DEF Store!Update, Val, Overlay, Store!Overlay
<1>7. QED
  BY <1>6 DEF Store!Next

\* Every DFT operation on a consulted owner is an operation of the store.
LEMMA DftOperationRefines ==
    ASSUME IInv, NEW o \in Owner, Consulted(o), DftOperation(o)
    PROVE  Store!Next
<1> USE DftAssumption
<1>1. ASSUME NEW f \in Dft, ScaleDftOnDevice(o, f) PROVE Store!Next
  BY <1>1, ScaleDftOnDeviceRefines
<1>2. ASSUME NEW f \in Dft, ScaleDftOnHost(o, f) PROVE Store!Next
  BY <1>2, CombineDftOnHostRefines DEF ScaleDftOnHost
<1>3. ASSUME NEW f \in Dft, ReadFluxOnDevice(o, f) PROVE Store!Next
  BY <1>3, ReadFluxOnDeviceRefines
<1>4. ASSUME NEW f \in Dft, ReadDftOnHost(o, f) PROVE Store!Next
  <2>1. {f} \in SUBSET Array
    OBVIOUS
  <2>2. QED
    BY <1>4, <2>1, HostReadRefines DEF ReadDftOnHost
<1>5. ASSUME NEW f \in Dft, SaveDftOnDevice(o, f) PROVE Store!Next
  BY <1>5, PointReadRefines DEF SaveDftOnDevice
<1>6. ASSUME NEW p \in Owner, NEW f \in Dft, NEW g \in Dft, CombineDftOnHost(o, p, f, g)
      PROVE  Store!Next
  BY <1>6, CombineDftOnHostRefines
<1>7. ASSUME NEW w \in DftContents, NEW U \in SUBSET DOMAIN w, LoadDftOnDevice(o, w, U)
      PROVE  Store!Next
  BY <1>7, DftContentsAreContents, LoadDftOnDeviceRefines
<1>8. ASSUME NEW w \in DftContents, LoadDftOnHost(o, w) PROVE Store!Next
  BY <1>8, DftContentsAreContents, LoadDftOnHostRefines
<1>9. QED
  BY <1>1, <1>2, <1>3, <1>4, <1>5, <1>6, <1>7, <1>8 DEF DftOperation

-----------------------------------------------------------------------------
(* What was written is visible.                                              *)

\* A step of the array store, or one that keeps values and io, keeps the last
\* write visible.
LEMMA VisibleStep ==
    ASSUME WritesAreVisible, IoTypeOK, Store!Next \/ (Val' = Val /\ io' = io)
    PROVE  WritesAreVisible'
<1>1. \A o \in Owner : Val[o] = Authoritative(o) /\ Val'[o] = Authoritative(o)'
  BY DEF Val
<1>2. CASE Val' = Val /\ io' = io
  <2>1. SUFFICES ASSUME io # <<>>
                 PROVE  Authoritative(io[2])' = Authoritative(io[2])
    BY <1>2 DEF WritesAreVisible
  <2>2. io[2] \in Owner
    BY <2>1 DEF IoTypeOK
  <2>3. QED
    BY <1>1, <1>2, <2>2
<1>3. ASSUME NEW o \in Owner, NEW S \in SUBSET Array, Store!Read(o, S)
      PROVE  WritesAreVisible'
  BY <1>3 DEF Store!Read, WritesAreVisible
<1>4. ASSUME NEW o \in Owner, NEW w \in Contents, Store!Write(o, w)
      PROVE  WritesAreVisible'
  <2>1. PICK S \in SUBSET Array : w \in [S -> Value]
    BY DEF Contents
  <2>2. Val'[o] = Overlay(w, Val[o]) /\ io' = <<"write", o, w>>
    BY <1>4 DEF Store!Write, Val, Store!Overlay, Overlay
  <2>3. \A f \in DOMAIN w : Val'[o][f] = w[f]
    BY <2>1, <2>2 DEF Overlay
  <2>4. QED
    BY <1>1, <2>2, <2>3 DEF WritesAreVisible
<1>5. ASSUME NEW o \in Owner, NEW p \in Owner, NEW f \in Array, NEW g \in Array,
             Store!Update(o, p, f, g)
      PROVE  WritesAreVisible'
  <2> DEFINE w == [x \in {g} |-> Combine[<<Val[p][f], Val[o][g]>>]]
  <2>1. Val'[o] = Overlay(w, Val[o]) /\ io' = <<"update", o, w>>
    BY <1>5 DEF Store!Update, Val, Store!Overlay, Overlay
  <2>2. DOMAIN w = {g}
    OBVIOUS
  <2> HIDE DEF w
  <2>3. \A x \in DOMAIN w : Val'[o][x] = w[x]
    BY <2>1, <2>2 DEF Overlay
  <2>4. QED
    BY <1>1, <2>1, <2>3 DEF WritesAreVisible
<1>6. QED
  BY <1>2, <1>3, <1>4, <1>5 DEF Store!Next, Contents, Store!Contents

-----------------------------------------------------------------------------
(* The two specifications.                                                   *)

\* The invariants of the executions in which operations meet consulted caches.
DftInv == IInv /\ WritesAreVisible

\* The initial state satisfies them.
LEMMA DftInitInv == Init => DftInv
BY InitInv DEF Init, DftInv, WritesAreVisible

\* A step of the cache protocol preserves them.
LEMMA CacheStepDftInv == DftInv /\ [Next]_vars => DftInv'
<1> SUFFICES ASSUME DftInv, [Next]_vars PROVE DftInv'
  OBVIOUS
<1>1. IInv'
  BY NextInv DEF DftInv
<1>2. WritesAreVisible'
  BY StepRefines, VisibleStep DEF DftInv, IInv
<1>3. QED
  BY <1>1, <1>2 DEF DftInv

\* So does a DFT operation on a consulted owner.
LEMMA DftStepDftInv ==
    ASSUME DftInv, NEW o \in Owner, Consulted(o), DftOperation(o)
    PROVE  DftInv'
<1>1. IInv'
  BY DftOperationInv DEF DftInv
<1>2. WritesAreVisible'
  BY DftOperationRefines, VisibleStep DEF DftInv, IInv
<1>3. QED
  BY <1>1, <1>2 DEF DftInv

\* What the invariant implies in every state.
LEMMA DftInvImplies ==
    ASSUME DftInv
    PROVE  /\ TypeOK
           /\ CleanMirrorsMatchHost
           /\ CpuOwnersHoldNoMirrorState
           /\ PhaseOnSelectedDevice
           /\ WritesAreVisible
BY DEF DftInv, IInv, CacheInv, CoherentRow, ControlInv, CpuOwnersClean,
       IoTypeOK, TypeOK, CleanMirrorsMatchHost, CpuOwnersHoldNoMirrorState, Current

-----------------------------------------------------------------------------
(* Owners that use their DFTs only under their own backend.                  *)

MatchingNext == Next \/ \E o \in Owner : BackendIsOwners(o) /\ DftOperation(o)

\* An owner whose backend is the active one is consulted by its operations: a
\* CPU decision and a CPU request both leave it without mirrors.
LEMMA MatchingIsConsulted ==
    ASSUME IInv, RequestInv, NEW o \in Owner, BackendIsOwners(o)
    PROVE  Consulted(o)
BY DEF IInv, ControlInv, CpuOwnersClean, BackendTypeOK, OwnersTypeOK, Mode,
       CpuDecision, RequestInv, BackendIsOwners, Consulted

\* DFT operations change no decision.
LEMMA DftOperationControl ==
    ASSUME NEW o \in Owner, DftOperation(o)
    PROVE  UNCHANGED <<backendVars, exec, phase>>
BY DEF DftOperation, ScaleDftOnDevice, ScaleDftOnHost, ReadFluxOnDevice, ReadDftOnHost,
       SaveDftOnDevice, CombineDftOnHost, LoadDftOnDevice, LoadDftOnHost, HostRead,
       PointRead

\* A change of backend or device activates what is requested.
LEMMA SelectionRequestInv ==
    ASSUME IInv, RequestInv, Selection
    PROVE  RequestInv'
<1>1. CASE \E m \in Mode : SetBackend(m)
  BY <1>1 DEF SetBackend, Configure, RequestInv
<1>2. CASE SetBackendFails
  BY <1>2 DEF SetBackendFails, backendVars, RequestInv
<1>3. CASE \E d \in Device : SelectDevice(d)
  BY <1>3 DEF SelectDevice, SelectReadyDevice, RequestInv
<1>4. QED
  BY <1>1, <1>2, <1>3 DEF Selection

\* A step of an owner activates no backend but the requested one.
LEMMA SteppingRequestInv ==
    ASSUME IInv, RequestInv, NEW o \in Owner, Stepping(o)
    PROVE  RequestInv'
<1> USE DEF RequestInv
<1>1. CASE BeginCpuStep(o)
  BY <1>1 DEF BeginCpuStep, Activate
<1>2. CASE \E e \in CpuDecision : AutomaticCpuStep(o, e)
  BY <1>2 DEF AutomaticCpuStep, Activate
<1>3. CASE CudaPreflightFails(o) \/ CandidateFails(o)
  BY <1>3 DEF CudaPreflightFails, CandidateFails, Activate
<1>4. CASE \/ BeginCudaStep(o) \/ BeginOpenCudaStep(o)
           \/ \E p \in StepKind, w \in Contents : BeginCudaStepWithNewMaterials(o, p, w)
  BY <1>4 DEF BeginCudaStep, BeginOpenCudaStep, BeginCudaStepWithNewMaterials, AdmitCuda,
     Activate
<1>5. CASE \/ \E f, g \in Array : CpuUpdate(o, f, g) \/ Kernel(o, f, g)
           \/ \E S \in SUBSET Array : KernelFails(o, S)
           \/ BeginOperation(o) \/ FinishStep(o)
           \/ FinishOperation(o) \/ FinishOperationFails(o)
  BY <1>5 DEF CpuUpdate, Kernel, KernelFails, BeginOperation, FinishStep,
     FinishOperation, FinishOperationFails, backendVars
<1>6. QED
  BY <1>1, <1>2, <1>3, <1>4, <1>5 DEF Stepping

\* Every step of MatchingSpec preserves the agreement of request and backend.
LEMMA MatchingRequestInv ==
    ASSUME IInv, RequestInv, [MatchingNext]_vars
    PROVE  RequestInv'
<1>1. ASSUME NEW o \in Owner, HostOperation(o) PROVE RequestInv'
  BY <1>1 DEF HostOperation, HostRead, PointRead, KrylovWrite, HostRewrite, ReplaceArray,
     backendVars, RequestInv
<1>2. ASSUME NEW o \in Owner, DftOperation(o) PROVE RequestInv'
  BY <1>2, DftOperationControl DEF backendVars, RequestInv
<1>3. CASE UNCHANGED vars
  BY <1>3 DEF vars, backendVars, RequestInv
<1>4. QED
  BY <1>1, <1>2, <1>3, SelectionRequestInv, SteppingRequestInv DEF MatchingNext, Next

\* The inductive invariant of MatchingSpec.
THEOREM MatchingInvariance == MatchingSpec => [](DftInv /\ RequestInv)
<1>1. Init => DftInv /\ RequestInv
  BY DftInitInv DEF Init, BackendInit, RequestInv
<1>2. DftInv /\ RequestInv /\ [MatchingNext]_vars => (DftInv /\ RequestInv)'
  <2> SUFFICES ASSUME DftInv, RequestInv, [MatchingNext]_vars
               PROVE  DftInv' /\ RequestInv'
    OBVIOUS
  <2>1. ASSUME [Next]_vars PROVE DftInv'
    BY <2>1, CacheStepDftInv
  <2>2. ASSUME NEW o \in Owner, BackendIsOwners(o), DftOperation(o) PROVE DftInv'
    BY <2>2, MatchingIsConsulted, DftStepDftInv DEF DftInv
  <2>3. QED
    BY <2>1, <2>2, MatchingRequestInv DEF MatchingNext, DftInv
<1>3. QED
  BY <1>1, <1>2, PTL DEF MatchingSpec, MatchingNext

\* The types of MatchingSpec.
THEOREM MatchingTypeCorrect == MatchingSpec => []TypeOK
BY MatchingInvariance, DftInvImplies, PTL

\* The DFT operations never write a host array under a trusted mirror.
THEOREM MatchingMirrorCoherence == MatchingSpec => []CleanMirrorsMatchHost
BY MatchingInvariance, DftInvImplies, PTL

\* Owners on the CPU hold no mirrors, with DFT operations of any owner between
\* their steps.
THEOREM MatchingCpuIsolation == MatchingSpec => []CpuOwnersHoldNoMirrorState
BY MatchingInvariance, DftInvImplies, PTL

\* A load, a scaling or a combination is what the owner holds from then on.
THEOREM WritesVisible == MatchingSpec => []WritesAreVisible
BY MatchingInvariance, DftInvImplies, PTL

\* With its DFT operations the cache still implements the plain array store,
\* however the owners' decisions differ.
THEOREM MatchingImplementsStore == MatchingSpec => BehavesAsFieldStore
<1>1. Init => Store!Init
  <2> SUFFICES ASSUME Init PROVE Val \in [Owner -> [Array -> Value]] /\ io = <<>>
    BY DEF Store!Init, Val
  <2>1. CacheInv
    BY InitInv DEF IInv
  <2>2. QED
    BY <2>1, AuthoritativeType DEF Val, Init
<1>2. DftInv /\ RequestInv /\ [MatchingNext]_vars => [Store!Next]_(Store!vars)
  <2> SUFFICES ASSUME DftInv, RequestInv, [MatchingNext]_vars
               PROVE  Store!Next \/ (Val' = Val /\ io' = io)
    BY DEF Store!vars, Val
  <2>1. CASE [Next]_vars
    BY <2>1, StepRefines DEF DftInv
  <2>2. ASSUME NEW o \in Owner, BackendIsOwners(o), DftOperation(o) PROVE Store!Next
    BY <2>2, MatchingIsConsulted, DftOperationRefines DEF DftInv
  <2>3. QED
    BY <2>1, <2>2 DEF MatchingNext
<1>3. QED
  BY <1>1, <1>2, MatchingInvariance, PTL
     DEF MatchingSpec, MatchingNext, BehavesAsFieldStore, Store!Spec

-----------------------------------------------------------------------------
(* One owner: what its last step made active is its own backend.             *)

AllConsulted == \A o \in Owner : Consulted(o)

\* The control state of a single owner between the operations that change it.
LEMMA KeptConsulted ==
    ASSUME AllConsulted,
           UNCHANGED <<backendVars, exec>>,
           active = "cuda" \/ \A o \in Owner : dirty'[o] \subseteq dirty[o]
                                            /\ uploaded'[o] \subseteq uploaded[o]
    PROVE  AllConsulted'
BY DEF AllConsulted, Consulted, backendVars

\* A change of backend or device leaves no decision and no trusted mirror.
LEMMA SelectionConsulted ==
    ASSUME IInv, RequestInv, AllConsulted, Selection
    PROVE  AllConsulted'
<1> USE DEF IInv, ControlInv, RequestInv, AllConsulted, Consulted
<1>1. CASE \E m \in Mode : SetBackend(m)
  BY <1>1, PublishEmpties DEF SetBackend, Configure, ForgetDecisions, CpuDecision
<1>2. CASE SetBackendFails
  BY <1>2, KeptConsulted DEF SetBackendFails, PublishAndInvalidate
<1>3. CASE \E d \in Device : SelectDevice(d)
  BY <1>3, PublishEmpties DEF SelectDevice, SelectReadyDevice, ForgetDecisions,
     CpuDecision
<1>4. QED
  BY <1>1, <1>2, <1>3 DEF Selection

\* A step of the only owner makes its decision the active backend; a CPU
\* decision leaves it without mirrors.
LEMMA SteppingConsulted ==
    ASSUME \A a, b \in Owner : a = b, IInv, RequestInv, AllConsulted,
           NEW o \in Owner, Stepping(o)
    PROVE  AllConsulted'
<1> USE DEF IInv, ControlInv, OwnersTypeOK, CacheInv, CacheTypeOK
<1>1. CASE BeginCpuStep(o)
  BY <1>1 DEF BeginCpuStep, Activate, CpuOwnersClean, cacheVars, AllConsulted, Consulted
<1>2. CASE \E e \in CpuDecision : AutomaticCpuStep(o, e)
  BY <1>2 DEF AutomaticCpuStep, Activate, DestroyCache, AllConsulted, Consulted
<1>3. CASE CudaPreflightFails(o) \/ CandidateFails(o)
  BY <1>3 DEF CudaPreflightFails, CandidateFails, cacheVars, Activate, CpuDecision,
     AllConsulted, Consulted
<1>4. CASE \/ BeginCudaStep(o) \/ BeginOpenCudaStep(o)
           \/ \E p \in StepKind, w \in Contents : BeginCudaStepWithNewMaterials(o, p, w)
  BY <1>4 DEF BeginCudaStep, BeginOpenCudaStep, BeginCudaStepWithNewMaterials, AdmitCuda,
     Activate, CpuDecision, AllConsulted, Consulted
<1>5. CASE BeginOperation(o) \/ \E f, g \in Array : CpuUpdate(o, f, g)
  BY <1>5, KeptConsulted DEF BeginOperation, CpuUpdate
<1>6. CASE \/ \E f, g \in Array : Kernel(o, f, g)
           \/ \E S \in SUBSET Array : KernelFails(o, S)
  BY <1>6, KeptConsulted DEF Kernel, KernelFails, PhaseOnSelectedDevice
<1>7. CASE FinishStep(o) \/ FinishOperation(o) \/ FinishOperationFails(o)
  BY <1>7, KeptConsulted DEF FinishStep, FinishOperation, FinishOperationFails, cacheVars
<1>8. QED
  BY <1>1, <1>2, <1>3, <1>4, <1>5, <1>6, <1>7 DEF Stepping

\* Host operations only take mirrors away.
LEMMA HostOperationConsulted ==
    ASSUME IInv, AllConsulted, NEW o \in Owner, HostOperation(o)
    PROVE  AllConsulted'
<1> USE KeptConsulted DEF IInv, CacheInv, CacheTypeOK
<1>1. CASE \E S \in SUBSET Array : HostRead(o, S)
  BY <1>1 DEF HostRead
<1>2. CASE \E f \in Array : PointRead(o, f)
  BY <1>2 DEF PointRead, cacheVars
<1>3. CASE \E w \in Contents : KrylovWrite(o, w)
  BY <1>3 DEF KrylovWrite
<1>4. CASE \E w \in Contents : HostRewrite(o, w)
  BY <1>4 DEF HostRewrite, DestroyCache
<1>5. CASE \E f \in Array, v \in Value : ReplaceArray(o, f, v)
  BY <1>5 DEF ReplaceArray
<1>6. QED
  BY <1>1, <1>2, <1>3, <1>4, <1>5 DEF HostOperation

\* DFT operations add mirrors only on the CUDA path.
LEMMA DftOperationConsulted ==
    ASSUME IInv, AllConsulted, NEW o \in Owner, DftOperation(o)
    PROVE  AllConsulted'
<1> USE DEF IInv, CacheInv, CacheTypeOK
<1>1. CASE active = "cuda"
  BY <1>1, DftOperationControl, KeptConsulted
<1>2. CASE active # "cuda"
  <2>1. \A q \in Owner : dirty'[q] \subseteq dirty[q] /\ uploaded'[q] \subseteq uploaded[q]
    <3>1. ASSUME NEW p \in Owner, NEW f \in Dft, NEW g \in Dft, CombineDftOnHost(o, p, f, g)
          PROVE  \A q \in Owner :
                     dirty'[q] \subseteq dirty[q] /\ uploaded'[q] \subseteq uploaded[q]
      BY <3>1 DEF CombineDftOnHost
    <3>2. CASE \E f \in Dft : ReadDftOnHost(o, f)
      BY <3>2 DEF ReadDftOnHost, HostRead
    <3>3. CASE \E w \in DftContents : LoadDftOnHost(o, w)
      BY <3>3 DEF LoadDftOnHost
    <3>4. QED
      BY <1>2, <3>1, <3>2, <3>3 DEF DftOperation, ScaleDftOnDevice, ScaleDftOnHost,
         ReadFluxOnDevice, SaveDftOnDevice, LoadDftOnDevice
  <2>2. QED
    BY <2>1, DftOperationControl, KeptConsulted
<1>3. QED
  BY <1>1, <1>2

OneOwnerInv == DftInv /\ RequestInv /\ AllConsulted

\* A step of DftSpec preserves the invariants when there is one owner.
LEMMA OneOwnerStep ==
    ASSUME \A a, b \in Owner : a = b, OneOwnerInv, [DftNext]_vars
    PROVE  OneOwnerInv'
<1> USE DEF OneOwnerInv
<1>1. DftInv'
  <2>1. ASSUME [Next]_vars PROVE DftInv'
    BY <2>1, CacheStepDftInv
  <2>2. ASSUME NEW o \in Owner, DftOperation(o) PROVE DftInv'
    BY <2>2, DftStepDftInv DEF AllConsulted
  <2>3. QED
    BY <2>1, <2>2 DEF DftNext
<1>2. RequestInv'
  <2>1. ASSUME [Next]_vars PROVE RequestInv'
    BY <2>1, MatchingRequestInv DEF MatchingNext, DftInv
  <2>2. ASSUME NEW o \in Owner, DftOperation(o) PROVE RequestInv'
    BY <2>2, DftOperationControl DEF backendVars, RequestInv
  <2>3. QED
    BY <2>1, <2>2 DEF DftNext
<1>3. AllConsulted'
  <2>1. CASE UNCHANGED vars
    BY <2>1, KeptConsulted DEF vars, cacheVars
  <2>2. QED
    BY <2>1, SelectionConsulted, SteppingConsulted, HostOperationConsulted,
       DftOperationConsulted DEF DftNext, Next, DftInv
<1>4. QED
  BY <1>1, <1>2, <1>3

\* With one owner every DFT operation is safe, whatever ran before it: no
\* restriction on when the program uses its DFTs is needed.
THEOREM OneOwnerInvariance ==
    ASSUME \A a, b \in Owner : a = b
    PROVE  DftSpec => []OneOwnerInv
<1>1. Init => OneOwnerInv
  BY DftInitInv DEF Init, BackendInit, RequestInv, OneOwnerInv, AllConsulted, Consulted
<1>2. OneOwnerInv /\ [DftNext]_vars => OneOwnerInv'
  BY OneOwnerStep
<1>3. QED
  BY <1>1, <1>2, PTL DEF DftSpec

\* The invariants of a process with one owner, DFT operations included.
THEOREM OneOwnerSafety ==
    ASSUME \A a, b \in Owner : a = b
    PROVE  DftSpec => [](/\ TypeOK
                         /\ CleanMirrorsMatchHost
                         /\ CpuOwnersHoldNoMirrorState
                         /\ PhaseOnSelectedDevice
                         /\ WritesAreVisible)
<1>1. OneOwnerInv => /\ TypeOK
                     /\ CleanMirrorsMatchHost
                     /\ CpuOwnersHoldNoMirrorState
                     /\ PhaseOnSelectedDevice
                     /\ WritesAreVisible
  BY DftInvImplies DEF OneOwnerInv
<1>2. QED
  BY <1>1, OneOwnerInvariance, PTL

\* A process with one owner cannot tell the cache from a plain array store.
THEOREM OneOwnerImplementsStore ==
    ASSUME \A a, b \in Owner : a = b
    PROVE  DftSpec => BehavesAsFieldStore
<1>1. Init => Store!Init
  <2> SUFFICES ASSUME Init PROVE Val \in [Owner -> [Array -> Value]] /\ io = <<>>
    BY DEF Store!Init, Val
  <2>1. CacheInv
    BY InitInv DEF IInv
  <2>2. QED
    BY <2>1, AuthoritativeType DEF Val, Init
<1>2. OneOwnerInv /\ [DftNext]_vars => [Store!Next]_(Store!vars)
  <2> SUFFICES ASSUME OneOwnerInv, [DftNext]_vars
               PROVE  Store!Next \/ (Val' = Val /\ io' = io)
    BY DEF Store!vars, Val
  <2>1. CASE [Next]_vars
    BY <2>1, StepRefines DEF OneOwnerInv, DftInv
  <2>2. ASSUME NEW o \in Owner, DftOperation(o) PROVE Store!Next
    BY <2>2, DftOperationRefines DEF OneOwnerInv, AllConsulted, DftInv
  <2>3. QED
    BY <2>1, <2>2 DEF DftNext
<1>3. QED
  BY <1>1, <1>2, OneOwnerInvariance, PTL DEF DftSpec, BehavesAsFieldStore, Store!Spec
==============================================================================
