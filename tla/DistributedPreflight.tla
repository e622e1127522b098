-------------------------- MODULE DistributedPreflight --------------------------
(***************************************************************************)
(* How the ranks of a communicator agree on the backend of one fields      *)
(* owner before every time step: fields::cuda_backend_preflight and        *)
(* cuda_step_preflight in step_db.cpp, with the decision cache of step.cpp.*)
(*                                                                         *)
(* The preflight is a chain of MPI collectives.  Each rank runs it on its  *)
(* own: it leaves a collective with everyone's votes, branches on them and *)
(* on its own state, and enters the collective that branch comes to next.  *)
(* Nothing but that computation keeps the ranks together.  A collective    *)
(* returns when every rank has entered it; ranks that enter different ones *)
(* wait for ever.                                                          *)
(*                                                                         *)
(* Any exception of a distributed step ends in MPI_Abort: by the handler   *)
(* around the preflight or by distributed_step_failure_guard.              *)
(***************************************************************************)
CONSTANT Rank       \* ranks of the communicator, at least two

VARIABLES
    request,    \* backend the user requested on each rank
    dec,        \* cached decision of the owner: execution_backend and
                \* cpu_feature_fallback
    stamp,      \* whether that decision is of the current generation and
                \* environment ("current"), of another environment ("away"),
                \* or of an older generation ("none")
    supported,  \* whether every feature of the rank's chunks has a kernel
    seen,       \* the features the cached decision was made for
    active,     \* active backend of the process
    explicit,   \* any_explicit_device_requested, while it is needed
    at,         \* the collective a rank is in
    vote,       \* what it contributed there
    out,        \* the votes it received; {} while it waits
    aborted     \* MPI_Abort was called

decision == <<request, dec, stamp, supported, seen, active, explicit>>
comm == <<at, vote, out>>
vars == <<decision, comm, aborted>>

Point == {"idle", "cached", "config", "mode", "policy", "floor", "candidate",
          "available", "device", "transport", "assignment", "diagnostic",
          "features", "exchange"}
Mode == {"cpu", "auto", "cuda"}
Unseen == "none"

\* The types of the decision caches and of the position of every rank.
TypeOK ==
    /\ request \in [Rank -> Mode]
    /\ dec \in [Rank -> {"cpu", "fallback", "cuda"}]
    /\ stamp \in [Rank -> {"none", "away", "current"}]
    /\ supported \in [Rank -> {"yes", "no"}]
    /\ seen \in [Rank -> {"yes", "no", Unseen}]
    /\ active \in [Rank -> {"cpu", "cuda"}]
    /\ explicit \in [Rank -> BOOLEAN]
    /\ at \in [Rank -> Point]
    /\ aborted \in BOOLEAN

Init ==
    /\ request \in [Rank -> Mode]
    /\ dec = [r \in Rank |-> "cpu"]
    /\ stamp = [r \in Rank |-> "none"]
    /\ supported \in [Rank -> {"yes", "no"}]
    /\ seen = [r \in Rank |-> Unseen]
    /\ active = [r \in Rank |-> "cpu"]
    /\ explicit = [r \in Rank |-> FALSE]
    /\ at = [r \in Rank |-> "idle"]
    /\ vote = [r \in Rank |-> <<>>]
    /\ out = [r \in Rank |-> {}]
    /\ aborted = FALSE

-----------------------------------------------------------------------------
(* Collectives.                                                              *)

Waiting(r) == at[r] # "idle" /\ out[r] = {}

Enter(r, point, v) ==
    /\ at' = [at EXCEPT ![r] = point]
    /\ vote' = [vote EXCEPT ![r] = v]
    /\ out' = [out EXCEPT ![r] = {}]
    /\ UNCHANGED aborted

\* and_to_all, or_to_all, broadcast and Allgather return everyone's votes.
Complete ==
    /\ ~aborted
    /\ \A r, s \in Rank : Waiting(r) /\ at[r] = at[s]
    /\ out' = [r \in Rank |-> {vote[s] : s \in Rank}]
    /\ UNCHANGED <<decision, at, vote, aborted>>

\* The rank is back from the collective.
Left(r, point) == ~aborted /\ at[r] = point /\ out[r] # {}
All(r) == out[r] = {TRUE}

\* The step throws: meep::abort ends all ranks.
Throw == aborted' = TRUE /\ UNCHANGED <<decision, comm>>

-----------------------------------------------------------------------------
(* The user, and other owners, between two steps.                            *)

\* set_backend or select_device on one rank: ++generation.
Reconfigure(r, m) ==
    /\ ~aborted /\ at[r] = "idle"
    /\ request' = [request EXCEPT ![r] = m]
    /\ stamp' = [stamp EXCEPT ![r] = "none"]
    /\ seen' = [seen EXCEPT ![r] = Unseen]
    /\ UNCHANGED <<dec, supported, active, explicit, comm, aborted>>

\* A policy variable of the environment is changed, or changed back.
SetEnvironment(r) ==
    /\ ~aborted /\ at[r] = "idle" /\ stamp[r] # "none"
    /\ stamp' = [stamp EXCEPT ![r] = IF @ = "away" THEN "current" ELSE "away"]
    /\ UNCHANGED <<request, dec, supported, seen, active, explicit, comm, aborted>>

\* Monitors, sources or materials of the rank's chunks change: to others that
\* the decision was not made for, or back to those it was made for.
SetFeatures(r, s) ==
    /\ ~aborted /\ at[r] = "idle"
    /\ supported' = [supported EXCEPT ![r] = s]
    /\ \E known \in {seen[r], Unseen} : seen' = [seen EXCEPT ![r] = known]
    /\ UNCHANGED <<request, dec, stamp, active, explicit, comm, aborted>>

\* Another owner of the process steps and publishes its own decision.
OtherOwnerSteps(r, b) ==
    /\ ~aborted /\ at[r] = "idle"
    /\ active' = [active EXCEPT ![r] = b]
    /\ UNCHANGED <<request, dec, stamp, supported, seen, explicit, comm, aborted>>

-----------------------------------------------------------------------------
(* The decision of the owner.                                                *)

\* What gpu_backend_preflight_is_cached finds on this rank.
Cached(r) ==
    /\ stamp[r] = "current"
    /\ dec[r] = "cpu" \/ seen[r] = supported[r]

\* Every feature test passed for the owner's features, on all ranks together.
StepValidated(r, consensus) == consensus /\ seen[r] = supported[r]

\* cuda_step_preflight: straight to the step, or the vote on the features.
EnterStep(r, backend, consensus) ==
    IF backend = "cpu" \/ StepValidated(r, consensus)
       THEN Enter(r, "exchange", backend)
       ELSE Enter(r, "features", supported[r] = "yes")

\* prepare_gpu_owner_for_cpu, activate and cache the decision d for the CPU.
DecideCpu(r, d) ==
    IF request[r] = "cuda"
       THEN Throw
       ELSE /\ dec' = [dec EXCEPT ![r] = d]
            /\ stamp' = [stamp EXCEPT ![r] = "current"]
            /\ seen' = [seen EXCEPT ![r] = IF d = "fallback" THEN supported[r] ELSE Unseen]
            /\ active' = [active EXCEPT ![r] = "cpu"]
            /\ EnterStep(r, "cpu", FALSE)
            /\ UNCHANGED <<request, supported, explicit>>

\* fields::step: the consensus of the caches.
BeginStep(r) ==
    /\ ~aborted /\ at[r] = "idle"
    /\ Enter(r, "cached", [cached |-> Cached(r), cuda |-> dec[r] = "cuda"])
    /\ UNCHANGED decision

\* Every rank has a decision: it is used.  Otherwise all of them probe again.
LeaveCached(r) ==
    LET every == \A v \in out[r] : v.cached
        choices == {v.cuda : v \in out[r]}
        backend == IF choices = {TRUE} THEN "cuda" ELSE "cpu"
    IN  /\ Left(r, "cached")
        /\ IF every
              THEN IF choices = {TRUE, FALSE}
                      THEN Throw
                      ELSE /\ active' = [active EXCEPT ![r] = backend]
                           /\ EnterStep(r, backend, TRUE)
                           /\ UNCHANGED <<request, dec, stamp, supported, seen, explicit>>
              ELSE /\ \E ok \in BOOLEAN : Enter(r, "config", ok)
                   /\ UNCHANGED decision

\* A configuration error anywhere fails the step; then the modes must agree.
LeaveConfig(r) ==
    /\ Left(r, "config")
    /\ IF All(r) THEN Enter(r, "mode", request[r]) /\ UNCHANGED decision
                 ELSE Throw

\* The vote on the device: whether one is ready, and explicitly requested.
EnterAvailable(r) ==
    /\ \E ready, chosen \in BOOLEAN :
          Enter(r, "available", [ready |-> ready, explicit |-> chosen])
    /\ UNCHANGED decision

LeaveMode(r) ==
    /\ Left(r, "mode")
    /\ CASE out[r] = {"cpu"}  -> DecideCpu(r, "cpu")
         [] out[r] = {"auto"} -> /\ \E valid \in BOOLEAN : Enter(r, "policy", valid)
                                 /\ UNCHANGED decision
         [] out[r] = {"cuda"} -> EnterAvailable(r)
         [] OTHER             -> Throw

\* Automatic: enough cells on every rank, before the CUDA runtime is touched.
LeavePolicy(r) ==
    /\ Left(r, "policy")
    /\ IF All(r) THEN (\E big \in BOOLEAN : Enter(r, "floor", big)) /\ UNCHANGED decision
                 ELSE Throw

LeaveFloor(r) ==
    /\ Left(r, "floor")
    /\ IF All(r) THEN (\E ok \in BOOLEAN : Enter(r, "candidate", ok)) /\ UNCHANGED decision
                 ELSE DecideCpu(r, "cpu")

LeaveCandidate(r) ==
    /\ Left(r, "candidate")
    /\ IF All(r) THEN EnterAvailable(r) ELSE Throw

\* activate_backend_for_owner(cuda), then the transport vote.
EnterTransport(r) ==
    /\ active' = [active EXCEPT ![r] = "cuda"]
    /\ \E agrees \in BOOLEAN : Enter(r, "transport", agrees)

\* One device on every rank, or the CPU.
LeaveAvailable(r) ==
    /\ Left(r, "available")
    /\ IF \A v \in out[r] : v.ready
          THEN /\ explicit' = [explicit EXCEPT ![r] = \E v \in out[r] : v.explicit]
               /\ IF request[r] = "auto"
                     THEN (\E use \in BOOLEAN : Enter(r, "device", use)) /\ UNCHANGED active
                     ELSE EnterTransport(r)
               /\ UNCHANGED <<request, dec, stamp, supported, seen>>
          ELSE DecideCpu(r, "cpu")

LeaveDevice(r) ==
    /\ Left(r, "device")
    /\ IF All(r)
          THEN /\ EnterTransport(r)
               /\ UNCHANGED <<request, dec, stamp, supported, seen, explicit>>
          ELSE DecideCpu(r, "cpu")

LeaveTransport(r) ==
    /\ Left(r, "transport")
    /\ IF All(r)
          THEN (\E granted \in BOOLEAN : Enter(r, "assignment", granted)) /\ UNCHANGED decision
          ELSE Throw

\* Mutant of LeaveAssignment: a rank whose features were validated before does
\* not vote on them again.
LeaveAssignmentLocally(r) ==
    /\ Left(r, "assignment")
    /\ IF All(r)
          THEN /\ dec' = [dec EXCEPT ![r] = "cuda"]
               /\ stamp' = [stamp EXCEPT ![r] = "current"]
               /\ EnterStep(r, "cuda", TRUE)
               /\ UNCHANGED <<request, supported, seen, active, explicit>>
          ELSE IF request[r] = "cuda" \/ explicit[r]
                  THEN Throw
                  ELSE Enter(r, "diagnostic", TRUE) /\ UNCHANGED decision

\* The devices are validated (DeviceClaims), on all ranks or on none.
LeaveAssignment(r) ==
    /\ Left(r, "assignment")
    /\ IF All(r)
          THEN /\ dec' = [dec EXCEPT ![r] = "cuda"]
               /\ stamp' = [stamp EXCEPT ![r] = "current"]
               /\ EnterStep(r, "cuda", FALSE)
               /\ UNCHANGED <<request, supported, seen, active, explicit>>
          ELSE IF request[r] = "cuda" \/ explicit[r]
                  THEN Throw
                  ELSE Enter(r, "diagnostic", TRUE) /\ UNCHANGED decision

LeaveDiagnostic(r) == Left(r, "diagnostic") /\ DecideCpu(r, "cpu")

\* Mutant of LeaveFeatures: each rank falls back for its own features.
LeaveFeaturesLocally(r) ==
    /\ Left(r, "features")
    /\ IF supported[r] = "yes"
          THEN /\ seen' = [seen EXCEPT ![r] = supported[r]]
               /\ Enter(r, "exchange", "cuda")
               /\ UNCHANGED <<request, dec, stamp, supported, active, explicit>>
          ELSE DecideCpu(r, "fallback")

\* The step is validated, or the automatic backend falls back to the CPU.
LeaveFeatures(r) ==
    /\ Left(r, "features")
    /\ IF All(r)
          THEN /\ seen' = [seen EXCEPT ![r] = supported[r]]
               /\ Enter(r, "exchange", "cuda")
               /\ UNCHANGED <<request, dec, stamp, supported, active, explicit>>
          ELSE DecideCpu(r, "fallback")

\* The boundary exchange of the step stands for the messages of its phases.
EndStep(r) ==
    /\ Left(r, "exchange")
    /\ at' = [at EXCEPT ![r] = "idle"]
    /\ vote' = [vote EXCEPT ![r] = <<>>]
    /\ out' = [out EXCEPT ![r] = {}]
    /\ explicit' = [explicit EXCEPT ![r] = FALSE]
    /\ UNCHANGED <<request, dec, stamp, supported, seen, active, aborted>>

\* Mutant of LocalFailure: the exception leaves fields::step.
LocalFailureEscapes(r) ==
    /\ ~aborted /\ at[r] # "idle" /\ ~Waiting(r)
    /\ at' = [at EXCEPT ![r] = "idle"]
    /\ vote' = [vote EXCEPT ![r] = <<>>]
    /\ out' = [out EXCEPT ![r] = {}]
    /\ UNCHANGED <<decision, aborted>>

\* Anything else that throws on one rank inside the step: a failed copy to
\* the host, an allocation, a kernel.
LocalFailure(r) ==
    /\ ~aborted /\ at[r] # "idle" /\ ~Waiting(r)
    /\ Throw

-----------------------------------------------------------------------------
Preflight(r) ==
    \/ LeaveCached(r) \/ LeaveConfig(r) \/ LeaveMode(r) \/ LeavePolicy(r)
    \/ LeaveFloor(r) \/ LeaveCandidate(r) \/ LeaveAvailable(r) \/ LeaveDevice(r)
    \/ LeaveTransport(r) \/ LeaveAssignment(r) \/ LeaveDiagnostic(r)
    \/ LeaveFeatures(r) \/ EndStep(r)

Between(r) ==
    \/ \E m \in Mode : Reconfigure(r, m)
    \/ SetEnvironment(r)
    \/ \E s \in {"yes", "no"} : SetFeatures(r, s)
    \/ \E b \in {"cpu", "cuda"} : OtherOwnerSteps(r, b)

\* The job is over.
Ended == aborted /\ UNCHANGED vars

Next ==
    \/ Complete
    \/ \E r \in Rank : BeginStep(r) \/ Preflight(r) \/ LocalFailure(r) \/ Between(r)
    \/ Ended

Spec == Init /\ [][Next]_vars

JoinStep(r) == (\E s \in Rank : at[s] # "idle") /\ BeginStep(r)

\* A rank inside a step keeps running and a collective that every rank has
\* entered returns.  The program is SPMD: when one rank steps the owner, the
\* others come to step it too.
FairSpec ==
    /\ Spec
    /\ WF_vars(Complete)
    /\ \A r \in Rank : WF_vars(Preflight(r)) /\ WF_vars(JoinStep(r))

-----------------------------------------------------------------------------
(* Properties.                                                               *)

\* Ranks that wait in a collective wait in the same one: no branch of the
\* preflight, cached or not, depends on what only some of the ranks know.
CollectivesMatch ==
    \A r, s \in Rank : Waiting(r) /\ Waiting(s) => at[r] = at[s]

\* A time step that exchanges boundaries does so on one backend: all ranks are
\* on the CPU or all of them on CUDA.
OneBackend ==
    \A r, s \in Rank : at[r] = "exchange" /\ at[s] = "exchange" => active[r] = active[s]

\* When every rank votes for its cached decision, the decisions are the same:
\* "cached fields-owner backend decisions differ across MPI ranks" is never
\* thrown, whatever single ranks did to their settings between the steps.
CachedDecisionsAgree ==
    (\A r \in Rank : at[r] = "cached" /\ vote[r].cached) =>
        \A r, s \in Rank : vote[r].cuda = vote[s].cuda

\* Every step that a rank enters ends on that rank, or the job is aborted.
StepEnds == \A r \in Rank : at[r] # "idle" ~> at[r] = "idle" \/ aborted
===============================================================================
