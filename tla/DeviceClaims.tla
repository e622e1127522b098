----------------------------- MODULE DeviceClaims -----------------------------
(***************************************************************************)
(* The assignment of physical devices to the ranks of an MPI world         *)
(* (validate_distributed_device_assignment in gpu_backend.cpp and the      *)
(* claim table of mympi.cpp).                                              *)
(*                                                                         *)
(* The world is divided into subcommunicators, which step independently.   *)
(* The ranks of one of them validate their devices together when they      *)
(* first step a fields owner: an allgather compares their devices, then    *)
(* each rank withdraws its old claim, all of them meet at a barrier, each  *)
(* claims its device in the table of the whole world, and a reduction      *)
(* tells every rank whether all of them were granted.                      *)
(*                                                                         *)
(* A rank has ONE claim.  Which owners were validated is remembered per    *)
(* owner, for the backend generation of the rank.  A collective is one     *)
(* action of its subcommunicator: nothing happens between the arrival of a *)
(* rank and the arrival of the last one.  An access to the table is one    *)
(* action of its rank: it holds the exclusive lock of the window.          *)
(***************************************************************************)
CONSTANTS
    Rank,       \* ranks of MPI_COMM_WORLD
    Group,      \* subcommunicators: a partition of Rank
    Owner,      \* fields owners that each subcommunicator steps
    Device,     \* physical devices (UUIDs)
    NoDevice    \* the empty identifier

ASSUME GroupAssumption ==
    /\ UNION Group = Rank
    /\ \A g, h \in Group : g \intersect h # {} => g = h
ASSUME NoDeviceAssumption == NoDevice \notin Device

VARIABLES
    assigned,   \* device each rank has selected
    share,      \* MEEP_GPU_ALLOW_OVERSUBSCRIBE of each rank
    table,      \* the claim table
    valid,      \* owners validated for the rank's device and generation
    subject,    \* the owner under validation
    granted,    \* claim_succeeded
    pc

vars == <<assigned, share, table, valid, subject, granted, pc>>

Claims == [id : Device \union {NoDevice}, share : BOOLEAN]
Empty == [id |-> NoDevice, share |-> FALSE]
Desired(r) == [id |-> assigned[r], share |-> share[r]]

\* The types of the table and of the validation state of every rank.
TypeOK ==
    /\ assigned \in [Rank -> Device]
    /\ share \in [Rank -> BOOLEAN]
    /\ table \in [Rank -> Claims]
    /\ valid \in [Rank -> SUBSET Owner]
    /\ subject \in [Rank -> Owner]
    /\ granted \in [Rank -> BOOLEAN]
    /\ pc \in [Rank -> {"idle", "release", "barrier", "claim", "agree", "withdraw"}]

Init ==
    /\ assigned \in [Rank -> Device]
    /\ share \in [Rank -> BOOLEAN]
    /\ table = [r \in Rank |-> Empty]
    /\ valid = [r \in Rank |-> {}]
    /\ subject \in [Rank -> Owner]
    /\ granted = [r \in Rank |-> FALSE]
    /\ pc = [r \in Rank |-> "idle"]

All(g, state) == \A r \in g : pc[r] = state
Move(g, state) == pc' = [r \in Rank |-> IF r \in g THEN state ELSE pc[r]]

-----------------------------------------------------------------------------
(* What a rank does on its own, between steps.                               *)

\* Mutant of Reconfigure: the generation does not move on.
ReconfigureSilently(r, d, s) ==
    /\ pc[r] = "idle"
    /\ assigned' = [assigned EXCEPT ![r] = d]
    /\ share' = [share EXCEPT ![r] = s]
    /\ UNCHANGED <<table, valid, subject, granted, pc>>

\* select_device, set_backend to a CUDA mode, or a refreshed environment: the
\* generation of the rank moves on, its claim stays until it is validated.
Reconfigure(r, d, s) ==
    /\ pc[r] = "idle"
    /\ assigned' = [assigned EXCEPT ![r] = d]
    /\ share' = [share EXCEPT ![r] = s]
    /\ valid' = [valid EXCEPT ![r] = {}]
    /\ UNCHANGED <<table, subject, granted, pc>>

\* set_backend(cpu) gives the claim back.
UseCpu(r) ==
    /\ pc[r] = "idle"
    /\ table' = [table EXCEPT ![r] = Empty]
    /\ valid' = [valid EXCEPT ![r] = {}]
    /\ UNCHANGED <<assigned, share, subject, granted, pc>>

-----------------------------------------------------------------------------
(* The validation of owner o by the ranks of g.                              *)

\* distributed_device_identifiers_are_unique; the ranks in bad have no valid
\* identifier (an unreadable UUID or a malformed setting).
Distinct(g, bad) ==
    /\ bad = {}
    /\ \A r, s \in g : r # s /\ assigned[r] = assigned[s] => share[r] /\ share[s]

Gather(g, o, bad) ==
    /\ All(g, "idle")
    /\ \E r \in g : o \notin valid[r]
    /\ subject' = [r \in Rank |-> IF r \in g THEN o ELSE subject[r]]
    /\ Move(g, IF Distinct(g, bad) THEN "release" ELSE "withdraw")
    /\ UNCHANGED <<assigned, share, table, valid, granted>>

Release(r) ==
    /\ pc[r] = "release"
    /\ table' = [table EXCEPT ![r] = Empty]
    /\ pc' = [pc EXCEPT ![r] = "barrier"]
    /\ UNCHANGED <<assigned, share, valid, subject, granted>>

Barrier(g) ==
    /\ All(g, "barrier")
    /\ Move(g, "claim")
    /\ UNCHANGED <<assigned, share, table, valid, subject, granted>>

\* Mutant of Available: one of the two ranks allowing duplicates is enough.
AvailableToEither(r) ==
    \A s \in Rank \ {r} :
        table[s].id = assigned[r] => table[s].share \/ share[r]

\* No other rank of the world has a claim that excludes this one.
Available(r) ==
    \A s \in Rank \ {r} :
        table[s].id = assigned[r] => table[s].share /\ share[r]

\* Mutant of Claim: a rank whose claim is refused does not join the reduction.
ClaimOrThrow(r) ==
    /\ pc[r] = "claim"
    /\ table' = [table EXCEPT ![r] = IF Available(r) THEN Desired(r) ELSE Empty]
    /\ granted' = [granted EXCEPT ![r] = Available(r)]
    /\ pc' = [pc EXCEPT ![r] = IF Available(r) THEN "agree" ELSE "idle"]
    /\ UNCHANGED <<assigned, share, valid, subject>>

\* claim_distributed_device_identifier, under the lock of the window.
Claim(r) ==
    /\ pc[r] = "claim"
    /\ table' = [table EXCEPT ![r] = IF Available(r) THEN Desired(r) ELSE Empty]
    /\ granted' = [granted EXCEPT ![r] = Available(r)]
    /\ pc' = [pc EXCEPT ![r] = "agree"]
    /\ UNCHANGED <<assigned, share, valid, subject>>

\* and_to_all(claim_succeeded): the owner is validated on every rank or none.
Agree(g) ==
    /\ All(g, "agree")
    /\ IF \A r \in g : granted[r]
          THEN /\ valid' = [r \in Rank |-> IF r \in g THEN valid[r] \union {subject[r]}
                                                      ELSE valid[r]]
               /\ Move(g, "idle")
          ELSE /\ Move(g, "withdraw")
               /\ UNCHANGED valid
    /\ granted' = [r \in Rank |-> IF r \in g THEN FALSE ELSE granted[r]]
    /\ UNCHANGED <<assigned, share, table, subject>>

\* The validation failed: the claim is released, and the owner steps on the
\* CPU (automatic backend) or its step throws.
Withdraw(r) ==
    /\ pc[r] = "withdraw"
    /\ table' = [table EXCEPT ![r] = Empty]
    /\ pc' = [pc EXCEPT ![r] = "idle"]
    /\ UNCHANGED <<assigned, share, valid, subject, granted>>

-----------------------------------------------------------------------------
Next ==
    \/ \E r \in Rank : \/ \E d \in Device, s \in BOOLEAN : Reconfigure(r, d, s)
                       \/ UseCpu(r)
                       \/ Release(r)
                       \/ Claim(r)
                       \/ Withdraw(r)
    \/ \E g \in Group : \/ \E o \in Owner, bad \in SUBSET g : Gather(g, o, bad)
                        \/ Barrier(g)
                        \/ Agree(g)

Spec == Init /\ [][Next]_vars

\* A rank inside a validation keeps running, and a collective that all ranks
\* of its subcommunicator have entered returns.  No rank has to step or to
\* reconfigure.
FairSpec ==
    /\ Spec
    /\ \A r \in Rank : WF_vars(Release(r)) /\ WF_vars(Claim(r)) /\ WF_vars(Withdraw(r))
    /\ \A g \in Group : WF_vars(Barrier(g)) /\ WF_vars(Agree(g))

-----------------------------------------------------------------------------
(* Properties.                                                               *)

\* The claim table never holds two claims on one device unless both ranks
\* allow it, whatever the order of the ranks at the window.
ClaimsAreCompatible ==
    \A r, s \in Rank :
        r # s /\ table[r].id = table[s].id /\ table[r].id # NoDevice
            => table[r].share /\ table[s].share

\* The subcommunicator steps an owner on its devices: the owner's cached
\* validation holds on all its ranks, which are in none of the actions above.
OnDevices(g) == All(g, "idle") /\ \E o \in Owner : \A r \in g : o \in valid[r]

\* Two ranks of the world that step on the same device have both allowed it
\* ("ranks in different divide_parallel_processes subcommunicators cannot
\* silently oversubscribe the same device", GPU_DEVELOPMENT.md).
NoSilentOversubscription ==
    \A g, h \in Group : OnDevices(g) /\ OnDevices(h) =>
        \A r \in g, s \in h :
            r # s /\ assigned[r] = assigned[s] => share[r] /\ share[s]

\* A rank that enters a validation leaves it: no rank of the subcommunicator
\* is left waiting in a collective for one that has given up.
ValidationEnds == \A r \in Rank : pc[r] # "idle" ~> pc[r] = "idle"
===============================================================================
