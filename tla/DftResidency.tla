----------------------------- MODULE DftResidency -----------------------------
(***************************************************************************)
(* The operations of dft.cpp on the DFT arrays of an owner, on top of the  *)
(* cache protocol.  Scaling, flux reduction, checkpoint save and load each *)
(* have a CUDA and a CPU path; which one runs depends on the process-wide  *)
(* cuda_active(), that is on the owner that stepped last, and not on the   *)
(* owner of the DFT.                                                       *)
(***************************************************************************)
EXTENDS ResidentCache

CONSTANT Dft        \* the arrays of an owner that are DFT accumulators

ASSUME DftAssumption == Dft \subseteq Array

\* Mutant of ScaleDftOnDevice: the scaled mirror is not marked dirty.
ScaleDftUnmarked(o, f) ==
    LET c == OnDevice(o, selected)
        v == IF f \in c.dirty \union c.uploaded THEN c.dev[f] ELSE c.host[f]
        w == [x \in {f} |-> Combine[<<v, v>>]]
    IN  /\ active = "cuda"
        /\ ~InPhase(o)
        /\ host' = [host EXCEPT ![o] = c.host]
        /\ dev' = [dev EXCEPT ![o] = Overlay(w, c.dev)]
        /\ uploaded' = [uploaded EXCEPT ![o] = c.uploaded \union ({f} \ c.dirty)]
        /\ dirty' = [dirty EXCEPT ![o] = c.dirty]
        /\ ordinal' = [ordinal EXCEPT ![o] = selected]
        /\ io' = <<"update", o, w>>
        /\ UNCHANGED <<backendVars, exec, phase>>

\* dft_chunk::scale_dft when CUDA is active: scaled in place on the device,
\* which becomes the authority.
ScaleDftOnDevice(o, f) ==
    LET c == OnDevice(o, selected)
        v == IF f \in c.dirty \union c.uploaded THEN c.dev[f] ELSE c.host[f]
        w == [x \in {f} |-> Combine[<<v, v>>]]
    IN  /\ active = "cuda"
        /\ ~InPhase(o)
        /\ host' = [host EXCEPT ![o] = c.host]
        /\ dev' = [dev EXCEPT ![o] = Overlay(w, c.dev)]
        /\ uploaded' = [uploaded EXCEPT ![o] = c.uploaded \union ({f} \ c.dirty)]
        /\ dirty' = [dirty EXCEPT ![o] = c.dirty \union {f}]
        /\ ordinal' = [ordinal EXCEPT ![o] = selected]
        /\ io' = <<"update", o, w>>
        /\ UNCHANGED <<backendVars, exec, phase>>

\* Mutant of CombineDftOnHost: the operand of the other owner is not synced.
CombineDftUnsynced(o, p, f, g) ==
    LET w == [x \in {g} |-> Combine[<<host[p][f], Authoritative(o)[g]>>]]
    IN  /\ ~InPhase(o)
        /\ host' = [host EXCEPT ![o] = Overlay(w, Authoritative(o))]
        /\ dirty' = [dirty EXCEPT ![o] = {}]
        /\ dev' = [dev EXCEPT ![o][g] = NoValue]
        /\ uploaded' = [uploaded EXCEPT ![o] = @ \ {g}]
        /\ io' = <<"update", o, w>>
        /\ UNCHANGED <<backendVars, exec, ordinal, phase>>

\* dft_chunk::scale_dft when the CPU is active, and dft_chunk::operator-= on
\* either backend: sync both owners, compute on the host, discard the mirror.
CombineDftOnHost(o, p, f, g) ==
    LET w == [x \in {g} |->
                 Combine[<<Authoritative(p)[f], Authoritative(o)[g]>>]]
    IN  /\ ~InPhase(o)
        /\ ~InPhase(p)
        /\ host' = [host EXCEPT ![p] = Authoritative(p),
                                ![o] = Overlay(w, Authoritative(o))]
        /\ dirty' = [dirty EXCEPT ![p] = {}, ![o] = {}]
        /\ dev' = [dev EXCEPT ![o][g] = NoValue]
        /\ uploaded' = [uploaded EXCEPT ![o] = @ \ {g}]
        /\ io' = <<"update", o, w>>
        /\ UNCHANGED <<backendVars, exec, ordinal, phase>>

ScaleDftOnHost(o, f) == active = "cpu" /\ CombineDftOnHost(o, o, f, f)

\* dft_flux::flux when CUDA is active (resident_reduce_dft_pairs_fp32): the
\* operand becomes resident, is reduced there, and its mirror stays trusted.
ReadFluxOnDevice(o, f) ==
    LET c == OnDevice(o, selected)
        row == [x \in Array |-> IF x = f /\ f \notin c.dirty \union c.uploaded
                                   THEN c.host[x] ELSE c.dev[x]]
    IN  /\ active = "cuda"
        /\ host' = [host EXCEPT ![o] = c.host]
        /\ dev' = [dev EXCEPT ![o] = row]
        /\ uploaded' = [uploaded EXCEPT ![o] = c.uploaded \union ({f} \ c.dirty)]
        /\ dirty' = [dirty EXCEPT ![o] = c.dirty]
        /\ ordinal' = [ordinal EXCEPT ![o] = selected]
        /\ io' = <<"read", o, [x \in {f} |-> row[x]]>>
        /\ UNCHANGED <<backendVars, exec, phase>>

\* dft_flux::flux and save_dft_hdf5 when the CPU is active: sync, read.
ReadDftOnHost(o, f) == active = "cpu" /\ HostRead(o, {f})

\* save_dft_hdf5 when CUDA is active: the payload is staged from wherever the
\* authority is, and published nowhere.
SaveDftOnDevice(o, f) == active = "cuda" /\ ~InPhase(o) /\ PointRead(o, f)

\* Mutant of LoadDftOnDevice: a dirty mirror survives the load.
LoadDftKeepsDirty(o, w, U) ==
    LET c == OnDevice(o, selected)
    IN  /\ active = "cuda"
        /\ ~InPhase(o)
        /\ host' = [host EXCEPT ![o] = Overlay(w, c.host)]
        /\ dev' = [dev EXCEPT ![o] = c.dev]
        /\ dirty' = [dirty EXCEPT ![o] = c.dirty]
        /\ uploaded' = [uploaded EXCEPT ![o] = c.uploaded \ DOMAIN w]
        /\ ordinal' = [ordinal EXCEPT ![o] = selected]
        /\ io' = <<"write", o, w>>
        /\ UNCHANGED <<backendVars, exec, phase>>

(***************************************************************************)
(* commit_dft_hdf5_datasets: every host array first.  With CUDA active the *)
(* mirrors are discarded and uploaded again; an upload that fails leaves   *)
(* the arrays outside U without a mirror.  With the CPU active the cache   *)
(* is not looked at.                                                       *)
(***************************************************************************)
LoadDftOnDevice(o, w, U) ==
    LET c == OnDevice(o, selected)
    IN  /\ active = "cuda"
        /\ ~InPhase(o)
        /\ host' = [host EXCEPT ![o] = Overlay(w, c.host)]
        /\ dev' = [dev EXCEPT ![o] =
                      Overlay([x \in DOMAIN w |-> IF x \in U THEN w[x] ELSE NoValue],
                              c.dev)]
        /\ dirty' = [dirty EXCEPT ![o] = c.dirty \ DOMAIN w]
        /\ uploaded' = [uploaded EXCEPT ![o] = (c.uploaded \ DOMAIN w) \union U]
        /\ ordinal' = [ordinal EXCEPT ![o] = selected]
        /\ io' = <<"write", o, w>>
        /\ UNCHANGED <<backendVars, exec, phase>>

LoadDftOnHost(o, w) ==
    /\ active = "cpu"
    /\ host' = [host EXCEPT ![o] = Overlay(w, host[o])]
    /\ io' = <<"write", o, w>>
    /\ UNCHANGED <<backendVars, exec, dev, dirty, uploaded, ordinal, phase>>

DftContents == UNION { [S -> Value] : S \in SUBSET Dft }

DftOperation(o) ==
    \/ \E f \in Dft : \/ ScaleDftOnDevice(o, f)
                      \/ ScaleDftOnHost(o, f)
                      \/ ReadFluxOnDevice(o, f)
                      \/ ReadDftOnHost(o, f)
                      \/ SaveDftOnDevice(o, f)
    \/ \E p \in Owner, f, g \in Dft : CombineDftOnHost(o, p, f, g)
    \/ \E w \in DftContents : \/ \E U \in SUBSET DOMAIN w : LoadDftOnDevice(o, w, U)
                              \/ LoadDftOnHost(o, w)

DftNext == Next \/ \E o \in Owner : DftOperation(o)

DftSpec == Init /\ [][DftNext]_vars

\* The process-wide backend that a DFT operation consults is that of the last
\* step of its owner; an owner that has not decided follows an explicit request.
BackendIsOwners(o) ==
    IF exec[o] = "none" THEN requested # "auto"
                        ELSE (active = "cuda") <=> (exec[o] = "cuda")

\* Programs whose owners may decide differently, and that use the DFT of an
\* owner only while the active backend is the owner's.
MatchingSpec ==
    Init /\ [][Next \/ \E o \in Owner : BackendIsOwners(o) /\ DftOperation(o)]_vars

-----------------------------------------------------------------------------
(* Properties.                                                               *)

\* What an operation just wrote is what the owner holds: no older device copy
\* hides it (the purpose of the discard in _load_dft_data, and of discarding
\* before the upload in commit_dft_hdf5_datasets).
WritesAreVisible ==
    io # <<>> /\ io[1] # "read" =>
        \A f \in DOMAIN io[3] : Authoritative(io[2])[f] = io[3][f]
===============================================================================
