------------------------------ MODULE FieldStore ------------------------------
(***************************************************************************)
(* What the CUDA residency layer promises to the rest of the program: the  *)
(* field arrays of a fields owner behave as one plain array store.  Every  *)
(* read returns the last value written or computed, every kernel computes  *)
(* from the last values, and nothing else ever changes an array -- not a   *)
(* change of backend or device, not the release of device memory, not a    *)
(* failed operation.                                                       *)
(*                                                                         *)
(* io is the last completed operation as the caller saw it.  It makes a    *)
(* change of val that no caller asked for distinguishable from a write.    *)
(***************************************************************************)
EXTENDS FieldRows

CONSTANTS
    Owner,      \* fields owners of one process
    Combine     \* what a kernel stores from the old contents of two arrays

VARIABLES
    val,        \* contents of every array
    io          \* last operation: <<>> or <<kind, owner, contents>>

vars == <<val, io>>

Init == /\ val \in [Owner -> [Array -> Value]]
        /\ io = <<>>

Read(o, S) ==
    /\ io' = <<"read", o, [f \in S |-> val[o][f]]>>
    /\ UNCHANGED val

Write(o, w) ==
    /\ val' = [val EXCEPT ![o] = Overlay(w, val[o])]
    /\ io' = <<"write", o, w>>

\* A kernel of owner o that reads array f, of itself or of another owner p.
Update(o, p, f, g) ==
    LET w == [x \in {g} |-> Combine[<<val[p][f], val[o][g]>>]]
    IN  /\ val' = [val EXCEPT ![o] = Overlay(w, val[o])]
        /\ io' = <<"update", o, w>>

Next == \E o \in Owner :
           \/ \E S \in SUBSET Array : Read(o, S)
           \/ \E w \in Contents : Write(o, w)
           \/ \E p \in Owner, f, g \in Array : Update(o, p, f, g)

Spec == Init /\ [][Next]_vars
===============================================================================
