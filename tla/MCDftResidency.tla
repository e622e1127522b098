---------------------------- MODULE MCDftResidency ----------------------------
(* TLC instances of DftResidency.  Contents are 0 or 1, and a kernel makes    *)
(* the NAND of its inputs, so that a stale input shows in the result.         *)
EXTENDS DftResidency, Integers, TLC

MCValue == {0, 1}
MCNoValue == 2
MCCombine == [p \in MCValue \X MCValue |-> 1 - p[1] * p[2]]

Interchangeable == Permutations(Owner) \union Permutations(Device)
===============================================================================
