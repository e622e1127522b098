---------------------------- MODULE HaloLockstep ----------------------------
(***************************************************************************)
(* What the boundary exchange promises to the time stepping: a rank's n-th *)
(* update that needs its neighbours' boundary values sees their values     *)
(* after n updates, never older and never newer ones.                      *)
(***************************************************************************)
EXTENDS Naturals

CONSTANTS Ranks

VARIABLES done,   \* the number of updates a rank has made
          saw     \* the neighbours' values its last update read, as versions

Peers(r) == Ranks \ {r}

Init ==
  /\ done = [r \in Ranks |-> 0]
  /\ saw = [r \in Ranks |-> [q \in Peers(r) |-> 0]]

Update(r) ==
  /\ \A q \in Peers(r) : done[q] >= done[r]
  /\ done' = [done EXCEPT ![r] = @ + 1]
  /\ saw' = [saw EXCEPT ![r] = [q \in Peers(r) |-> done[r]]]

Spec == Init /\ [][\E r \in Ranks : Update(r)]_<<done, saw>>
=============================================================================
