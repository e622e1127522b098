----------------------------- MODULE StickyVerdict -----------------------------
(***************************************************************************)
(* What the finite check of the fields promises: one bit that a scan of    *)
(* non-finite fields sets, that only a readback or the end of the cache    *)
(* clears, and that a readback reports.                                    *)
(***************************************************************************)
VARIABLES
    alive,      \* the cache that keeps the bit exists
    finite,     \* whether the fields on the device are finite
    bad,        \* a scan met a non-finite value since the last readback
    answer      \* what the last finished check returned

vars == <<alive, finite, bad, answer>>

Init == /\ alive = FALSE
        /\ finite \in BOOLEAN
        /\ bad = FALSE
        /\ answer = TRUE

Create == /\ alive' = TRUE
          /\ UNCHANGED <<finite, bad, answer>>

Compute == /\ finite' \in BOOLEAN
           /\ UNCHANGED <<alive, bad, answer>>

Scan == /\ bad' = (bad \/ ~finite)
        /\ UNCHANGED <<alive, finite, answer>>

Read == /\ answer' = ~bad
        /\ bad' = FALSE
        /\ UNCHANGED <<alive, finite>>

Defer == /\ answer' = TRUE
         /\ UNCHANGED <<alive, finite, bad>>

Destroy == /\ alive' = FALSE
           /\ bad' = FALSE
           /\ UNCHANGED <<finite, answer>>

Next == Create \/ Compute \/ Scan \/ Read \/ Defer \/ Destroy

Spec == Init /\ [][Next]_vars
===============================================================================
