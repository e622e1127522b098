------------------------------- MODULE FieldRows -------------------------------
(***************************************************************************)
(* The arrays of a fields owner as a row: a function from its arrays to    *)
(* their contents, and the rows that differ in some arrays only.           *)
(***************************************************************************)
CONSTANTS
    Array,      \* host arrays of an owner: field components, DFTs, materials
    Value       \* abstract contents of an array

\* New contents for some of the arrays of an owner.
Contents == UNION { [S -> Value] : S \in SUBSET Array }

\* The row after the arrays in DOMAIN w took their new contents.
Overlay(w, row) == [f \in Array |-> IF f \in DOMAIN w THEN w[f] ELSE row[f]]
===============================================================================
