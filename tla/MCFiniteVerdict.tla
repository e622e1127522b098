---------------------------- MODULE MCFiniteVerdict ----------------------------
(* Two devices and three generations: the counter wraps after three checks.  *)
EXTENDS FiniteVerdict

CONSTANTS d1, d2

Devices == {d1, d2}
===============================================================================
