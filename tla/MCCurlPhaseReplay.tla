-------------------------- MODULE MCCurlPhaseReplay --------------------------
(* An instance of CurlPhaseReplay for TLC: a phase of two operations, two   *)
(* with a direct operation between or after the others, and one with a      *)
(* single operation.                                                        *)
EXTENDS CurlPhaseReplay, TLC

CONSTANTS c1, c2, a1, a2, a3, d1, d2

Curl(c, p) == [chunk |-> c, param |-> p]
Direct == [chunk |-> NoChunk, param |-> 0]

MCProgram == [plain  |-> <<Curl(c1, 1), Curl(c2, 1)>>,
              split  |-> <<Curl(c1, 2), Curl(c2, 2), Direct, Curl(c1, 3), Curl(c2, 3)>>,
              tail   |-> <<Curl(c1, 4), Curl(c2, 4), Direct>>,
              single |-> <<Curl(c1, 1)>>]

MCTopologies == DOMAIN MCProgram

Symmetry == Permutations({a1, a2, a3}) \cup Permutations({d1, d2})
=============================================================================
