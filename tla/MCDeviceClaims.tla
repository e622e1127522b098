---------------------------- MODULE MCDeviceClaims ----------------------------
(* TLC instances of DeviceClaims: three ranks, of which two form a            *)
(* subcommunicator; and two subcommunicators of one rank each.                *)
EXTENDS DeviceClaims

CONSTANTS r1, r2, r3

PairAndOne == {{r1, r2}, {r3}}
TwoSingles == {{r1}, {r2}}
===============================================================================
