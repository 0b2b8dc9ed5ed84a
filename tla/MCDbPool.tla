------------------------------ MODULE MCDbPool ------------------------------
(* Three calls on a small pool, for TLC. *)
EXTENDS DbPool

CONSTANTS c1, c2, c3

ThreeCalls == {c1, c2, c3}
=============================================================================
