---------------------------- MODULE MCAuthSessions ----------------------------
(* Small instances of AuthSessions for TLC. *)
EXTENDS AuthSessions

CONSTANTS c1, c2, c3, t1, t2

ThreeCalls == {c1, c2, c3}
TwoTabs == [c \in Call |-> IF c = c3 THEN t2 ELSE t1]
=============================================================================
