------------------------- MODULE MCConnectionTokens -------------------------
(* Small instances of ConnectionTokens for TLC. *)
EXTENDS ConnectionTokens, TLC

CONSTANTS c1, c2, c3, k1, k2, d1, a1

Callers2 == {c1, c2}
Callers3 == {c1, c2, c3}
Connects == {k1, k2}
Disconnects == {d1}

(* Every callback carries the state of one attempt; with no callback this  *)
(* is the empty function.                                                  *)
SameAttempt == [k \in Connect |-> a1]

CallerSymmetry == Permutations(Caller)
=============================================================================
