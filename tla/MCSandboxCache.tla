--------------------------- MODULE MCSandboxCache ---------------------------
(* Small instances of SandboxCache for TLC. *)
EXTENDS SandboxCache

CONSTANTS s1, s2, a1, a2, a3, c1, c2

TwoSessions == {s1, s2}
OneSession == {s2}
Three == {a1, a2, a3}
TwoStored == {a1, a2}
OneRemoved == {a3}
TwoCallers == {c1, c2}
TwoEach == (c1 :> {a1, a3}) @@ (c2 :> {a2, a3})
Sessions == (a1 :> s1) @@ (a2 :> s1) @@ (a3 :> s2)
Lengths == (a1 :> 2) @@ (a2 :> 1) @@ (a3 :> 1)
=============================================================================
