------------------------------ MODULE MCGateway ------------------------------
(* Small instances of Gateway for TLC. *)
EXTENDS Gateway

CONSTANTS t1, t2, r1, r2, w, g, h

TwoTurns == {t1, t2}
TwoReaders == {r1, r2}
TwoOwners == (t1 :> r1) @@ (t2 :> r2)

(* One turn is asked about g and denied h, the other runs g and has no h. *)
OneWorker == {w}
TwoGated == {g, h}
Directories == (t1 :> {w, g, h}) @@ (t2 :> {w, g})
Gates == (t1 :> (g :> "ask" @@ h :> "denied")) @@ (t2 :> (g :> "run" @@ h :> "ask"))
=============================================================================
