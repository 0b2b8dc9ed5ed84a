------------------------------- MODULE Limiter -------------------------------
(***************************************************************************)
(* What the limiters of the repository promise their callers, whatever     *)
(* they are built from: at most Limit clients are inside, a client waits   *)
(* only while all places are taken, places are handed over in the order of *)
(* the line and nobody overtakes it.  A client may give up waiting.        *)
(* worker-lane.ts (Gateway) and the slot of host/pool.ts (XmlDocuments)    *)
(* are shown to implement it.                                              *)
(***************************************************************************)
EXTENDS Queues, FiniteSets

CONSTANTS Client, Limit

VARIABLES inside, line

Standing == ToSet(line)

Init == inside = {} /\ line = <<>>

Enter(c) ==
  /\ c \notin inside /\ line = <<>> /\ Cardinality(inside) < Limit
  /\ inside' = inside \cup {c} /\ UNCHANGED line

Wait(c) ==
  /\ c \notin inside \cup Standing /\ Cardinality(inside) = Limit
  /\ line' = Append(line, c) /\ UNCHANGED inside

(* A place that is left goes to the first of the line. *)
Leave(c) ==
  /\ c \in inside
  /\ \/ line = <<>> /\ inside' = inside \ {c} /\ UNCHANGED line
     \/ line # <<>> /\ inside' = (inside \ {c}) \cup {Head(line)} /\ line' = Tail(line)

GiveUp(S) ==
  /\ S # {} /\ S \subseteq Standing
  /\ line' = Without(line, S) /\ UNCHANGED inside

Next ==
  \/ \E c \in Client : Enter(c) \/ Wait(c) \/ Leave(c)
  \/ \E S \in SUBSET Standing : GiveUp(S)

Spec == Init /\ [][Next]_<<inside, line>>
=============================================================================
