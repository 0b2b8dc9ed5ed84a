------------------------------- MODULE Queues -------------------------------
(***************************************************************************)
(* The operations on lists the components share: dropping members from an  *)
(* array or an ordered map while the others keep their order, and adding   *)
(* up what a map holds.                                                    *)
(***************************************************************************)
EXTENDS Integers, SequencesExt

(* s without the members of R. *)
Without(s, R) ==
  LET kept[i \in 0 .. Len(s)] ==
        IF i = 0 THEN <<>>
        ELSE IF s[i] \in R THEN kept[i - 1]
        ELSE Append(kept[i - 1], s[i])
  IN  kept[Len(s)]

(* s without all but the members of R. *)
Only(s, R) == Without(s, ToSet(s) \ R)

(* The sum over s of what w gives its members. *)
Weight(w, s) ==
  LET total[i \in 0 .. Len(s)] == IF i = 0 THEN 0 ELSE total[i - 1] + w[s[i]]
  IN  total[Len(s)]
=============================================================================
