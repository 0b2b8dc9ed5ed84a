--------------------------- MODULE MCToolApprovals ---------------------------
(* A small instance of ToolApprovals for TLC. *)
EXTENDS ToolApprovals, TLC

CONSTANTS r1, read, task, s1, s2

(* A tool that asks by default and one that always asks. *)
Policies == read :> "askable" @@ task :> "always"

(* The second definition of a tool is a destructive one. *)
SecondDeletes == [v \in Version |-> v = 2]
Symmetry == Permutations(Session)
=============================================================================
