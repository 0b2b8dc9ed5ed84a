----------------------------- MODULE MCAgentTurn -----------------------------
(* Two turns of one conversation, for TLC. *)
EXTENDS AgentTurn, TLC

CONSTANTS t1, t2, s1

TwoTurns == {t1, t2}
OneConversation == [t \in Turn |-> s1]
=============================================================================
