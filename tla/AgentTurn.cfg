CONSTANTS
  t1 = t1
  t2 = t2
  s1 = s1
  Turn <- TwoTurns
  Conversation = {s1}
  SessionOf <- OneConversation
  NoThread = NoThread
SPECIFICATION AgentFairSpec
INVARIANTS OwnCompletion CompletionKept
PROPERTIES TurnConcludes
