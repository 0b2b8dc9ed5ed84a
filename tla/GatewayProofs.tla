---------------------------- MODULE GatewayProofs ----------------------------
(***************************************************************************)
(* Theorems about Gateway, for any turns, calls, readers, directories and  *)
(* gates and any width of the lane.                                        *)
(*                                                                         *)
(* Inv is inductive.  The properties are not: that an accepted answer      *)
(* decides needs to know that a hold an answer can reach is one whose call *)
(* still waits (HoldInv); that the lane keeps the limiter's promises needs *)
(* its counter to be the number of the calls that run, its queue to be the *)
(* calls that wait, each once, and nobody to wait while a slot is free     *)
(* (LaneInv).                                                              *)
(***************************************************************************)
EXTENDS Gateway, QueuesProofs, FiniteSetTheorems

(* The calls that hold a slot of the lane, and those that wait for one. *)
Inside == {c \in Call : pc[c] = "running" /\ tool[c] \in Worker}
Queued == {c \in Call : pc[c] = "queued"}

(* Where a call has come, as the fields it was given on the way tell. *)
CallInv ==
  \A c \in Call :
    /\ pc[c] # "new" => of[c] \in Turn /\ tool[c] \in Tool
    /\ answer[c] # "none" <=> pc[c] = "answered"
    /\ pc[c] \in {"connecting", "queued"} => tool[c] \in Worker
    /\ pc[c] = "held" => tool[c] \in Gated

(* A hold is pending, has its timer and its listener exactly while its call *)
(* waits for the reader, and no call of an aborted turn waits.              *)
HoldInv ==
  /\ \A c \in Call : /\ c \in pending <=> pc[c] = "held"
                     /\ c \in timers <=> pc[c] = "held"
                     /\ c \in listening <=> pc[c] = "held"
  /\ \A c \in Call : pc[c] \in {"held", "queued"} => ~aborted[of[c]]

(* What was accepted came from the turn's own reader, and is remembered for *)
(* the turn only on such an answer.                                         *)
ConsentInv ==
  /\ \A c \in Call : accepted[c] # NoConsent =>
       /\ pc[c] \in {"running", "answered"}
       /\ accepted[c] \in {Owner[of[c]]} \X Consent
  /\ \A t \in Turn : \A k \in allowed[t] :
       \E d \in Call : /\ pc[d] # "new" /\ of[d] = t /\ tool[d] = k
                       /\ accepted[d] = <<Owner[t], "remembered">>

LaneInv ==
  /\ IsInjective(queue) /\ ToSet(queue) = Queued
  /\ IsFiniteSet(Inside) /\ active = Cardinality(Inside)
  /\ active <= Limit
  /\ queue # <<>> => active = Limit

Inv == /\ TypeOK /\ CallInv /\ HoldInv /\ ConsentInv /\ LaneInv
       /\ AcceptedAnswerDecides /\ ConsentBeforeRun

(* A call that holds a slot is counted. *)
LEMMA SlotCounted ==
  ASSUME LaneInv, NEW c \in Inside
  PROVE  active \in Nat \ {0} /\ IsFiniteSet(Inside \ {c}) /\ Cardinality(Inside \ {c}) = active - 1
<1>1. IsFiniteSet(Inside) /\ active = Cardinality(Inside)
  BY DEF LaneInv
<1>2. Cardinality(Inside) \in Nat /\ Cardinality(Inside) # 0
  BY <1>1, FS_CardinalityType, FS_EmptySet
<1>3. IsFiniteSet(Inside \ {c}) /\ Cardinality(Inside \ {c}) = Cardinality(Inside) - 1
  BY <1>1, FS_RemoveElement
<1> QED
  BY <1>1, <1>2, <1>3

(* Every action keeps the types. *)
LEMMA TypeStep == TypeOK /\ CallInv /\ LaneInv /\ [Next]_vars => TypeOK'
<1> SUFFICES ASSUME TypeOK, CallInv, LaneInv, [Next]_vars PROVE TypeOK'
  OBVIOUS
<1>1. ASSUME UNCHANGED vars PROVE TypeOK'
  BY <1>1 DEF vars, laneVars, TypeOK, CallInv, PC, Answer
<1>2. ASSUME AllDone PROVE TypeOK'
  BY <1>2 DEF AllDone, vars, laneVars, TypeOK, CallInv, PC, Answer
<1>3. ASSUME NEW c \in Call, NEW t \in Turn, NEW k \in Tool, Verify(c, t, k) PROVE TypeOK'
  BY <1>3 DEF Verify, Goes, Answered, turnVars, holdVars, laneVars, TypeOK,
     CallInv, PC, Answer
<1>4. ASSUME NEW c \in Call, Bind(c) PROVE TypeOK'
  <2>1. pc' \in [Call -> PC] /\ answer' \in [Call -> Answer]
    BY <1>4 DEF Bind, Goes, Answered, TypeOK, PC, Answer
  <2> QED
    BY <1>4, <2>1 DEF Bind, turnVars, holdVars, laneVars, TypeOK
<1>5. ASSUME NEW c \in Call, Dispatch(c) PROVE TypeOK'
  BY <1>5 DEF Dispatch, Hold, Goes, Answered, turnVars, holdVars, laneVars,
     TypeOK, CallInv, PC, Answer
<1>6. ASSUME NEW c \in Call, HoldExpires(c) PROVE TypeOK'
  BY <1>6 DEF HoldExpires, Unsettled, Answered, turnVars, laneVars, TypeOK,
     CallInv, PC, Answer
<1>7. ASSUME NEW c \in Call, Acquire(c) PROVE TypeOK'
  <2>1. Append(queue, c) \in Seq(Call)
    BY JoinLast DEF TypeOK
  <2>2. active' \in Nat /\ queue' \in Seq(Call)
    <3>1. active \in Nat /\ queue \in Seq(Call) /\ active + 1 \in Nat
      BY DEF TypeOK
    <3> QED
      BY <1>7, <2>1, <3>1 DEF Acquire, laneVars
  <2> QED
    BY <1>7, <2>2 DEF Acquire, ThrowIfAborted, SlotFree, Goes, Answered,
       turnVars, holdVars, laneVars, TypeOK, CallInv, PC, Answer
<1>8. ASSUME NEW c \in Call, ToolEnds(c) PROVE TypeOK'
  <2>1. queue # <<>> => Tail(queue) \in Seq(Call)
    BY LeaveFirst DEF TypeOK
  <2>2. tool[c] \in Worker => active - 1 \in Nat
    <3>1. tool[c] \in Worker => c \in Inside
      BY <1>8 DEF ToolEnds, Inside
    <3>2. c \in Inside => active \in Nat \ {0}
      BY SlotCounted
    <3> QED
      BY <3>1, <3>2
  <2>3. active' \in Nat /\ queue' \in Seq(Call)
    BY <1>8, <2>1, <2>2 DEF ToolEnds, ReleaseSlot, laneVars, TypeOK
  <2> QED
    BY <1>8, <2>3 DEF ToolEnds, ReleaseSlot, Admitted, Answered, turnVars,
       holdVars, laneVars, TypeOK, CallInv, PC, Answer
<1>9. ASSUME NEW c \in Call, ConnectFails(c) PROVE TypeOK'
  BY <1>9 DEF ConnectFails, Answered, turnVars, holdVars, laneVars, TypeOK,
     CallInv, PC, Answer
<1>10. ASSUME NEW r \in Reader, NEW c \in Call, NEW v \in Consent, AnswerHold(r, c, v) PROVE TypeOK'
  <2>1. accepted' \in [Call -> {NoConsent} \cup (Reader \X Consent)]
    BY <1>10 DEF AnswerHold, TypeOK
  <2>2. pc' \in [Call -> PC] /\ answer' \in [Call -> Answer]
    BY <1>10 DEF AnswerHold, Consented, Goes, Answered, TypeOK, PC, Answer
  <2>3. allowed' \in [Turn -> SUBSET Gated]
    BY <1>10 DEF AnswerHold, Consented, Goes, TypeOK, CallInv
  <2> QED
    BY <1>10, <2>1, <2>2, <2>3 DEF AnswerHold, Unsettled, turnVars, laneVars, TypeOK
<1>11. ASSUME NEW t \in Turn, OpenTurn(t) PROVE TypeOK'
  BY <1>11 DEF OpenTurn, holdVars, laneVars, TypeOK, CallInv, PC, Answer
<1>12. ASSUME NEW t \in Turn, Expiry(t) PROVE TypeOK'
  BY <1>12 DEF Expiry, holdVars, laneVars, TypeOK, CallInv, PC, Answer
<1>13. ASSUME NEW t \in Turn, Stop(t) PROVE TypeOK'
  <2>1. Without(queue, Waiters(t)) \in Seq(Call)
    BY WithoutProperties DEF TypeOK
  <2> QED
    BY <1>13, <2>1 DEF Stop, Signal, Unsettled, Abandon, Waiters, Expire,
       holdVars, laneVars, TypeOK, CallInv, PC, Answer
<1>14. ASSUME NEW t \in Turn, EndTurn(t) PROVE TypeOK'
  <2>1. Without(queue, Waiters(t)) \in Seq(Call)
    BY WithoutProperties DEF TypeOK
  <2> QED
    BY <1>14, <2>1 DEF EndTurn, Signal, Unsettled, Abandon, Waiters, Expire,
       holdVars, laneVars, TypeOK, CallInv, PC, Answer
<1> QED
  BY <1>1, <1>2, <1>3, <1>4, <1>5, <1>6, <1>7, <1>8, <1>9, <1>10, <1>11,
     <1>12, <1>13, <1>14 DEF Next, CallStep

(* Every action keeps CallInv. *)
LEMMA CallsStep == TypeOK /\ CallInv /\ HoldInv /\ [Next]_vars => CallInv'
<1> SUFFICES ASSUME TypeOK, CallInv, HoldInv, [Next]_vars PROVE CallInv'
  OBVIOUS
<1>1. ASSUME UNCHANGED vars PROVE CallInv'
  BY <1>1 DEF vars, laneVars, TypeOK, CallInv, HoldInv, PC, Answer, Tool
<1>2. ASSUME AllDone PROVE CallInv'
  BY <1>2 DEF AllDone, vars, laneVars, TypeOK, CallInv, HoldInv, PC, Answer,
     Tool
<1>3. ASSUME NEW c \in Call, NEW t \in Turn, NEW k \in Tool, Verify(c, t, k) PROVE CallInv'
  BY <1>3 DEF Verify, Goes, Answered, turnVars, holdVars, laneVars, TypeOK,
     CallInv, HoldInv, PC, Answer, Tool
<1>4. ASSUME NEW c \in Call, Bind(c) PROVE CallInv'
  BY <1>4 DEF Bind, Goes, Answered, turnVars, holdVars, laneVars, TypeOK,
     CallInv, HoldInv, PC, Answer, Tool
<1>5. ASSUME NEW c \in Call, Dispatch(c) PROVE CallInv'
  BY <1>5 DEF Dispatch, Hold, Goes, Answered, turnVars, holdVars, laneVars,
     TypeOK, CallInv, HoldInv, PC, Answer, Tool
<1>6. ASSUME NEW c \in Call, HoldExpires(c) PROVE CallInv'
  BY <1>6 DEF HoldExpires, Unsettled, Answered, turnVars, laneVars, TypeOK,
     CallInv, HoldInv, PC, Answer, Tool
<1>7. ASSUME NEW c \in Call, Acquire(c) PROVE CallInv'
  BY <1>7 DEF Acquire, ThrowIfAborted, SlotFree, Goes, Answered, turnVars,
     holdVars, laneVars, TypeOK, CallInv, HoldInv, PC, Answer, Tool
<1>8. ASSUME NEW c \in Call, ToolEnds(c) PROVE CallInv'
  BY <1>8 DEF ToolEnds, ReleaseSlot, Admitted, Answered, turnVars, holdVars,
     laneVars, TypeOK, CallInv, HoldInv, PC, Answer, Tool
<1>9. ASSUME NEW c \in Call, ConnectFails(c) PROVE CallInv'
  BY <1>9 DEF ConnectFails, Answered, turnVars, holdVars, laneVars, TypeOK,
     CallInv, HoldInv, PC, Answer, Tool
<1>10. ASSUME NEW r \in Reader, NEW c \in Call, NEW v \in Consent, AnswerHold(r, c, v) PROVE CallInv'
  BY <1>10 DEF AnswerHold, Unsettled, Consented, Goes, Answered, turnVars,
     laneVars, TypeOK, CallInv, HoldInv, PC, Answer, Tool
<1>11. ASSUME NEW t \in Turn, OpenTurn(t) PROVE CallInv'
  BY <1>11 DEF OpenTurn, holdVars, laneVars, TypeOK, CallInv, HoldInv, PC,
     Answer, Tool
<1>12. ASSUME NEW t \in Turn, Expiry(t) PROVE CallInv'
  BY <1>12 DEF Expiry, holdVars, laneVars, TypeOK, CallInv, HoldInv, PC,
     Answer, Tool
<1>13. ASSUME NEW t \in Turn, Stop(t) PROVE CallInv'
  BY <1>13 DEF Stop, Signal, Unsettled, Abandon, Waiters, Expire, holdVars,
     laneVars, TypeOK, CallInv, HoldInv, PC, Answer, Tool
<1>14. ASSUME NEW t \in Turn, EndTurn(t) PROVE CallInv'
  BY <1>14 DEF EndTurn, Signal, Unsettled, Abandon, Waiters, Expire, holdVars,
     laneVars, TypeOK, CallInv, HoldInv, PC, Answer, Tool
<1> QED
  BY <1>1, <1>2, <1>3, <1>4, <1>5, <1>6, <1>7, <1>8, <1>9, <1>10, <1>11,
     <1>12, <1>13, <1>14 DEF Next, CallStep

(* Every action keeps HoldInv. *)
LEMMA HoldsStep == TypeOK /\ CallInv /\ HoldInv /\ [Next]_vars => HoldInv'
<1> SUFFICES ASSUME TypeOK, CallInv, HoldInv, [Next]_vars PROVE HoldInv'
  OBVIOUS
<1>1. ASSUME UNCHANGED vars PROVE HoldInv'
  BY <1>1 DEF vars, laneVars, TypeOK, CallInv, HoldInv, PC, Answer
<1>2. ASSUME AllDone PROVE HoldInv'
  BY <1>2 DEF AllDone, vars, laneVars, TypeOK, CallInv, HoldInv, PC, Answer
<1>3. ASSUME NEW c \in Call, NEW t \in Turn, NEW k \in Tool, Verify(c, t, k) PROVE HoldInv'
  BY <1>3 DEF Verify, Goes, Answered, turnVars, holdVars, laneVars, TypeOK,
     CallInv, HoldInv, PC, Answer
<1>4. ASSUME NEW c \in Call, Bind(c) PROVE HoldInv'
  BY <1>4 DEF Bind, Goes, Answered, turnVars, holdVars, laneVars, TypeOK,
     CallInv, HoldInv, PC, Answer
<1>5. ASSUME NEW c \in Call, Dispatch(c) PROVE HoldInv'
  BY <1>5 DEF Dispatch, Hold, Goes, Answered, turnVars, holdVars, laneVars,
     TypeOK, CallInv, HoldInv, PC, Answer
<1>6. ASSUME NEW c \in Call, HoldExpires(c) PROVE HoldInv'
  BY <1>6 DEF HoldExpires, Unsettled, Answered, turnVars, laneVars, TypeOK,
     CallInv, HoldInv, PC, Answer
<1>7. ASSUME NEW c \in Call, Acquire(c) PROVE HoldInv'
  BY <1>7 DEF Acquire, ThrowIfAborted, SlotFree, Goes, Answered, turnVars,
     holdVars, laneVars, TypeOK, CallInv, HoldInv, PC, Answer
<1>8. ASSUME NEW c \in Call, ToolEnds(c) PROVE HoldInv'
  BY <1>8 DEF ToolEnds, ReleaseSlot, Admitted, Answered, turnVars, holdVars,
     laneVars, TypeOK, CallInv, HoldInv, PC, Answer
<1>9. ASSUME NEW c \in Call, ConnectFails(c) PROVE HoldInv'
  BY <1>9 DEF ConnectFails, Answered, turnVars, holdVars, laneVars, TypeOK,
     CallInv, HoldInv, PC, Answer
<1>10. ASSUME NEW r \in Reader, NEW c \in Call, NEW v \in Consent, AnswerHold(r, c, v) PROVE HoldInv'
  BY <1>10 DEF AnswerHold, Unsettled, Consented, Goes, Answered, turnVars,
     laneVars, TypeOK, CallInv, HoldInv, PC, Answer
<1>11. ASSUME NEW t \in Turn, OpenTurn(t) PROVE HoldInv'
  BY <1>11 DEF OpenTurn, holdVars, laneVars, TypeOK, CallInv, HoldInv, PC,
     Answer
<1>12. ASSUME NEW t \in Turn, Expiry(t) PROVE HoldInv'
  BY <1>12 DEF Expiry, holdVars, laneVars, TypeOK, CallInv, HoldInv, PC,
     Answer
<1>13. ASSUME NEW t \in Turn, Stop(t) PROVE HoldInv'
  BY <1>13 DEF Stop, Signal, Unsettled, Abandon, Waiters, Expire, holdVars,
     laneVars, TypeOK, CallInv, HoldInv, PC, Answer
<1>14. ASSUME NEW t \in Turn, EndTurn(t) PROVE HoldInv'
  BY <1>14 DEF EndTurn, Signal, Unsettled, Abandon, Waiters, Expire, holdVars,
     laneVars, TypeOK, CallInv, HoldInv, PC, Answer
<1> QED
  BY <1>1, <1>2, <1>3, <1>4, <1>5, <1>6, <1>7, <1>8, <1>9, <1>10, <1>11,
     <1>12, <1>13, <1>14 DEF Next, CallStep

(* A call whose tool the gate asks about, when it runs or has run. *)
Ran(c) == pc[c] = "running" \/ answer[c] = "result"

(* What a step may do to consent: it keeps every answer, it adds to what a  *)
(* turn remembers only on its reader's answer, and it starts a call only    *)
(* where the gate lets it run, on what is remembered or on such an answer.  *)
KeepsAnswers ==
  \A c \in Call : accepted[c] # NoConsent =>
    /\ of'[c] = of[c] /\ tool'[c] = tool[c] /\ accepted'[c] = accepted[c]
    /\ pc'[c] \in {"running", "answered"}
AcceptsOwners ==
  \A c \in Call : accepted'[c] # accepted[c] =>
    /\ of'[c] = of[c] /\ accepted'[c] \in {Owner[of[c]]} \X Consent
    /\ pc'[c] \in {"running", "answered"}
KeepsNames ==
  \A c \in Call : pc[c] # "new" => pc'[c] # "new" /\ of'[c] = of[c] /\ tool'[c] = tool[c]
RemembersConsent ==
  \A t \in Turn : \A k \in allowed'[t] : k \in allowed[t] \/
    \E c \in Call : /\ pc[c] # "new" /\ of[c] = t /\ tool[c] = k
                    /\ accepted'[c] = <<Owner[t], "remembered">>
StartsOnConsent ==
  \A c \in Call : Ran(c)' => Ran(c) \/
    /\ pc[c] # "new"
    /\ tool[c] \in Gated /\ Gate[of[c]][tool[c]] = "ask" =>
         \/ tool[c] \in allowed[of[c]]
         \/ accepted'[c] \in {<<Owner[of[c]], "approved">>, <<Owner[of[c]], "remembered">>}

(* Every action keeps the answers that were accepted. *)
LEMMA KeepsAnswersStep == TypeOK /\ CallInv /\ HoldInv /\ ConsentInv /\ [Next]_vars => KeepsAnswers
<1> SUFFICES ASSUME TypeOK, CallInv, HoldInv, ConsentInv, [Next]_vars PROVE KeepsAnswers
  OBVIOUS
<1>1. ASSUME UNCHANGED vars PROVE KeepsAnswers
  BY <1>1 DEF vars, laneVars, TypeOK, HoldInv, ConsentInv, KeepsAnswers, PC
<1>2. ASSUME AllDone PROVE KeepsAnswers
  BY <1>2 DEF AllDone, vars, laneVars, TypeOK, HoldInv, ConsentInv,
     KeepsAnswers, PC
<1>3. ASSUME NEW c \in Call, NEW t \in Turn, NEW k \in Tool, Verify(c, t, k) PROVE KeepsAnswers
  BY <1>3 DEF Verify, Goes, Answered, turnVars, holdVars, laneVars, TypeOK,
     HoldInv, ConsentInv, KeepsAnswers, PC
<1>4. ASSUME NEW c \in Call, Bind(c) PROVE KeepsAnswers
  BY <1>4 DEF Bind, Goes, Answered, turnVars, holdVars, laneVars, TypeOK,
     HoldInv, ConsentInv, KeepsAnswers, PC
<1>5. ASSUME NEW c \in Call, Dispatch(c) PROVE KeepsAnswers
  BY <1>5 DEF Dispatch, Hold, Goes, Answered, turnVars, holdVars, laneVars,
     TypeOK, HoldInv, ConsentInv, KeepsAnswers, PC
<1>6. ASSUME NEW c \in Call, HoldExpires(c) PROVE KeepsAnswers
  BY <1>6 DEF HoldExpires, Unsettled, Answered, turnVars, laneVars, TypeOK,
     HoldInv, ConsentInv, KeepsAnswers, PC
<1>7. ASSUME NEW c \in Call, Acquire(c) PROVE KeepsAnswers
  BY <1>7 DEF Acquire, ThrowIfAborted, SlotFree, Goes, Answered, turnVars,
     holdVars, laneVars, TypeOK, HoldInv, ConsentInv, KeepsAnswers, PC
<1>8. ASSUME NEW c \in Call, ToolEnds(c) PROVE KeepsAnswers
  BY <1>8 DEF ToolEnds, ReleaseSlot, Admitted, Answered, turnVars, holdVars,
     laneVars, TypeOK, HoldInv, ConsentInv, KeepsAnswers, PC
<1>9. ASSUME NEW c \in Call, ConnectFails(c) PROVE KeepsAnswers
  BY <1>9 DEF ConnectFails, Answered, turnVars, holdVars, laneVars, TypeOK,
     HoldInv, ConsentInv, KeepsAnswers, PC
<1>10. ASSUME NEW r \in Reader, NEW c \in Call, NEW v \in Consent, AnswerHold(r, c, v) PROVE KeepsAnswers
  BY <1>10 DEF AnswerHold, Unsettled, Consented, Goes, Answered, turnVars,
     laneVars, TypeOK, HoldInv, ConsentInv, KeepsAnswers, PC
<1>11. ASSUME NEW t \in Turn, OpenTurn(t) PROVE KeepsAnswers
  BY <1>11 DEF OpenTurn, holdVars, laneVars, TypeOK, HoldInv, ConsentInv,
     KeepsAnswers, PC
<1>12. ASSUME NEW t \in Turn, Expiry(t) PROVE KeepsAnswers
  BY <1>12 DEF Expiry, holdVars, laneVars, TypeOK, HoldInv, ConsentInv,
     KeepsAnswers, PC
<1>13. ASSUME NEW t \in Turn, Stop(t) PROVE KeepsAnswers
  BY <1>13 DEF Stop, Signal, Unsettled, Abandon, Waiters, Expire, holdVars,
     laneVars, TypeOK, HoldInv, ConsentInv, KeepsAnswers, PC
<1>14. ASSUME NEW t \in Turn, EndTurn(t) PROVE KeepsAnswers
  BY <1>14 DEF EndTurn, Signal, Unsettled, Abandon, Waiters, Expire, holdVars,
     laneVars, TypeOK, HoldInv, ConsentInv, KeepsAnswers, PC
<1> QED
  BY <1>1, <1>2, <1>3, <1>4, <1>5, <1>6, <1>7, <1>8, <1>9, <1>10, <1>11,
     <1>12, <1>13, <1>14 DEF Next, CallStep

(* A call is named once. *)
LEMMA KeepsNamesStep == TypeOK /\ CallInv /\ HoldInv /\ ConsentInv /\ [Next]_vars => KeepsNames
<1> SUFFICES ASSUME TypeOK, CallInv, HoldInv, ConsentInv, [Next]_vars PROVE KeepsNames
  OBVIOUS
<1>1. ASSUME UNCHANGED vars PROVE KeepsNames
  BY <1>1 DEF vars, laneVars, TypeOK, KeepsNames, PC
<1>2. ASSUME AllDone PROVE KeepsNames
  BY <1>2 DEF AllDone, vars, laneVars, TypeOK, KeepsNames, PC
<1>3. ASSUME NEW c \in Call, NEW t \in Turn, NEW k \in Tool, Verify(c, t, k) PROVE KeepsNames
  BY <1>3 DEF Verify, Goes, Answered, turnVars, holdVars, laneVars, TypeOK,
     KeepsNames, PC
<1>4. ASSUME NEW c \in Call, Bind(c) PROVE KeepsNames
  BY <1>4 DEF Bind, Goes, Answered, turnVars, holdVars, laneVars, TypeOK,
     KeepsNames, PC
<1>5. ASSUME NEW c \in Call, Dispatch(c) PROVE KeepsNames
  BY <1>5 DEF Dispatch, Hold, Goes, Answered, turnVars, holdVars, laneVars,
     TypeOK, KeepsNames, PC
<1>6. ASSUME NEW c \in Call, HoldExpires(c) PROVE KeepsNames
  BY <1>6 DEF HoldExpires, Unsettled, Answered, turnVars, laneVars, TypeOK,
     KeepsNames, PC
<1>7. ASSUME NEW c \in Call, Acquire(c) PROVE KeepsNames
  BY <1>7 DEF Acquire, ThrowIfAborted, SlotFree, Goes, Answered, turnVars,
     holdVars, laneVars, TypeOK, KeepsNames, PC
<1>8. ASSUME NEW c \in Call, ToolEnds(c) PROVE KeepsNames
  BY <1>8 DEF ToolEnds, ReleaseSlot, Admitted, Answered, turnVars, holdVars,
     laneVars, TypeOK, KeepsNames, PC
<1>9. ASSUME NEW c \in Call, ConnectFails(c) PROVE KeepsNames
  BY <1>9 DEF ConnectFails, Answered, turnVars, holdVars, laneVars, TypeOK,
     KeepsNames, PC
<1>10. ASSUME NEW r \in Reader, NEW c \in Call, NEW v \in Consent, AnswerHold(r, c, v) PROVE KeepsNames
  BY <1>10 DEF AnswerHold, Unsettled, Consented, Goes, Answered, turnVars,
     laneVars, TypeOK, KeepsNames, PC
<1>11. ASSUME NEW t \in Turn, OpenTurn(t) PROVE KeepsNames
  BY <1>11 DEF OpenTurn, holdVars, laneVars, TypeOK, KeepsNames, PC
<1>12. ASSUME NEW t \in Turn, Expiry(t) PROVE KeepsNames
  BY <1>12 DEF Expiry, holdVars, laneVars, TypeOK, KeepsNames, PC
<1>13. ASSUME NEW t \in Turn, Stop(t) PROVE KeepsNames
  BY <1>13 DEF Stop, Signal, Unsettled, Abandon, Waiters, Expire, holdVars,
     laneVars, TypeOK, KeepsNames, PC
<1>14. ASSUME NEW t \in Turn, EndTurn(t) PROVE KeepsNames
  BY <1>14 DEF EndTurn, Signal, Unsettled, Abandon, Waiters, Expire, holdVars,
     laneVars, TypeOK, KeepsNames, PC
<1> QED
  BY <1>1, <1>2, <1>3, <1>4, <1>5, <1>6, <1>7, <1>8, <1>9, <1>10, <1>11,
     <1>12, <1>13, <1>14 DEF Next, CallStep

(* Every action remembers only what the reader asked to. *)
LEMMA RemembersStep == TypeOK /\ CallInv /\ HoldInv /\ ConsentInv /\ [Next]_vars => RemembersConsent
<1> SUFFICES ASSUME TypeOK, CallInv, HoldInv, ConsentInv, [Next]_vars PROVE RemembersConsent
  OBVIOUS
<1>1. ASSUME UNCHANGED vars PROVE RemembersConsent
  BY <1>1 DEF vars, laneVars, TypeOK, CallInv, HoldInv, RemembersConsent
<1>2. ASSUME AllDone PROVE RemembersConsent
  BY <1>2 DEF AllDone, vars, laneVars, TypeOK, CallInv, HoldInv,
     RemembersConsent
<1>3. ASSUME NEW c \in Call, NEW t \in Turn, NEW k \in Tool, Verify(c, t, k) PROVE RemembersConsent
  BY <1>3 DEF Verify, Goes, Answered, turnVars, holdVars, laneVars, TypeOK,
     CallInv, HoldInv, RemembersConsent
<1>4. ASSUME NEW c \in Call, Bind(c) PROVE RemembersConsent
  BY <1>4 DEF Bind, Goes, Answered, turnVars, holdVars, laneVars, TypeOK,
     CallInv, HoldInv, RemembersConsent
<1>5. ASSUME NEW c \in Call, Dispatch(c) PROVE RemembersConsent
  BY <1>5 DEF Dispatch, Hold, Goes, Answered, turnVars, holdVars, laneVars,
     TypeOK, CallInv, HoldInv, RemembersConsent
<1>6. ASSUME NEW c \in Call, HoldExpires(c) PROVE RemembersConsent
  BY <1>6 DEF HoldExpires, Unsettled, Answered, turnVars, laneVars, TypeOK,
     CallInv, HoldInv, RemembersConsent
<1>7. ASSUME NEW c \in Call, Acquire(c) PROVE RemembersConsent
  BY <1>7 DEF Acquire, ThrowIfAborted, SlotFree, Goes, Answered, turnVars,
     holdVars, laneVars, TypeOK, CallInv, HoldInv, RemembersConsent
<1>8. ASSUME NEW c \in Call, ToolEnds(c) PROVE RemembersConsent
  BY <1>8 DEF ToolEnds, ReleaseSlot, Admitted, Answered, turnVars, holdVars,
     laneVars, TypeOK, CallInv, HoldInv, RemembersConsent
<1>9. ASSUME NEW c \in Call, ConnectFails(c) PROVE RemembersConsent
  BY <1>9 DEF ConnectFails, Answered, turnVars, holdVars, laneVars, TypeOK,
     CallInv, HoldInv, RemembersConsent
<1>10. ASSUME NEW r \in Reader, NEW c \in Call, NEW v \in Consent, AnswerHold(r, c, v) PROVE RemembersConsent
  BY <1>10 DEF AnswerHold, Unsettled, Consented, Goes, Answered, turnVars,
     laneVars, TypeOK, CallInv, HoldInv, RemembersConsent
<1>11. ASSUME NEW t \in Turn, OpenTurn(t) PROVE RemembersConsent
  BY <1>11 DEF OpenTurn, holdVars, laneVars, TypeOK, CallInv, HoldInv,
     RemembersConsent
<1>12. ASSUME NEW t \in Turn, Expiry(t) PROVE RemembersConsent
  BY <1>12 DEF Expiry, holdVars, laneVars, TypeOK, CallInv, HoldInv,
     RemembersConsent
<1>13. ASSUME NEW t \in Turn, Stop(t) PROVE RemembersConsent
  BY <1>13 DEF Stop, Signal, Unsettled, Abandon, Waiters, Expire, holdVars,
     laneVars, TypeOK, CallInv, HoldInv, RemembersConsent
<1>14. ASSUME NEW t \in Turn, EndTurn(t) PROVE RemembersConsent
  BY <1>14 DEF EndTurn, Signal, Unsettled, Abandon, Waiters, Expire, holdVars,
     laneVars, TypeOK, CallInv, HoldInv, RemembersConsent
<1> QED
  BY <1>1, <1>2, <1>3, <1>4, <1>5, <1>6, <1>7, <1>8, <1>9, <1>10, <1>11,
     <1>12, <1>13, <1>14 DEF Next, CallStep

(* Every action starts calls only on consent. *)
LEMMA StartsStep == TypeOK /\ CallInv /\ HoldInv /\ ConsentInv /\ [Next]_vars => StartsOnConsent
<1> SUFFICES ASSUME TypeOK, CallInv, HoldInv, ConsentInv, [Next]_vars PROVE StartsOnConsent
  OBVIOUS
<1>1. ASSUME UNCHANGED vars PROVE StartsOnConsent
  BY <1>1 DEF vars, laneVars, TypeOK, CallInv, HoldInv, StartsOnConsent, Ran,
     PC, Answer, Consent
<1>2. ASSUME AllDone PROVE StartsOnConsent
  BY <1>2 DEF AllDone, vars, laneVars, TypeOK, CallInv, HoldInv,
     StartsOnConsent, Ran, PC, Answer, Consent
<1>3. ASSUME NEW c \in Call, NEW t \in Turn, NEW k \in Tool, Verify(c, t, k) PROVE StartsOnConsent
  BY <1>3 DEF Verify, Goes, Answered, turnVars, holdVars, laneVars, TypeOK,
     CallInv, HoldInv, StartsOnConsent, Ran, PC, Answer, Consent
<1>4. ASSUME NEW c \in Call, Bind(c) PROVE StartsOnConsent
  BY <1>4 DEF Bind, Goes, Answered, turnVars, holdVars, laneVars, TypeOK,
     CallInv, HoldInv, StartsOnConsent, Ran, PC, Answer, Consent
<1>5. ASSUME NEW c \in Call, Dispatch(c) PROVE StartsOnConsent
  BY <1>5 DEF Dispatch, Hold, Goes, Answered, turnVars, holdVars, laneVars,
     TypeOK, CallInv, HoldInv, StartsOnConsent, Ran, PC, Answer, Consent
<1>6. ASSUME NEW c \in Call, HoldExpires(c) PROVE StartsOnConsent
  BY <1>6 DEF HoldExpires, Unsettled, Answered, turnVars, laneVars, TypeOK,
     CallInv, HoldInv, StartsOnConsent, Ran, PC, Answer, Consent
<1>7. ASSUME NEW c \in Call, Acquire(c) PROVE StartsOnConsent
  BY <1>7, TurnAssumption DEF Acquire, ThrowIfAborted, SlotFree, Goes,
     Answered, turnVars, holdVars, laneVars, TypeOK, CallInv, HoldInv,
     StartsOnConsent, Ran, PC, Answer, Consent
<1>8. ASSUME NEW c \in Call, ToolEnds(c) PROVE StartsOnConsent
  BY <1>8, TurnAssumption DEF ToolEnds, ReleaseSlot, Admitted, Answered,
     turnVars, holdVars, laneVars, TypeOK, CallInv, HoldInv, StartsOnConsent,
     Ran, PC, Answer, Consent
<1>9. ASSUME NEW c \in Call, ConnectFails(c) PROVE StartsOnConsent
  BY <1>9 DEF ConnectFails, Answered, turnVars, holdVars, laneVars, TypeOK,
     CallInv, HoldInv, StartsOnConsent, Ran, PC, Answer, Consent
<1>10. ASSUME NEW r \in Reader, NEW c \in Call, NEW v \in Consent, AnswerHold(r, c, v) PROVE StartsOnConsent
  BY <1>10 DEF AnswerHold, Unsettled, Consented, Goes, Answered, turnVars,
     laneVars, TypeOK, CallInv, HoldInv, StartsOnConsent, Ran, PC, Answer,
     Consent
<1>11. ASSUME NEW t \in Turn, OpenTurn(t) PROVE StartsOnConsent
  BY <1>11 DEF OpenTurn, holdVars, laneVars, TypeOK, CallInv, HoldInv,
     StartsOnConsent, Ran, PC, Answer, Consent
<1>12. ASSUME NEW t \in Turn, Expiry(t) PROVE StartsOnConsent
  BY <1>12 DEF Expiry, holdVars, laneVars, TypeOK, CallInv, HoldInv,
     StartsOnConsent, Ran, PC, Answer, Consent
<1>13. ASSUME NEW t \in Turn, Stop(t) PROVE StartsOnConsent
  BY <1>13 DEF Stop, Signal, Unsettled, Abandon, Waiters, Expire, holdVars,
     laneVars, TypeOK, CallInv, HoldInv, StartsOnConsent, Ran, PC, Answer,
     Consent
<1>14. ASSUME NEW t \in Turn, EndTurn(t) PROVE StartsOnConsent
  BY <1>14 DEF EndTurn, Signal, Unsettled, Abandon, Waiters, Expire, holdVars,
     laneVars, TypeOK, CallInv, HoldInv, StartsOnConsent, Ran, PC, Answer,
     Consent
<1> QED
  BY <1>1, <1>2, <1>3, <1>4, <1>5, <1>6, <1>7, <1>8, <1>9, <1>10, <1>11,
     <1>12, <1>13, <1>14 DEF Next, CallStep

(* Every action accepts only the answer of the turn's reader. *)
LEMMA AcceptsStep == TypeOK /\ CallInv /\ HoldInv /\ ConsentInv /\ [Next]_vars => AcceptsOwners
<1> SUFFICES ASSUME TypeOK, CallInv, HoldInv, ConsentInv, [Next]_vars PROVE AcceptsOwners
  OBVIOUS
<1>1. ASSUME UNCHANGED vars PROVE AcceptsOwners
  BY <1>1 DEF vars, laneVars, TypeOK, CallInv, HoldInv, AcceptsOwners, PC,
     Consent
<1>2. ASSUME AllDone PROVE AcceptsOwners
  BY <1>2 DEF AllDone, vars, laneVars, TypeOK, CallInv, HoldInv,
     AcceptsOwners, PC, Consent
<1>3. ASSUME NEW c \in Call, NEW t \in Turn, NEW k \in Tool, Verify(c, t, k) PROVE AcceptsOwners
  BY <1>3 DEF Verify, Goes, Answered, turnVars, holdVars, laneVars, TypeOK,
     CallInv, HoldInv, AcceptsOwners, PC, Consent
<1>4. ASSUME NEW c \in Call, Bind(c) PROVE AcceptsOwners
  BY <1>4 DEF Bind, Goes, Answered, turnVars, holdVars, laneVars, TypeOK,
     CallInv, HoldInv, AcceptsOwners, PC, Consent
<1>5. ASSUME NEW c \in Call, Dispatch(c) PROVE AcceptsOwners
  BY <1>5 DEF Dispatch, Hold, Goes, Answered, turnVars, holdVars, laneVars,
     TypeOK, CallInv, HoldInv, AcceptsOwners, PC, Consent
<1>6. ASSUME NEW c \in Call, HoldExpires(c) PROVE AcceptsOwners
  BY <1>6 DEF HoldExpires, Unsettled, Answered, turnVars, laneVars, TypeOK,
     CallInv, HoldInv, AcceptsOwners, PC, Consent
<1>7. ASSUME NEW c \in Call, Acquire(c) PROVE AcceptsOwners
  BY <1>7 DEF Acquire, ThrowIfAborted, SlotFree, Goes, Answered, turnVars,
     holdVars, laneVars, TypeOK, CallInv, HoldInv, AcceptsOwners, PC, Consent
<1>8. ASSUME NEW c \in Call, ToolEnds(c) PROVE AcceptsOwners
  BY <1>8 DEF ToolEnds, ReleaseSlot, Admitted, Answered, turnVars, holdVars,
     laneVars, TypeOK, CallInv, HoldInv, AcceptsOwners, PC, Consent
<1>9. ASSUME NEW c \in Call, ConnectFails(c) PROVE AcceptsOwners
  BY <1>9 DEF ConnectFails, Answered, turnVars, holdVars, laneVars, TypeOK,
     CallInv, HoldInv, AcceptsOwners, PC, Consent
<1>10. ASSUME NEW r \in Reader, NEW c \in Call, NEW v \in Consent, AnswerHold(r, c, v) PROVE AcceptsOwners
  BY <1>10 DEF AnswerHold, Unsettled, Consented, Goes, Answered, turnVars,
     laneVars, TypeOK, CallInv, HoldInv, AcceptsOwners, PC, Consent
<1>11. ASSUME NEW t \in Turn, OpenTurn(t) PROVE AcceptsOwners
  BY <1>11 DEF OpenTurn, holdVars, laneVars, TypeOK, CallInv, HoldInv,
     AcceptsOwners, PC, Consent
<1>12. ASSUME NEW t \in Turn, Expiry(t) PROVE AcceptsOwners
  BY <1>12 DEF Expiry, holdVars, laneVars, TypeOK, CallInv, HoldInv,
     AcceptsOwners, PC, Consent
<1>13. ASSUME NEW t \in Turn, Stop(t) PROVE AcceptsOwners
  BY <1>13 DEF Stop, Signal, Unsettled, Abandon, Waiters, Expire, holdVars,
     laneVars, TypeOK, CallInv, HoldInv, AcceptsOwners, PC, Consent
<1>14. ASSUME NEW t \in Turn, EndTurn(t) PROVE AcceptsOwners
  BY <1>14 DEF EndTurn, Signal, Unsettled, Abandon, Waiters, Expire, holdVars,
     laneVars, TypeOK, CallInv, HoldInv, AcceptsOwners, PC, Consent
<1> QED
  BY <1>1, <1>2, <1>3, <1>4, <1>5, <1>6, <1>7, <1>8, <1>9, <1>10, <1>11,
     <1>12, <1>13, <1>14 DEF Next, CallStep

(* Every action keeps AcceptedAnswerDecides. *)
LEMMA AcceptedStep == TypeOK /\ CallInv /\ HoldInv /\ ConsentInv /\ AcceptedAnswerDecides /\ [Next]_vars => AcceptedAnswerDecides'
<1> SUFFICES ASSUME TypeOK, CallInv, HoldInv, ConsentInv, AcceptedAnswerDecides, [Next]_vars PROVE AcceptedAnswerDecides'
  OBVIOUS
<1>1. ASSUME UNCHANGED vars PROVE AcceptedAnswerDecides'
  BY <1>1 DEF vars, laneVars, TypeOK, CallInv, HoldInv, ConsentInv, PC,
     Answer, Tool, Consent, NoConsent, AcceptedAnswerDecides
<1>2. ASSUME AllDone PROVE AcceptedAnswerDecides'
  BY <1>2 DEF AllDone, vars, laneVars, TypeOK, CallInv, HoldInv, ConsentInv,
     PC, Answer, Tool, Consent, NoConsent, AcceptedAnswerDecides
<1>3. ASSUME NEW c \in Call, NEW t \in Turn, NEW k \in Tool, Verify(c, t, k) PROVE AcceptedAnswerDecides'
  BY <1>3 DEF Verify, Goes, Answered, turnVars, holdVars, laneVars, TypeOK,
     CallInv, HoldInv, ConsentInv, PC, Answer, Tool, Consent, NoConsent,
     AcceptedAnswerDecides
<1>4. ASSUME NEW c \in Call, Bind(c) PROVE AcceptedAnswerDecides'
  BY <1>4 DEF Bind, Goes, Answered, turnVars, holdVars, laneVars, TypeOK,
     CallInv, HoldInv, ConsentInv, PC, Answer, Tool, Consent, NoConsent,
     AcceptedAnswerDecides
<1>5. ASSUME NEW c \in Call, Dispatch(c) PROVE AcceptedAnswerDecides'
  BY <1>5 DEF Dispatch, Hold, Goes, Answered, turnVars, holdVars, laneVars,
     TypeOK, CallInv, HoldInv, ConsentInv, PC, Answer, Tool, Consent,
     NoConsent, AcceptedAnswerDecides
<1>6. ASSUME NEW c \in Call, HoldExpires(c) PROVE AcceptedAnswerDecides'
  BY <1>6 DEF HoldExpires, Unsettled, Answered, turnVars, laneVars, TypeOK,
     CallInv, HoldInv, ConsentInv, PC, Answer, Tool, Consent, NoConsent,
     AcceptedAnswerDecides
<1>7. ASSUME NEW c \in Call, Acquire(c) PROVE AcceptedAnswerDecides'
  BY <1>7 DEF Acquire, ThrowIfAborted, SlotFree, Goes, Answered, turnVars,
     holdVars, laneVars, TypeOK, CallInv, HoldInv, ConsentInv, PC, Answer,
     Tool, Consent, NoConsent, AcceptedAnswerDecides
<1>8. ASSUME NEW c \in Call, ToolEnds(c) PROVE AcceptedAnswerDecides'
  BY <1>8 DEF ToolEnds, ReleaseSlot, Admitted, Answered, turnVars, holdVars,
     laneVars, TypeOK, CallInv, HoldInv, ConsentInv, PC, Answer, Tool,
     Consent, NoConsent, AcceptedAnswerDecides
<1>9. ASSUME NEW c \in Call, ConnectFails(c) PROVE AcceptedAnswerDecides'
  BY <1>9 DEF ConnectFails, Answered, turnVars, holdVars, laneVars, TypeOK,
     CallInv, HoldInv, ConsentInv, PC, Answer, Tool, Consent, NoConsent,
     AcceptedAnswerDecides
<1>10. ASSUME NEW r \in Reader, NEW c \in Call, NEW v \in Consent, AnswerHold(r, c, v) PROVE AcceptedAnswerDecides'
  BY <1>10 DEF AnswerHold, Unsettled, Consented, Goes, Answered, turnVars,
     laneVars, TypeOK, CallInv, HoldInv, ConsentInv, PC, Answer, Tool,
     Consent, NoConsent, AcceptedAnswerDecides
<1>11. ASSUME NEW t \in Turn, OpenTurn(t) PROVE AcceptedAnswerDecides'
  BY <1>11 DEF OpenTurn, holdVars, laneVars, TypeOK, CallInv, HoldInv,
     ConsentInv, PC, Answer, Tool, Consent, NoConsent, AcceptedAnswerDecides
<1>12. ASSUME NEW t \in Turn, Expiry(t) PROVE AcceptedAnswerDecides'
  BY <1>12 DEF Expiry, holdVars, laneVars, TypeOK, CallInv, HoldInv,
     ConsentInv, PC, Answer, Tool, Consent, NoConsent, AcceptedAnswerDecides
<1>13. ASSUME NEW t \in Turn, Stop(t) PROVE AcceptedAnswerDecides'
  BY <1>13 DEF Stop, Signal, Unsettled, Abandon, Waiters, Expire, holdVars,
     laneVars, TypeOK, CallInv, HoldInv, ConsentInv, PC, Answer, Tool,
     Consent, NoConsent, AcceptedAnswerDecides
<1>14. ASSUME NEW t \in Turn, EndTurn(t) PROVE AcceptedAnswerDecides'
  BY <1>14 DEF EndTurn, Signal, Unsettled, Abandon, Waiters, Expire, holdVars,
     laneVars, TypeOK, CallInv, HoldInv, ConsentInv, PC, Answer, Tool,
     Consent, NoConsent, AcceptedAnswerDecides
<1> QED
  BY <1>1, <1>2, <1>3, <1>4, <1>5, <1>6, <1>7, <1>8, <1>9, <1>10, <1>11,
     <1>12, <1>13, <1>14 DEF Next, CallStep

(* Consent, once recorded, stays recorded for the turn that has it. *)
LEMMA ConsentStep ==
  TypeOK /\ CallInv /\ HoldInv /\ ConsentInv /\ ConsentBeforeRun /\ [Next]_vars
  => ConsentInv' /\ ConsentBeforeRun'
<1> SUFFICES ASSUME TypeOK, CallInv, HoldInv, ConsentInv, ConsentBeforeRun, [Next]_vars
             PROVE  ConsentInv' /\ ConsentBeforeRun'
  OBVIOUS
<1>1. KeepsAnswers /\ KeepsNames /\ RemembersConsent /\ StartsOnConsent /\ AcceptsOwners
  BY KeepsAnswersStep, KeepsNamesStep, RemembersStep, StartsStep, AcceptsStep
<1>2. \A r, v : <<r, v>> # NoConsent
  BY DEF NoConsent
<1>3. ASSUME NEW c \in Call, accepted'[c] # NoConsent
      PROVE  /\ pc'[c] \in {"running", "answered"}
             /\ accepted'[c] \in {Owner[of'[c]]} \X Consent
  <2>1. CASE accepted'[c] = accepted[c]
    BY <1>1, <1>3, <2>1 DEF KeepsAnswers, ConsentInv
  <2>2. CASE accepted'[c] # accepted[c]
    BY <1>1, <2>2 DEF AcceptsOwners
  <2> QED
    BY <2>1, <2>2
<1>4. ASSUME NEW d \in Call, NEW t, pc[d] # "new", of[d] = t,
             accepted'[d] = <<Owner[t], "remembered">>
      PROVE  pc'[d] # "new" /\ of'[d] = t /\ tool'[d] = tool[d]
  BY <1>1, <1>4 DEF KeepsNames
<1>5. ASSUME NEW d \in Call, NEW t, pc[d] # "new", of[d] = t,
             accepted[d] = <<Owner[t], "remembered">>
      PROVE  /\ pc'[d] # "new" /\ of'[d] = t /\ tool'[d] = tool[d]
             /\ accepted'[d] = <<Owner[t], "remembered">>
  BY <1>1, <1>2, <1>5 DEF KeepsAnswers, KeepsNames
<1>6. ASSUME NEW t \in Turn, NEW k \in allowed'[t]
      PROVE  \E d \in Call : /\ pc'[d] # "new" /\ of'[d] = t /\ tool'[d] = k
                             /\ accepted'[d] = <<Owner[t], "remembered">>
  <2>1. CASE k \in allowed[t]
    <3>1. PICK d \in Call : /\ pc[d] # "new" /\ of[d] = t /\ tool[d] = k
                            /\ accepted[d] = <<Owner[t], "remembered">>
      BY <2>1 DEF ConsentInv
    <3> QED
      BY <3>1, <1>5
  <2>2. CASE k \notin allowed[t]
    <3>1. PICK d \in Call : /\ pc[d] # "new" /\ of[d] = t /\ tool[d] = k
                            /\ accepted'[d] = <<Owner[t], "remembered">>
      BY <1>1, <1>6, <2>2 DEF RemembersConsent
    <3> QED
      BY <3>1, <1>4
  <2> QED
    BY <2>1, <2>2
<1>7. ConsentInv'
  BY <1>3, <1>6 DEF ConsentInv
<1>8. ASSUME NEW c \in Call, tool'[c] \in Gated, Gate[of'[c]][tool'[c]] = "ask", Ran(c)'
      PROVE  \/ accepted'[c] = <<Owner[of'[c]], "approved">>
             \/ \E d \in Call : /\ of'[d] = of'[c] /\ tool'[d] = tool'[c]
                                /\ accepted'[d] = <<Owner[of'[c]], "remembered">>
  <2>1. /\ pc[c] # "new" /\ of'[c] = of[c] /\ tool'[c] = tool[c]
        /\ of[c] \in Turn
    <3>1. Ran(c) => pc[c] # "new"
      BY DEF Ran, CallInv
    <3>2. pc[c] # "new"
      BY <3>1, <1>1, <1>8 DEF StartsOnConsent
    <3> QED
      BY <3>2, <1>1 DEF KeepsNames, CallInv
  <2>2. CASE Ran(c)
    <3>1. \/ accepted[c] = <<Owner[of[c]], "approved">>
          \/ \E d \in Call : /\ of[d] = of[c] /\ tool[d] = tool[c]
                             /\ accepted[d] = <<Owner[of[c]], "remembered">>
      BY <1>8, <2>1, <2>2 DEF ConsentBeforeRun, Ran
    <3>2. CASE accepted[c] = <<Owner[of[c]], "approved">>
      BY <3>2, <2>1, <1>1, <1>2 DEF KeepsAnswers
    <3>3. ASSUME NEW d \in Call, of[d] = of[c], tool[d] = tool[c],
                 accepted[d] = <<Owner[of[c]], "remembered">>
          PROVE  /\ of'[d] = of'[c] /\ tool'[d] = tool'[c]
                 /\ accepted'[d] = <<Owner[of'[c]], "remembered">>
      BY <3>3, <2>1, <1>1, <1>2 DEF KeepsAnswers
    <3> QED
      BY <3>1, <3>2, <3>3
  <2>3. CASE ~Ran(c)
    <3>1. \/ tool[c] \in allowed[of[c]]
          \/ accepted'[c] \in {<<Owner[of[c]], "approved">>, <<Owner[of[c]], "remembered">>}
      BY <2>1, <2>3, <1>1, <1>8 DEF StartsOnConsent
    <3>2. CASE tool[c] \in allowed[of[c]]
      <4>1. PICK d \in Call : /\ pc[d] # "new" /\ of[d] = of[c] /\ tool[d] = tool[c]
                              /\ accepted[d] = <<Owner[of[c]], "remembered">>
        BY <3>2, <2>1 DEF ConsentInv
      <4> QED
        BY <4>1, <1>5, <2>1
    <3> QED
      BY <3>1, <3>2, <2>1
  <2> QED
    BY <2>2, <2>3
<1>9. ConsentBeforeRun'
  BY <1>8 DEF ConsentBeforeRun, Ran
<1> QED
  BY <1>7, <1>9

(* What a step may do to the lane. *)
Untouched == Inside' = Inside /\ Queued' = Queued /\ UNCHANGED laneVars
Enters(c) ==
  /\ c \notin Inside /\ active < Limit
  /\ active' = active + 1 /\ UNCHANGED queue
  /\ Inside' = Inside \cup {c} /\ Queued' = Queued
Waits(c) ==
  /\ c \notin Inside \cup Queued /\ ~(active < Limit)
  /\ queue' = Append(queue, c) /\ UNCHANGED active
  /\ Inside' = Inside /\ Queued' = Queued \cup {c}
Leaves(c) ==
  /\ c \in Inside /\ queue = <<>>
  /\ active' = active - 1 /\ UNCHANGED queue
  /\ Inside' = Inside \ {c} /\ Queued' = Queued
HandsOver(c) ==
  /\ c \in Inside /\ queue # <<>> /\ Head(queue) \notin Inside
  /\ queue' = Tail(queue) /\ UNCHANGED active
  /\ Inside' = (Inside \ {c}) \cup {Head(queue)} /\ Queued' = Queued \ {Head(queue)}
GivesUp(S) ==
  /\ S \subseteq Queued
  /\ queue' = Without(queue, S) /\ UNCHANGED active
  /\ Inside' = Inside /\ Queued' = Queued \ S
LaneMove ==
  \/ Untouched
  \/ \E c \in Call : Enters(c) \/ Waits(c) \/ Leaves(c) \/ HandsOver(c)
  \/ \E S \in SUBSET Queued : GivesUp(S)

(* Every action does one of these to the lane. *)
LEMMA LaneMoves == TypeOK /\ CallInv /\ LaneInv /\ [Next]_vars => LaneMove
<1> SUFFICES ASSUME TypeOK, CallInv, LaneInv, [Next]_vars PROVE LaneMove
  OBVIOUS
<1>1. ASSUME UNCHANGED vars PROVE LaneMove
  BY <1>1 DEF vars, laneVars, TypeOK, CallInv, LaneMove, Untouched, Inside,
     Queued, PC
<1>2. ASSUME AllDone PROVE LaneMove
  BY <1>2 DEF AllDone, vars, laneVars, TypeOK, CallInv, LaneMove, Untouched,
     Inside, Queued, PC
<1>3. ASSUME NEW c \in Call, NEW t \in Turn, NEW k \in Tool, Verify(c, t, k) PROVE LaneMove
  BY <1>3 DEF Verify, Goes, Answered, turnVars, holdVars, laneVars, TypeOK,
     CallInv, LaneMove, Untouched, Inside, Queued, PC
<1>4. ASSUME NEW c \in Call, Bind(c) PROVE LaneMove
  BY <1>4 DEF Bind, Goes, Answered, turnVars, holdVars, laneVars, TypeOK,
     CallInv, LaneMove, Untouched, Inside, Queued, PC
<1>5. ASSUME NEW c \in Call, Dispatch(c) PROVE LaneMove
  BY <1>5, TurnAssumption DEF Dispatch, Hold, Goes, Answered, turnVars,
     holdVars, laneVars, TypeOK, CallInv, LaneMove, Untouched, Inside, Queued,
     PC
<1>6. ASSUME NEW c \in Call, HoldExpires(c) PROVE LaneMove
  BY <1>6 DEF HoldExpires, Unsettled, Answered, turnVars, laneVars, TypeOK,
     CallInv, LaneMove, Untouched, Inside, Queued, PC
<1>7. ASSUME NEW c \in Call, Acquire(c) PROVE LaneMove
  <2>1. tool[c] \in Worker /\ c \notin Inside \cup Queued /\ tool' = tool
    BY <1>7 DEF Acquire, CallInv, Inside, Queued
  <2>2. CASE ThrowIfAborted(c)
    BY <1>7, <2>2 DEF Acquire, Answered, laneVars, TypeOK, CallInv, LaneMove,
       Untouched, Inside, Queued, PC
  <2>3. CASE ~ThrowIfAborted(c) /\ SlotFree
    <3>1. /\ active' = active + 1 /\ queue' = queue
          /\ pc' = [pc EXCEPT ![c] = "running"]
      BY <1>7, <2>3 DEF Acquire, Goes
    <3> QED
      BY <2>1, <2>3, <3>1 DEF LaneMove, Enters, SlotFree, Inside, Queued, TypeOK
  <2>4. CASE ~ThrowIfAborted(c) /\ ~SlotFree
    <3>1. /\ active' = active /\ queue' = Append(queue, c)
          /\ pc' = [pc EXCEPT ![c] = "queued"] /\ pc[c] = "connecting"
      BY <1>7, <2>4 DEF Acquire, Goes
    <3>2. Inside' = Inside /\ Queued' = Queued \cup {c}
      BY <2>1, <3>1 DEF Inside, Queued, TypeOK
    <3> QED
      BY <2>1, <2>4, <3>1, <3>2 DEF LaneMove, Waits, SlotFree
  <2> QED
    BY <2>2, <2>3, <2>4
<1>8. ASSUME NEW c \in Call, ToolEnds(c) PROVE LaneMove
  <2>1. CASE tool[c] \in Gated /\ Answered(c, "result") /\ UNCHANGED laneVars
    BY <1>8, <2>1, TurnAssumption DEF ToolEnds, Answered, laneVars, TypeOK,
       CallInv, LaneMove, Untouched, Inside, Queued, PC
  <2>2. CASE tool[c] \in Worker /\ ReleaseSlot(c) /\ queue = <<>>
    <3>1. c \in Inside /\ tool' = tool
      BY <1>8, <2>2 DEF ToolEnds, Inside
    <3>2. /\ active' = active - 1 /\ queue' = queue
          /\ pc' = [pc EXCEPT ![c] = "answered"] /\ pc[c] = "running"
      BY <1>8, <2>2 DEF ToolEnds, ReleaseSlot
    <3>3. Inside' = Inside \ {c} /\ Queued' = Queued
      BY <3>1, <3>2 DEF Inside, Queued, TypeOK
    <3> QED
      BY <2>2, <3>1, <3>2, <3>3 DEF LaneMove, Leaves
  <2>3. CASE tool[c] \in Worker /\ ReleaseSlot(c) /\ queue # <<>>
    <3> DEFINE h == Head(queue)
    <3>1. c \in Inside /\ tool' = tool /\ pc[c] = "running"
      BY <1>8, <2>3 DEF ToolEnds, Inside
    <3>2. h \in Call /\ h \in Queued
      <4>1. queue \in Seq(Call) /\ ToSet(queue) = Queued
        BY DEF TypeOK, LaneInv
      <4> QED
        BY <4>1, <2>3, LeaveFirst
    <3>3. pc[h] = "queued" /\ h # c /\ tool[h] \in Worker
      BY <3>1, <3>2 DEF Queued, CallInv
    <3>4. /\ active' = active /\ queue' = Tail(queue)
          /\ pc' = [d \in Call |-> IF d = c THEN "answered"
                                   ELSE IF d = h /\ Admitted(d) THEN "running" ELSE pc[d]]
      BY <1>8, <2>3 DEF ToolEnds, ReleaseSlot
    <3> HIDE DEF h
    <3>5. Inside' = (Inside \ {c}) \cup {h} /\ Queued' = Queued \ {h} /\ h \notin Inside
      BY <3>1, <3>2, <3>3, <3>4 DEF Inside, Queued, Admitted, TypeOK
    <3> QED
      BY <2>3, <3>1, <3>4, <3>5 DEF LaneMove, HandsOver, h
  <2> QED
    BY <1>8, <2>1, <2>2, <2>3 DEF ToolEnds
<1>9. ASSUME NEW c \in Call, ConnectFails(c) PROVE LaneMove
  BY <1>9 DEF ConnectFails, Answered, turnVars, holdVars, laneVars, TypeOK,
     CallInv, LaneMove, Untouched, Inside, Queued, PC
<1>10. ASSUME NEW r \in Reader, NEW c \in Call, NEW v \in Consent, AnswerHold(r, c, v) PROVE LaneMove
  BY <1>10, TurnAssumption DEF AnswerHold, Unsettled, Consented, Goes,
     Answered, turnVars, laneVars, TypeOK, CallInv, LaneMove, Untouched,
     Inside, Queued, PC
<1>11. ASSUME NEW t \in Turn, OpenTurn(t) PROVE LaneMove
  BY <1>11 DEF OpenTurn, holdVars, laneVars, TypeOK, CallInv, LaneMove,
     Untouched, Inside, Queued, PC
<1>12. ASSUME NEW t \in Turn, Expiry(t) PROVE LaneMove
  BY <1>12 DEF Expiry, holdVars, laneVars, TypeOK, CallInv, LaneMove,
     Untouched, Inside, Queued, PC
<1>13. ASSUME NEW t \in Turn, Stop(t) PROVE LaneMove
  <2>1. CASE aborted[t]
    BY <1>13, <2>1 DEF Stop, Signal, holdVars, laneVars, TypeOK, LaneMove,
       Untouched, Inside, Queued, PC
  <2>2. CASE ~aborted[t]
    <3>1. Waiters(t) \subseteq Queued
      BY DEF Waiters, Queued
    <3>2. queue' = Without(queue, Waiters(t)) /\ active' = active
      BY <1>13, <2>2 DEF Stop, Signal, Abandon
    <3>3. /\ tool' = tool
          /\ pc' = [c \in Call |-> IF c \in {d \in Expire(t) : pc[d] = "held"} \cup Waiters(t)
                                   THEN "answered" ELSE pc[c]]
      BY <1>13, <2>2 DEF Stop, Signal
    <3>4. Inside' = Inside
      BY <3>3 DEF Inside, Waiters, TypeOK, PC
    <3>5. Queued' = Queued \ Waiters(t)
      BY <3>3 DEF Queued, Waiters, TypeOK, PC
    <3> QED
      BY <3>1, <3>2, <3>4, <3>5 DEF LaneMove, GivesUp
  <2> QED
    BY <2>1, <2>2
<1>14. ASSUME NEW t \in Turn, EndTurn(t) PROVE LaneMove
  <2>1. CASE aborted[t]
    BY <1>14, <2>1 DEF EndTurn, Signal, holdVars, laneVars, TypeOK, LaneMove,
       Untouched, Inside, Queued, PC
  <2>2. CASE ~aborted[t]
    <3>1. Waiters(t) \subseteq Queued
      BY DEF Waiters, Queued
    <3>2. queue' = Without(queue, Waiters(t)) /\ active' = active
      BY <1>14, <2>2 DEF EndTurn, Signal, Abandon
    <3>3. /\ tool' = tool
          /\ pc' = [c \in Call |-> IF c \in {d \in Expire(t) : pc[d] = "held"} \cup Waiters(t)
                                   THEN "answered" ELSE pc[c]]
      BY <1>14, <2>2 DEF EndTurn, Signal
    <3>4. Inside' = Inside
      BY <3>3 DEF Inside, Waiters, TypeOK, PC
    <3>5. Queued' = Queued \ Waiters(t)
      BY <3>3 DEF Queued, Waiters, TypeOK, PC
    <3> QED
      BY <3>1, <3>2, <3>4, <3>5 DEF LaneMove, GivesUp
  <2> QED
    BY <2>1, <2>2
<1> QED
  BY <1>1, <1>2, <1>3, <1>4, <1>5, <1>6, <1>7, <1>8, <1>9, <1>10, <1>11,
     <1>12, <1>13, <1>14 DEF Next, CallStep

(* None of them breaks the lane. *)
LEMMA LaneStep == TypeOK /\ LaneInv /\ LaneMove => LaneInv'
<1> SUFFICES ASSUME TypeOK, LaneInv, LaneMove PROVE LaneInv'
  OBVIOUS
<1>1. /\ queue \in Seq(Call) /\ IsInjective(queue) /\ ToSet(queue) = Queued
      /\ IsFiniteSet(Inside) /\ active = Cardinality(Inside) /\ active \in Nat
      /\ active <= Limit /\ (queue # <<>> => active = Limit)
      /\ Limit \in Nat \ {0}
  BY LimitAssumption DEF TypeOK, LaneInv
<1>2. CASE Untouched
  BY <1>1, <1>2 DEF Untouched, laneVars, LaneInv
<1>3. ASSUME NEW c \in Call, Enters(c) PROVE LaneInv'
  <2>1. IsFiniteSet(Inside') /\ Cardinality(Inside') = active + 1
    BY <1>1, <1>3, FS_AddElement DEF Enters
  <2>2. active + 1 <= Limit /\ queue = <<>>
    BY <1>1, <1>3 DEF Enters
  <2> QED
    BY <1>1, <1>3, <2>1, <2>2 DEF Enters, LaneInv
<1>4. ASSUME NEW c \in Call, Waits(c) PROVE LaneInv'
  <2>1. IsInjective(queue') /\ ToSet(queue') = Queued'
    BY <1>1, <1>4, JoinLast DEF Waits
  <2>2. active = Limit
    BY <1>1, <1>4 DEF Waits
  <2> QED
    BY <1>1, <1>4, <2>1, <2>2 DEF Waits, LaneInv
<1>5. ASSUME NEW c \in Call, Leaves(c) PROVE LaneInv'
  <2>1. active \in Nat \ {0} /\ IsFiniteSet(Inside') /\ Cardinality(Inside') = active - 1
    BY <1>5, SlotCounted DEF Leaves
  <2> QED
    BY <1>1, <1>5, <2>1 DEF Leaves, LaneInv
<1>6. ASSUME NEW c \in Call, HandsOver(c) PROVE LaneInv'
  <2>1. active \in Nat \ {0} /\ IsFiniteSet(Inside \ {c}) /\ Cardinality(Inside \ {c}) = active - 1
    BY <1>6, SlotCounted DEF HandsOver
  <2>2. IsFiniteSet(Inside') /\ Cardinality(Inside') = active
    <3>1. Head(queue) \notin Inside \ {c} /\ Inside' = (Inside \ {c}) \cup {Head(queue)}
      BY <1>6 DEF HandsOver
    <3>2. IsFiniteSet(Inside') /\ Cardinality(Inside') = Cardinality(Inside \ {c}) + 1
      BY <3>1, <2>1, FS_AddElement
    <3> QED
      BY <3>2, <2>1
  <2>3. IsInjective(queue') /\ ToSet(queue') = Queued'
    BY <1>1, <1>6, LeaveFirst DEF HandsOver
  <2> QED
    BY <1>1, <1>6, <2>2, <2>3 DEF HandsOver, LaneInv
<1>7. ASSUME NEW S \in SUBSET Queued, GivesUp(S) PROVE LaneInv'
  <2>1. IsInjective(queue') /\ ToSet(queue') = Queued'
    BY <1>1, <1>7, WithoutProperties DEF GivesUp
  <2>2. queue = <<>> => queue' = <<>>
    <3>1. queue = <<>> => ToSet(queue) \cap S = {}
      BY EmptyQueue
    <3> QED
      BY <3>1, <1>1, <1>7, WithoutProperties DEF GivesUp
  <2> QED
    BY <1>1, <1>7, <2>1, <2>2 DEF GivesUp, LaneInv
<1> QED
  BY <1>2, <1>3, <1>4, <1>5, <1>6, <1>7 DEF LaneMove

(* Each of them is a step of the limiter, or none. *)
LEMMA LaneRefines ==
  TypeOK /\ LaneInv /\ LaneMove => [Lane!Next]_<<Inside, queue>>
<1> SUFFICES ASSUME TypeOK, LaneInv, LaneMove, ~(Inside' = Inside /\ queue' = queue)
             PROVE  Lane!Next
  OBVIOUS
<1>1. /\ queue \in Seq(Call) /\ ToSet(queue) = Queued
      /\ active = Cardinality(Inside) /\ active \in Nat
      /\ active <= Limit /\ (queue # <<>> => active = Limit)
      /\ Limit \in Nat \ {0}
  BY LimitAssumption DEF TypeOK, LaneInv
<1>2. Lane!Standing = ToSet(queue)
  BY DEF Lane!Standing, Lane!ToSet, ToSet
<1>0. Lane!Cardinality(Inside) = Cardinality(Inside)
  BY DEF Lane!Cardinality, Cardinality
<1>3. ~Untouched
  BY DEF Untouched, laneVars
<1>4. ASSUME NEW c \in Call, Enters(c) PROVE Lane!Enter(c)
  BY <1>0, <1>1, <1>4 DEF Enters, Lane!Enter, Inside
<1>5. ASSUME NEW c \in Call, Waits(c) PROVE Lane!Wait(c)
  BY <1>0, <1>1, <1>2, <1>5 DEF Waits, Lane!Wait, Inside
<1>6. ASSUME NEW c \in Call, Leaves(c) \/ HandsOver(c) PROVE Lane!Leave(c)
  BY <1>6 DEF Leaves, HandsOver, Lane!Leave, Inside
<1>7. ASSUME NEW S \in SUBSET Queued, GivesUp(S) PROVE Lane!GiveUp(S)
  <2>1. S # {}
    <3>1. S = {} => Without(queue, S) = queue
      BY <1>1, WithoutProperties
    <3> QED
      BY <3>1, <1>7 DEF GivesUp
  <2>2. Lane!Without(queue, S) = Without(queue, S)
    BY DEF Lane!Without, Without
  <2> QED
    BY <1>1, <1>2, <1>7, <2>1, <2>2 DEF GivesUp, Lane!GiveUp, Inside
<1> QED
  BY <1>1, <1>2, <1>3, <1>4, <1>5, <1>6, <1>7 DEF LaneMove, Lane!Next

-----------------------------------------------------------------------------
(* Initially nothing has come, nothing waits and nothing runs. *)
LEMMA InvInit == Init => Inv
<1> SUFFICES ASSUME Init PROVE Inv
  OBVIOUS
<1>1. TypeOK
  BY DEF Init, TypeOK, PC, Answer, Consent
<1>2. CallInv /\ HoldInv /\ ConsentInv /\ AcceptedAnswerDecides /\ ConsentBeforeRun
  BY DEF Init, CallInv, HoldInv, ConsentInv, AcceptedAnswerDecides, ConsentBeforeRun
<1>3. LaneInv
  <2>1. Inside = {} /\ Queued = {} /\ queue = <<>> /\ active = 0
    BY DEF Init, Inside, Queued
  <2> QED
    BY <2>1, EmptyQueue, FS_EmptySet, LimitAssumption DEF LaneInv
<1> QED
  BY <1>1, <1>2, <1>3 DEF Inv

(* Inv is inductive. *)
LEMMA InvStep == Inv /\ [Next]_vars => Inv'
BY TypeStep, CallsStep, HoldsStep, AcceptedStep, ConsentStep, LaneMoves, LaneStep DEF Inv

(* Inv holds in every reachable state. *)
LEMMA InvAlways == Spec => []Inv
BY InvInit, InvStep, PTL DEF Spec

(* The state keeps its types: in particular the lane's counter, which       *)
(* releaseSlot decrements without a check, never goes below zero.           *)
THEOREM TypeCorrect == Spec => []TypeOK
<1>1. Inv => TypeOK
  BY DEF Inv
<1> QED
  BY <1>1, InvAlways, PTL

(* Whatever the timers, the aborts and the other calls do, the answer the   *)
(* controller acknowledged with 204 is the one the call acts on.            *)
THEOREM AcceptedAnswerDecidesAlways == Spec => []AcceptedAnswerDecides
<1>1. Inv => AcceptedAnswerDecides
  BY DEF Inv
<1> QED
  BY <1>1, InvAlways, PTL

(* For every directory and every gate: a tool the gate asks about runs only *)
(* on an answer of the turn's own reader.                                   *)
THEOREM ConsentBeforeRunAlways == Spec => []ConsentBeforeRun
<1>1. Inv => ConsentBeforeRun
  BY DEF Inv
<1> QED
  BY <1>1, InvAlways, PTL

(* A turn whose signal fired has no hold, no timer and no place in the      *)
(* lane's queue, nor will a call that comes later get one.                  *)
THEOREM AbortedTurnWaitsForNobodyAlways == Spec => []AbortedTurnWaitsForNobody
<1>1. Inv => AbortedTurnWaitsForNobody
  BY DEF Inv, HoldInv, LaneInv, Queued, AbortedTurnWaitsForNobody
<1> QED
  BY <1>1, InvAlways, PTL

(* The lane never runs more calls of the model host than it has slots.      *)
THEOREM LaneBound == Spec => [](Cardinality(Inside) <= Limit)
<1>1. Inv => Cardinality(Inside) <= Limit
  BY DEF Inv, LaneInv
<1> QED
  BY <1>1, InvAlways, PTL

(* What a step may start. *)
StartsInTime ==
  \A c \in Call : pc[c] \in {"held", "connecting", "queued"} /\ pc'[c] = "running"
                  => ~aborted[of[c]]


(* No action starts a call that waited once its turn is aborted. *)
LEMMA StartsInTimeStep == TypeOK /\ CallInv /\ HoldInv /\ LaneInv /\ [Next]_vars => StartsInTime
<1> SUFFICES ASSUME TypeOK, CallInv, HoldInv, LaneInv, [Next]_vars PROVE StartsInTime
  OBVIOUS
<1>1. ASSUME UNCHANGED vars PROVE StartsInTime
  BY <1>1 DEF vars, laneVars, TypeOK, CallInv, HoldInv, StartsInTime, PC
<1>2. ASSUME AllDone PROVE StartsInTime
  BY <1>2 DEF AllDone, vars, laneVars, TypeOK, CallInv, HoldInv, StartsInTime,
     PC
<1>3. ASSUME NEW c \in Call, NEW t \in Turn, NEW k \in Tool, Verify(c, t, k) PROVE StartsInTime
  BY <1>3 DEF Verify, Goes, Answered, turnVars, holdVars, laneVars, TypeOK,
     CallInv, HoldInv, StartsInTime, PC
<1>4. ASSUME NEW c \in Call, Bind(c) PROVE StartsInTime
  BY <1>4 DEF Bind, Goes, Answered, turnVars, holdVars, laneVars, TypeOK,
     CallInv, HoldInv, StartsInTime, PC
<1>5. ASSUME NEW c \in Call, Dispatch(c) PROVE StartsInTime
  BY <1>5 DEF Dispatch, Hold, Goes, Answered, turnVars, holdVars, laneVars,
     TypeOK, CallInv, HoldInv, StartsInTime, PC
<1>6. ASSUME NEW c \in Call, HoldExpires(c) PROVE StartsInTime
  BY <1>6 DEF HoldExpires, Unsettled, Answered, turnVars, laneVars, TypeOK,
     CallInv, HoldInv, StartsInTime, PC
<1>7. ASSUME NEW c \in Call, Acquire(c) PROVE StartsInTime
  BY <1>7 DEF Acquire, ThrowIfAborted, SlotFree, Goes, Answered, turnVars,
     holdVars, laneVars, TypeOK, CallInv, HoldInv, StartsInTime, PC
<1>8. ASSUME NEW c \in Call, ToolEnds(c) PROVE StartsInTime
  <2>1. queue # <<>> => Head(queue) \in ToSet(queue)
    BY LeaveFirst DEF TypeOK
  <2> QED
    BY <1>8, <2>1 DEF ToolEnds, ReleaseSlot, Admitted, Answered, turnVars,
     holdVars, laneVars, TypeOK, HoldInv, StartsInTime
<1>9. ASSUME NEW c \in Call, ConnectFails(c) PROVE StartsInTime
  BY <1>9 DEF ConnectFails, Answered, turnVars, holdVars, laneVars, TypeOK,
     CallInv, HoldInv, StartsInTime, PC
<1>10. ASSUME NEW r \in Reader, NEW c \in Call, NEW v \in Consent, AnswerHold(r, c, v) PROVE StartsInTime
  BY <1>10 DEF AnswerHold, Unsettled, Consented, Goes, Answered, turnVars,
     laneVars, TypeOK, CallInv, HoldInv, StartsInTime, PC
<1>11. ASSUME NEW t \in Turn, OpenTurn(t) PROVE StartsInTime
  BY <1>11 DEF OpenTurn, holdVars, laneVars, TypeOK, CallInv, HoldInv,
     StartsInTime, PC
<1>12. ASSUME NEW t \in Turn, Expiry(t) PROVE StartsInTime
  BY <1>12 DEF Expiry, holdVars, laneVars, TypeOK, CallInv, HoldInv,
     StartsInTime, PC
<1>13. ASSUME NEW t \in Turn, Stop(t) PROVE StartsInTime
  BY <1>13 DEF Stop, Signal, Unsettled, Abandon, Waiters, Expire, holdVars,
     laneVars, TypeOK, CallInv, HoldInv, StartsInTime, PC
<1>14. ASSUME NEW t \in Turn, EndTurn(t) PROVE StartsInTime
  BY <1>14 DEF EndTurn, Signal, Unsettled, Abandon, Waiters, Expire, holdVars,
     laneVars, TypeOK, CallInv, HoldInv, StartsInTime, PC
<1> QED
  BY <1>1, <1>2, <1>3, <1>4, <1>5, <1>6, <1>7, <1>8, <1>9, <1>10, <1>11,
     <1>12, <1>13, <1>14 DEF Next, CallStep

(* A call that waited for the reader, for the worker's client or for a slot *)
(* never starts once its turn is aborted: consent that arrives too late and *)
(* a slot handed over too late start nothing.                               *)
THEOREM NoLateStartAlways == Spec => NoLateStart
<1>1. Inv /\ [Next]_vars => [StartsInTime]_vars
  BY StartsInTimeStep DEF Inv
<1> QED
  BY <1>1, InvAlways, PTL DEF Spec, NoLateStart, StartsInTime

(* The lane implements the limiter for any number of calls and turns and    *)
(* any width: the calls that run are inside, the queue is the line, an      *)
(* abort makes the turn's waiters give up together.                         *)
THEOREM LaneImplementsLimiterAlways == Spec => LaneImplementsLimiter
<1>1. Init => Lane!Init
  BY DEF Init, Lane!Init
<1>2. Inv /\ [Next]_vars => [Lane!Next]_<<Inside, queue>>
  BY LaneMoves, LaneRefines DEF Inv
<1> QED
  BY <1>1, <1>2, InvAlways, PTL DEF Spec, LaneImplementsLimiter, Lane!Spec, Inside
=============================================================================
