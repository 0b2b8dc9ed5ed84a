------------------------------- MODULE Gateway -------------------------------
(***************************************************************************)
(* The agent gateway of the chat api: the grants that admit an agent's     *)
(* calls (grant-registry.ts, gateway-server.service.ts), the consent each  *)
(* call needs (gateway-calls.service.ts), the holds that wait for the      *)
(* reader (approval-holds.ts), and the lane in front of the model host     *)
(* (worker-lane.ts), under the life of the turn that opens and closes the  *)
(* grant (agent-turn.service.ts run).                                      *)
(*                                                                         *)
(* A step is one callback of the event loop with the promise jobs it       *)
(* starts: a hold that settles lets its call go on before any other        *)
(* callback runs.  Turns share one model host, hence one lane.             *)
(***************************************************************************)
EXTENDS Integers, Sequences, FiniteSets, Queues

CONSTANTS
  Turn, Call, Reader,
  Owner,   \* whose turn it is
  Worker,  \* directory entries of the local worker: consent "none", in the lane
  Gated,   \* directory entries of readers and connected servers: consent "gate"
  Directory, Gate,  \* what toolsFor and gateFor made for the turn
  Limit,   \* workerConcurrency
  NoTurn, NoTool  \* of a call that has not arrived

ASSUME LimitAssumption == Limit \in Nat \ {0}
ASSUME TurnAssumption ==
  /\ Owner \in [Turn -> Reader] /\ Worker \cap Gated = {}
  /\ Directory \in [Turn -> SUBSET (Worker \cup Gated)]
  /\ Gate \in [Turn -> [Gated -> {"run", "ask", "denied"}]]

VARIABLES
  turn,       \* preparing, running, ended
  aborted,    \* turn.signal
  allowed,    \* the entries the reader's answer was remembered for
  grants,     \* turns whose grant grantFor answers: registered and not expired
  pc,         \* what a call awaits
  of, tool,   \* the grant it came with, the entry it names
  answer,     \* what it returned
  pending,    \* holds an answer can reach
  timers, listening,  \* holds whose timer is set, whose abort listener is
  accepted,   \* history: the answer for which the controller returned 204
  active, queue       \* the lane

turnVars == <<turn, aborted, grants>>
holdVars == <<pending, timers, listening, accepted>>
laneVars == <<active, queue>>
vars == <<turn, aborted, allowed, grants, pc, of, tool, answer,
          pending, timers, listening, accepted, active, queue>>

Tool == Worker \cup Gated
PC == {"new", "verified", "bound", "held", "connecting", "queued", "running", "answered"}
Answer == {"none",
           "refused",   \* unknown grant, no turn, unknown tool, denied by the gate
           "declined", "expired", "failed",
           "result"}    \* what the tool, which ran, answered or failed with
Consent == {"approved", "remembered", "denied"}
NoConsent == <<>>

Init ==
  /\ turn = [t \in Turn |-> "preparing"]
  /\ aborted = [t \in Turn |-> FALSE]
  /\ allowed = [t \in Turn |-> {}] /\ grants = {}
  /\ pc = [c \in Call |-> "new"]
  /\ of = [c \in Call |-> NoTurn] /\ tool = [c \in Call |-> NoTool]
  /\ answer = [c \in Call |-> "none"]
  /\ pending = {} /\ timers = {} /\ listening = {}
  /\ accepted = [c \in Call |-> NoConsent]
  /\ active = 0 /\ queue = <<>>

-----------------------------------------------------------------------------
(* Calls. *)

Answered(c, a) ==
  pc' = [pc EXCEPT ![c] = "answered"] /\ answer' = [answer EXCEPT ![c] = a]
Goes(c, p) == pc' = [pc EXCEPT ![c] = p] /\ UNCHANGED answer

GrantFor(t) == t \in grants

(* A request with the token of turn t, and the bearer check it meets. *)
Verify(c, t, k) ==
  /\ pc[c] = "new" /\ turn[t] # "preparing"
  /\ of' = [of EXCEPT ![c] = t] /\ tool' = [tool EXCEPT ![c] = k]
  /\ IF GrantFor(t) THEN Goes(c, "verified") ELSE Answered(c, "refused")
  /\ UNCHANGED <<turnVars, allowed, holdVars, laneVars>>

(* The server is built for the turn the token resolves to at that time. *)
Bind(c) ==
  /\ pc[c] = "verified"
  /\ IF GrantFor(of[c]) THEN Goes(c, "bound") ELSE Answered(c, "refused")
  /\ UNCHANGED <<turnVars, allowed, of, tool, holdVars, laneVars>>

(* Mutant: a hold is opened for a turn that is already aborted. *)
HoldAnyway(c) ==
  /\ Goes(c, "held")
  /\ pending' = pending \cup {c}
  /\ timers' = timers \cup {c} /\ listening' = listening \cup {c}
  /\ UNCHANGED accepted

(* Mutant: nothing bounds the wait for the reader. *)
HoldWithoutTimer(c) ==
  IF aborted[of[c]]
  THEN Answered(c, "expired") /\ UNCHANGED holdVars
  ELSE /\ Goes(c, "held")
       /\ pending' = pending \cup {c} /\ listening' = listening \cup {c}
       /\ UNCHANGED <<timers, accepted>>

(* holds.hold: an aborted turn's hold settles at once as expired. *)
Hold(c) ==
  IF aborted[of[c]]
  THEN Answered(c, "expired") /\ UNCHANGED holdVars
  ELSE /\ Goes(c, "held")
       /\ pending' = pending \cup {c}
       /\ timers' = timers \cup {c} /\ listening' = listening \cup {c}
       /\ UNCHANGED accepted

(* call: the name against the directory, then consent, then invoke. *)
Dispatch(c) ==
  /\ pc[c] = "bound"
  /\ LET t == of[c]  k == tool[c] IN
     \/ /\ k \notin Directory[t]
        /\ Answered(c, "refused") /\ UNCHANGED holdVars
     \/ /\ k \in Directory[t] /\ k \in Worker
        /\ Goes(c, "connecting") /\ UNCHANGED holdVars
     \/ /\ k \in Directory[t] /\ k \in Gated
        /\ k \in allowed[t] \/ Gate[t][k] = "run"
        /\ Goes(c, "running") /\ UNCHANGED holdVars
     \/ /\ k \in Directory[t] /\ k \in Gated \ allowed[t]
        /\ Gate[t][k] = "denied"
        /\ Answered(c, "refused") /\ UNCHANGED holdVars
     \/ /\ k \in Directory[t] /\ k \in Gated \ allowed[t]
        /\ Gate[t][k] = "ask"
        /\ Hold(c)
  /\ UNCHANGED <<turnVars, allowed, of, tool, laneVars>>

-----------------------------------------------------------------------------
(* Holds.  settle clears the timer and the listener and forgets the hold;  *)
(* only the first settlement resolves the promise the call waits on.       *)

Unsettled(s) == /\ pending' = pending \ s
                /\ timers' = timers \ s
                /\ listening' = listening \ s

(* What the call does with the reader's answer. *)
Consented(c, v) ==
  IF pc[c] # "held" THEN UNCHANGED <<pc, answer, allowed>>
  ELSE IF v = "denied" THEN Answered(c, "declined") /\ UNCHANGED allowed
  ELSE /\ Goes(c, "running")
       /\ allowed' = IF v = "remembered"
                     THEN [allowed EXCEPT ![of[c]] = @ \cup {tool[c]}] ELSE allowed

(* Mutant: whoever knows the id may answer. *)
AnswerAnyHold(r, c, v) ==
  /\ c \in pending
  /\ Unsettled({c})
  /\ accepted' = [accepted EXCEPT ![c] = <<r, v>>]
  /\ Consented(c, v)
  /\ UNCHANGED <<turnVars, of, tool, laneVars>>

(* The controller's answer to a hold of the reader's own.  Any other        *)
(* answer is a 404 and changes nothing.                                     *)
AnswerHold(r, c, v) ==
  /\ c \in pending /\ Owner[of[c]] = r
  /\ Unsettled({c})
  /\ accepted' = [accepted EXCEPT ![c] = <<r, v>>]
  /\ Consented(c, v)
  /\ UNCHANGED <<turnVars, of, tool, laneVars>>

(* Mutant: the timer resolves the promise and settles nothing else. *)
HoldResolves(c) ==
  /\ c \in timers
  /\ timers' = timers \ {c}
  /\ IF pc[c] = "held" THEN Answered(c, "expired") ELSE UNCHANGED <<pc, answer>>
  /\ UNCHANGED <<turnVars, allowed, of, tool, pending, listening, accepted, laneVars>>

HoldExpires(c) ==
  /\ c \in timers
  /\ Unsettled({c})
  /\ IF pc[c] = "held" THEN Answered(c, "expired") ELSE UNCHANGED <<pc, answer>>
  /\ UNCHANGED <<turnVars, allowed, of, tool, accepted, laneVars>>

-----------------------------------------------------------------------------
(* The worker's lane. *)

(* The worker's client did not start. *)
ConnectFails(c) ==
  /\ pc[c] = "connecting"
  /\ Answered(c, "failed")
  /\ UNCHANGED <<turnVars, allowed, of, tool, holdVars, laneVars>>

(* Mutant: the turn's end is looked at instead of its signal. *)
ThrowIfEnded(c) == turn[of[c]] = "ended"

SlotFree == active < Limit
ThrowIfAborted(c) == aborted[of[c]]

(* acquire: an aborted signal throws, a free slot is taken, else wait. *)
Acquire(c) ==
  /\ pc[c] = "connecting"
  /\ \/ /\ ThrowIfAborted(c)
        /\ Answered(c, "failed") /\ UNCHANGED laneVars
     \/ /\ ~ThrowIfAborted(c) /\ SlotFree
        /\ active' = active + 1
        /\ Goes(c, "running") /\ UNCHANGED queue
     \/ /\ ~ThrowIfAborted(c) /\ ~SlotFree
        /\ queue' = Append(queue, c)
        /\ Goes(c, "queued") /\ UNCHANGED active
  /\ UNCHANGED <<turnVars, allowed, of, tool, holdVars>>

(* admit resolves a promise: nothing happens to a waiter already rejected. *)
Admitted(c) == pc[c] = "queued"

(* Mutant: the slot goes to the waiter that came last. *)
ReleaseSlotToLast(c) ==
  /\ answer' = [answer EXCEPT ![c] = "result"]
  /\ \/ /\ queue = <<>>
        /\ active' = active - 1
        /\ pc' = [pc EXCEPT ![c] = "answered"]
        /\ UNCHANGED queue
     \/ /\ queue # <<>>
        /\ queue' = Front(queue)
        /\ pc' = [pc EXCEPT ![c] = "answered", ![Last(queue)] = "running"]
        /\ UNCHANGED active

(* releaseSlot: the slot goes to the first waiter, or back to the lane. *)
ReleaseSlot(c) ==
  /\ answer' = [answer EXCEPT ![c] = "result"]
  /\ \/ /\ queue = <<>>
        /\ active' = active - 1
        /\ pc' = [pc EXCEPT ![c] = "answered"]
        /\ UNCHANGED queue
     \/ /\ queue # <<>>
        /\ queue' = Tail(queue)
        /\ pc' = [d \in Call |-> IF d = c THEN "answered"
                                 ELSE IF d = Head(queue) /\ Admitted(d) THEN "running"
                                 ELSE pc[d]]
        /\ UNCHANGED active

(* The tool answered, failed, or gave up on the aborted signal. *)
ToolEnds(c) ==
  /\ pc[c] = "running"
  /\ \/ tool[c] \in Worker /\ ReleaseSlot(c)
     \/ tool[c] \in Gated /\ Answered(c, "result") /\ UNCHANGED laneVars
  /\ UNCHANGED <<turnVars, allowed, of, tool, holdVars>>

-----------------------------------------------------------------------------
(* Turns. *)

(* turn.signal aborts: its listeners run, the holds expire and the lane's   *)
(* waiters leave the queue.                                                 *)
Waiters(t) == {c \in Call : pc[c] = "queued" /\ of[c] = t}
Expire(t) == {c \in listening : of[c] = t}
Abandon(t) == Without(queue, Waiters(t))

Signal(t) ==
  /\ aborted' = [aborted EXCEPT ![t] = TRUE]
  /\ IF aborted[t]
     THEN UNCHANGED <<pc, answer, holdVars, laneVars>>
     ELSE LET gone == {c \in Expire(t) : pc[c] = "held"} IN
          /\ Unsettled(Expire(t))
          /\ queue' = Abandon(t)
          /\ pc' = [c \in Call |-> IF c \in gone \cup Waiters(t) THEN "answered" ELSE pc[c]]
          /\ answer' = [c \in Call |-> IF c \in gone THEN "expired"
                                       ELSE IF c \in Waiters(t) THEN "failed" ELSE answer[c]]
          /\ UNCHANGED <<accepted, active>>

(* The directory and the gate are made before the grant, and never change. *)
OpenTurn(t) ==
  /\ turn[t] = "preparing"
  /\ turn' = [turn EXCEPT ![t] = "running"]
  /\ grants' = grants \cup {t}
  /\ UNCHANGED <<aborted, allowed, pc, of, tool, answer, holdVars, laneVars>>

(* The clock reaches startedAt + timeoutMs: the grant is refused, and       *)
(* forgotten when it is next looked up.                                     *)
Expiry(t) ==
  /\ t \in grants
  /\ grants' = grants \ {t}
  /\ UNCHANGED <<turn, aborted, allowed, pc, of, tool, answer, holdVars, laneVars>>

(* stop: the reader cancels the request, or the deadline's timer fires. *)
Stop(t) ==
  /\ turn[t] # "ended" /\ ~aborted[t]
  /\ Signal(t)
  /\ UNCHANGED <<turn, allowed, grants, of, tool>>

(* run's finally: codex completed, failed or was interrupted. *)
EndTurn(t) ==
  /\ turn[t] = "running"
  /\ turn' = [turn EXCEPT ![t] = "ended"]
  /\ Signal(t)
  /\ grants' = grants \ {t}
  /\ UNCHANGED <<allowed, of, tool>>

-----------------------------------------------------------------------------
CallStep(c) ==
  Bind(c) \/ Dispatch(c) \/ HoldExpires(c) \/ Acquire(c) \/ ToolEnds(c)

AllDone == /\ \A t \in Turn : turn[t] = "ended"
           /\ \A c \in Call : pc[c] = "answered"
           /\ UNCHANGED vars

Next ==
  \/ AllDone
  \/ \E c \in Call, t \in Turn, k \in Tool : Verify(c, t, k)
  \/ \E c \in Call : CallStep(c) \/ ConnectFails(c)
  \/ \E r \in Reader, c \in Call, v \in Consent : AnswerHold(r, c, v)
  \/ \E t \in Turn : OpenTurn(t) \/ Expiry(t) \/ Stop(t) \/ EndTurn(t)

Spec == Init /\ [][Next]_vars

(* The event loop turns and the hold's timer fires.  Nothing bounds what    *)
(* the call waits for elsewhere: the worker's client may never connect, and *)
(* a tool may never end, since the gateway gives it a signal and no timeout *)
(* (tool-directory.service.ts:210-216, 281-287).                            *)
LoopStep(c) == Bind(c) \/ Dispatch(c) \/ HoldExpires(c)
FairSpec == Spec /\ \A c \in Call : WF_vars(LoopStep(c))

-----------------------------------------------------------------------------
(* Every variable keeps its type; the lane's count is never negative, and   *)
(* only tools that need consent are remembered.                             *)
TypeOK ==
  /\ turn \in [Turn -> {"preparing", "running", "ended"}]
  /\ aborted \in [Turn -> BOOLEAN]
  /\ allowed \in [Turn -> SUBSET Gated] /\ grants \subseteq Turn
  /\ pc \in [Call -> PC] /\ of \in [Call -> Turn \cup {NoTurn}]
  /\ tool \in [Call -> Tool \cup {NoTool}]
  /\ answer \in [Call -> Answer]
  /\ pending \subseteq Call /\ timers \subseteq Call /\ listening \subseteq Call
  /\ accepted \in [Call -> {NoConsent} \cup (Reader \X Consent)]
  /\ active \in Nat /\ queue \in Seq(Call)

(* A reader's answer the controller acknowledged is the one the call acts   *)
(* on: an expired hold is never acknowledged, and never runs.               *)
AcceptedAnswerDecides ==
  \A c \in Call : accepted[c] # NoConsent =>
    IF accepted[c][2] = "denied" THEN answer[c] = "declined"
    ELSE pc[c] = "running" \/ answer[c] = "result"

(* A tool the gate asks about runs only on the consent of the turn's own    *)
(* reader: to this call, or to an earlier one of the turn with "remember".  *)
ConsentBeforeRun ==
  \A c \in Call :
    /\ tool[c] \in Gated /\ Gate[of[c]][tool[c]] = "ask"
    /\ pc[c] = "running" \/ answer[c] = "result"
    => \/ accepted[c] = <<Owner[of[c]], "approved">>
       \/ \E d \in Call : /\ of[d] = of[c] /\ tool[d] = tool[c]
                          /\ accepted[d] = <<Owner[of[c]], "remembered">>

(* Nothing waits on behalf of a turn whose signal fired: no hold of it can  *)
(* be answered, none has a timer, and no waiter of it is in the lane, even  *)
(* for a call that reached the gateway after the signal.                    *)
AbortedTurnWaitsForNobody ==
  \A c \in Call : pc[c] # "new" /\ aborted[of[c]] =>
    /\ pc[c] \notin {"held", "queued"}
    /\ c \notin pending \cup timers \cup ToSet(queue)

(* The lane is a limiter over the calls of all turns: no overtaking of the  *)
(* line, no waiting while a slot is free, and a slot that is left goes to   *)
(* the first waiter whose turn has not been aborted.                        *)
Lane == INSTANCE Limiter WITH
          Client <- Call,
          inside <- {c \in Call : pc[c] = "running" /\ tool[c] \in Worker},
          line <- queue
LaneImplementsLimiter == Lane!Spec

(* A call that waited for the reader, the worker's client or a slot starts  *)
(* only while its turn's signal has not fired.                              *)
NoLateStart ==
  [][\A c \in Call : pc[c] \in {"held", "connecting", "queued"} /\ pc'[c] = "running"
                      => ~aborted[of[c]]]_vars

(* The gateway itself keeps nobody waiting, whatever the reader does: in    *)
(* the end every call that came is answered, or what it waits for is the    *)
(* start of its own client, the end of its own tool, or the end of as many  *)
(* worker tools as the lane has slots.                                      *)
LaneFull == Cardinality({d \in Call : pc[d] = "running" /\ tool[d] \in Worker}) = Limit
Settled(c) == \/ pc[c] \in {"new", "answered", "connecting", "running"}
              \/ pc[c] = "queued" /\ LaneFull
GatewayCallAnswered == <>[](\A c \in Call : Settled(c))
=============================================================================
