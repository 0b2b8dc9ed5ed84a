------------------------------ MODULE AgentTurn ------------------------------
(***************************************************************************)
(* One agent turn of the chat api, from the request to its outcome         *)
(* (agent-turn.service.ts), over the connection to codex's app server      *)
(* (app-server.service.ts, json-rpc.ts) and the buffer that keeps its      *)
(* notifications for the turn (notification-queue.ts).                     *)
(*                                                                         *)
(* A step is one callback with the promise jobs it starts.  Turns share    *)
(* one app server; a process of it is named by the number of its start.    *)
(* A thread is named by the turn that started it.  Notifications that      *)
(* neither decide the gateway's status nor complete a turn only draw on    *)
(* the page and are left out.                                              *)
(*                                                                         *)
(* Codex is external: it handles a request before it answers, tells once   *)
(* per load of a thread whether the gateway came up, ends a turn at any    *)
(* time or never, and drops the turn of a thread that is unsubscribed,     *)
(* which is what openThread relies on to load the thread again.            *)
(***************************************************************************)
EXTENDS Integers, Sequences, FiniteSets

CONSTANTS Turn, Conversation, SessionOf, NoThread

AgentWellFormed == SessionOf \in [Turn -> Conversation] /\ NoThread \notin Turn

ASSUME TurnAssumption == AgentWellFormed

VARIABLES
  at,       \* what run awaits
  asked,    \* the pending request: sent, handled by codex, or none
  gen,      \* the process whose connection the turn uses
  open,     \* turns whose queue is subscribed
  items,    \* the queue
  stop,     \* the reason of the stop signal, or none
  outcome,
  thread,   \* the conversation's stored thread
  opened,   \* the thread the turn runs on
  load,     \* codex: the turn's load of the thread: none, loading, told
  work,     \* codex: the turn itself: none, running, ended, dropped
  running,  \* the process AppServerService keeps, 0 for none
  conn,     \* of each process: none, handshake, ready, refused, closed
  shared,   \* history: turns that overlapped another of their conversation,
            \* could not unload what an earlier one left, or heard of its load
  due       \* history: turns codex completed while they were subscribed

serverVars == <<running, conn>>
codexVars == <<load, work>>
agentVars == <<at, asked, gen, open, items, stop, outcome, thread, opened, load, work,
               running, conn, shared, due>>

Gen == 1 .. Cardinality(Turn)
Requests == {"unsubscribe", "resume", "thread", "turn", "interrupt"}
PC == {"new", "prepare", "connect", "lookup", "remember", "gateway", "read", "done"} \cup Requests
Outcome == {"none", "completed", "aborted", "failed", "unavailable", "error"}
Status(k, v) == [kind |-> "status", thread |-> k, says |-> v]
Completed(k, t, v) == [kind |-> "completed", thread |-> k, turn |-> t, says |-> v]

AgentInit ==
  /\ at = [t \in Turn |-> "new"] /\ asked = [t \in Turn |-> "none"]
  /\ gen = [t \in Turn |-> 0] /\ open = {} /\ items = [t \in Turn |-> <<>>]
  /\ stop = [t \in Turn |-> "none"] /\ outcome = [t \in Turn |-> "none"]
  /\ thread = [s \in Conversation |-> NoThread] /\ opened = [t \in Turn |-> NoThread]
  /\ load = [t \in Turn |-> "none"] /\ work = [t \in Turn |-> "none"]
  /\ running = 0 /\ conn = [g \in Gen |-> "none"]
  /\ shared = {} /\ due = {}

-----------------------------------------------------------------------------
Active(t) == at[t] \notin {"new", "done"}
Up(t) == conn[gen[t]] = "ready"

(* run's finally blocks: the queue is closed, with the grant, and the       *)
(* outcome is written.  "error" is a throw, rendered by the stream.         *)
Ended(T, O) ==
  /\ at' = [t \in Turn |-> IF t \in T THEN "done" ELSE at[t]]
  /\ asked' = [t \in Turn |-> IF t \in T THEN "none" ELSE asked[t]]
  /\ outcome' = [t \in Turn |-> IF t \in T THEN O[t] ELSE outcome[t]]
  /\ items' = [t \in Turn |-> IF t \in T THEN <<>> ELSE items[t]]
End(t, o) == Ended({t}, [u \in {t} |-> o]) /\ open' = open \ {t}

(* conclude *)
Conclusion(t, v) ==
  IF v = "completed" THEN "completed"
  ELSE IF stop[t] = "reader" THEN "aborted" ELSE "failed"

(* request: on a connection that is closed it rejects at once. *)
Send(t, m) ==
  IF Up(t)
  THEN /\ at' = [at EXCEPT ![t] = m] /\ asked' = [asked EXCEPT ![t] = "sent"]
       /\ UNCHANGED <<open, items, outcome>>
  ELSE End(t, IF m = "interrupt" THEN Conclusion(t, "none") ELSE "error")

Goes(t, p) ==
  /\ at' = [at EXCEPT ![t] = p] /\ asked' = [asked EXCEPT ![t] = "none"]
  /\ UNCHANGED <<open, items, outcome>>

-----------------------------------------------------------------------------
(* The app server. *)

Waiting(g) == {t \in Turn : at[t] = "connect" /\ gen[t] = g}

(* The new NotificationQueue subscribes.  A stop signal that has fired      *)
(* already fires no listener.                                               *)
Subscribe(T) == /\ open' = open \cup T
                /\ UNCHANGED <<asked, items, outcome>>

(* connection: the process is started unless one is kept. *)
Prepared(t) ==
  /\ at[t] = "prepare"
  /\ \/ /\ End(t, "error")
        /\ UNCHANGED <<gen, serverVars>>
     \/ LET g == IF running = 0 THEN Cardinality({h \in Gen : conn[h] # "none"}) + 1
                 ELSE running IN
        /\ gen' = [gen EXCEPT ![t] = g] /\ running' = g
        /\ conn' = IF running = 0 THEN [conn EXCEPT ![g] = "handshake"] ELSE conn
        /\ \/ conn'[g] = "handshake" /\ Goes(t, "connect")
           \/ /\ conn'[g] = "ready"
              /\ at' = [at EXCEPT ![t] = "lookup"] /\ Subscribe({t})
           \/ conn'[g] \in {"refused", "closed"} /\ End(t, "error")
  /\ UNCHANGED <<stop, thread, opened, codexVars, shared, due>>

HandshakeOk(g) ==
  /\ conn[g] = "handshake"
  /\ conn' = [conn EXCEPT ![g] = "ready"]
  /\ at' = [t \in Turn |-> IF t \in Waiting(g) THEN "lookup" ELSE at[t]]
  /\ Subscribe(Waiting(g))
  /\ UNCHANGED <<gen, stop, thread, opened, codexVars, running, shared, due>>

(* The process is killed, and kept until it exits. *)
HandshakeFails(g) ==
  /\ conn[g] = "handshake"
  /\ conn' = [conn EXCEPT ![g] = "refused"]
  /\ Ended(Waiting(g), [t \in Waiting(g) |-> "error"])
  /\ UNCHANGED <<gen, open, stop, thread, opened, codexVars, running, shared, due>>

(* JsonRpcConnection.close: pending requests reject, the queues close and   *)
(* keep what they buffered.                                                 *)
Closed(g) ==
  LET failing == {t \in Turn : /\ gen[t] = g
                               /\ at[t] \in {"connect"} \cup Requests} IN
  /\ conn' = [conn EXCEPT ![g] = "closed"]
  /\ Ended(failing, [t \in failing |-> IF at[t] = "interrupt"
                                       THEN Conclusion(t, "none") ELSE "error"])
  /\ open' = {t \in open : gen[t] # g}
  /\ work' = [t \in Turn |-> IF gen[t] = g /\ work[t] = "running" THEN "dropped" ELSE work[t]]
  /\ load' = [t \in Turn |-> IF gen[t] = g /\ load[t] = "loading" THEN "none" ELSE load[t]]
  /\ UNCHANGED <<gen, stop, thread, opened, shared, due>>

Exit(g) ==
  /\ conn[g] \in {"handshake", "ready", "refused"}
  /\ running' = IF running = g THEN 0 ELSE running
  /\ Closed(g)

(* The process could not be spawned: an "error" event, and never an exit. *)
SpawnFails(g) ==
  /\ conn[g] = "handshake"
  /\ Closed(g) /\ UNCHANGED running

-----------------------------------------------------------------------------
(* Codex. *)

Push(g, n) ==
  items' = [u \in Turn |-> IF u \in open /\ gen[u] = g THEN Append(items[u], n) ELSE items[u]]

(* The thread leaves memory, and with it what runs on it. *)
Unload(k) ==
  /\ work' = [u \in Turn |-> IF opened[u] = k /\ work[u] = "running" THEN "dropped" ELSE work[u]]
  /\ load' = [u \in Turn |-> IF opened[u] = k /\ load[u] = "loading" THEN "none" ELSE load[u]]

Handle(t) ==
  /\ asked[t] = "sent" /\ Up(t)
  /\ asked' = [asked EXCEPT ![t] = "handled"]
  /\ \/ at[t] = "unsubscribe" /\ Unload(opened[t]) /\ UNCHANGED opened
     \/ /\ at[t] = "resume"
        /\ load' = [load EXCEPT ![t] = "loading"] /\ UNCHANGED <<work, opened>>
     \/ /\ at[t] = "thread" /\ opened' = [opened EXCEPT ![t] = t]
        /\ load' = [load EXCEPT ![t] = "loading"] /\ UNCHANGED work
     \/ /\ at[t] = "turn"
        /\ work' = [work EXCEPT ![t] = "running"] /\ UNCHANGED <<load, opened>>
     \/ at[t] = "interrupt" /\ UNCHANGED <<load, work, opened>>
  /\ UNCHANGED <<at, gen, open, items, stop, outcome, thread, serverVars, shared, due>>

(* mcpServer/startupStatus/updated, past "starting". *)
Tell(t, v) ==
  /\ load[t] = "loading" /\ Up(t)
  /\ load' = [load EXCEPT ![t] = "told"]
  /\ Push(gen[t], Status(opened[t], v))
  /\ shared' = shared \cup {u \in open \ {t} : gen[u] = gen[t] /\ SessionOf[u] = SessionOf[t]}
  /\ UNCHANGED <<at, asked, gen, open, stop, outcome, thread, opened, work, serverVars, due>>

(* turn/completed, of a turn that completed, failed or was interrupted. *)
CodexEnds(t, v) ==
  /\ work[t] = "running" /\ Up(t)
  /\ work' = [work EXCEPT ![t] = v]
  /\ Push(gen[t], Completed(opened[t], t, v))
  /\ due' = IF v = "completed" /\ t \in open THEN due \cup {t} ELSE due
  /\ UNCHANGED <<at, asked, gen, open, stop, outcome, thread, opened, load, serverVars, shared>>

-----------------------------------------------------------------------------
(* A turn. *)

(* stream calls run.  Nothing keeps two turns of a conversation apart. *)
Begin(t) ==
  LET others == {u \in Turn : SessionOf[u] = SessionOf[t] /\ Active(u)} IN
  /\ at[t] = "new"
  /\ at' = [at EXCEPT ![t] = "prepare"]
  /\ shared' = IF others = {} THEN shared ELSE shared \cup others \cup {t}
  /\ UNCHANGED <<asked, gen, open, items, stop, outcome, thread, opened, codexVars,
                 serverVars, due>>

(* openThread: the stored thread is unsubscribed and resumed, and replaced  *)
(* when that fails.                                                         *)
Lookup(t) ==
  LET k == thread[SessionOf[t]] IN
  /\ at[t] = "lookup"
  /\ opened' = [opened EXCEPT ![t] = k]
  /\ Send(t, IF k = NoThread THEN "thread" ELSE "unsubscribe")
  /\ UNCHANGED <<gen, stop, thread, codexVars, serverVars, shared, due>>

(* Mutant: the turn is followed from its answer on. *)
AnswerThenSubscribe(t) ==
  /\ asked[t] = "handled" /\ Up(t)
  /\ \/ at[t] = "unsubscribe" /\ Send(t, "resume")
     \/ at[t] = "resume" /\ Goes(t, "gateway")
     \/ at[t] = "thread" /\ Goes(t, "remember")
     \/ /\ at[t] = "turn" /\ items' = [items EXCEPT ![t] = <<>>]
        /\ at' = [at EXCEPT ![t] = "read"] /\ asked' = [asked EXCEPT ![t] = "none"]
        /\ UNCHANGED <<open, outcome>>
     \/ at[t] = "interrupt" /\ End(t, Conclusion(t, "none"))
  /\ UNCHANGED <<gen, stop, thread, opened, codexVars, serverVars, shared, due>>

Answer(t) ==
  /\ asked[t] = "handled" /\ Up(t)
  /\ \/ at[t] = "unsubscribe" /\ Send(t, "resume")
     \/ at[t] = "resume" /\ Goes(t, "gateway")
     \/ at[t] = "thread" /\ Goes(t, "remember")
     \/ at[t] = "turn" /\ Goes(t, "read")
     \/ at[t] = "interrupt" /\ End(t, Conclusion(t, "none"))
  /\ UNCHANGED <<gen, stop, thread, opened, codexVars, serverVars, shared, due>>

(* An error answer.  A failed unsubscribe is ignored, and leaves whatever   *)
(* codex still runs on the thread.                                          *)
Refuse(t) ==
  /\ asked[t] = "sent" /\ Up(t)
  /\ \/ at[t] = "unsubscribe" /\ Send(t, "resume")
     \/ at[t] = "resume" /\ Send(t, "thread")
     \/ at[t] \in {"thread", "turn"} /\ End(t, "error")
     \/ at[t] = "interrupt" /\ End(t, Conclusion(t, "none"))
  /\ shared' = IF at[t] = "unsubscribe" THEN shared \cup {t} ELSE shared
  /\ UNCHANGED <<gen, stop, thread, opened, codexVars, serverVars, due>>

Remember(t) ==
  /\ at[t] = "remember"
  /\ thread' = [thread EXCEPT ![SessionOf[t]] = opened[t]]
  /\ Goes(t, "gateway")
  /\ UNCHANGED <<gen, stop, opened, codexVars, serverVars, shared, due>>

(* A statement of openThread fails, and the turn with it; the thread may    *)
(* have been stored.                                                        *)
DatabaseFails(t) ==
  /\ at[t] \in {"lookup", "remember"} /\ End(t, "error")
  /\ \/ UNCHANGED thread
     \/ at[t] = "remember" /\ thread' = [thread EXCEPT ![SessionOf[t]] = opened[t]]
  /\ UNCHANGED <<gen, stop, opened, codexVars, serverVars, shared, due>>

Shift(t, p) ==
  /\ items' = [items EXCEPT ![t] = Tail(@)] /\ at' = [at EXCEPT ![t] = p]
  /\ UNCHANGED <<open, outcome>>

(* Mutant: only what concerns the gateway is taken from the queue. *)
GatewayPeek(t) ==
  LET told == SelectSeq(items[t], LAMBDA n : n.kind = "status" /\ n.thread = opened[t]) IN
  /\ at[t] = "gateway" /\ items[t] # <<>>
  /\ IF told # <<>> /\ Head(told).says = "ready" /\ Up(t)
     THEN /\ at' = [at EXCEPT ![t] = "turn"] /\ asked' = [asked EXCEPT ![t] = "sent"]
          /\ UNCHANGED <<open, items, outcome>>
     ELSE End(t, "unavailable")
  /\ UNCHANGED <<gen, stop, thread, opened, codexVars, serverVars, shared, due>>

(* gatewayReady: everything before the status of the thread's gateway is    *)
(* passed over, and turn/start follows "ready".                             *)
GatewayItem(t) ==
  /\ at[t] = "gateway" /\ items[t] # <<>>
  /\ LET n == Head(items[t])  mine == n.kind = "status" /\ n.thread = opened[t] IN
     \/ ~mine /\ Shift(t, "gateway") /\ UNCHANGED asked
     \/ /\ mine /\ n.says = "ready" /\ Up(t)
        /\ Shift(t, "turn") /\ asked' = [asked EXCEPT ![t] = "sent"]
     \/ mine /\ n.says = "ready" /\ ~Up(t) /\ End(t, "error")
     \/ mine /\ n.says = "failed" /\ End(t, "unavailable")
  /\ UNCHANGED <<gen, stop, thread, opened, codexVars, serverVars, shared, due>>

(* Nothing more comes, or the ten seconds are over. *)
GatewayNone(t) ==
  /\ at[t] = "gateway" /\ items[t] = <<>>
  /\ End(t, "unavailable")
  /\ UNCHANGED <<gen, stop, thread, opened, codexVars, serverVars, shared, due>>

(* drive: until the thread's turn/completed. *)
ReadItem(t) ==
  /\ at[t] = "read" /\ items[t] # <<>>
  /\ LET n == Head(items[t])  mine == n.kind = "completed" /\ n.thread = opened[t] IN
     \/ ~mine /\ Shift(t, "read") /\ UNCHANGED asked
     \/ mine /\ End(t, Conclusion(t, n.says))
  /\ UNCHANGED <<gen, stop, thread, opened, codexVars, serverVars, shared, due>>

ReadNone(t) ==
  /\ at[t] = "read" /\ items[t] = <<>> /\ t \notin open
  /\ Send(t, "interrupt")
  /\ UNCHANGED <<gen, stop, thread, opened, codexVars, serverVars, shared, due>>

InterruptGrace(t) ==
  /\ at[t] = "interrupt"
  /\ End(t, Conclusion(t, "none"))
  /\ UNCHANGED <<gen, stop, thread, opened, codexVars, serverVars, shared, due>>

(* Mutant: the queue does not listen to the signal. *)
StopUnheard(t, why) ==
  /\ Active(t) /\ stop[t] = "none"
  /\ stop' = [stop EXCEPT ![t] = why]
  /\ UNCHANGED <<at, asked, gen, open, items, outcome, thread, opened, codexVars,
                 serverVars, shared, due>>

(* The reader cancels, or the deadline fires: a queue that listens closes.  *)
Stop(t, why) ==
  /\ Active(t) /\ stop[t] = "none"
  /\ stop' = [stop EXCEPT ![t] = why]
  /\ open' = open \ {t}
  /\ UNCHANGED <<at, asked, gen, items, outcome, thread, opened, codexVars,
                 serverVars, shared, due>>

-----------------------------------------------------------------------------
TurnStep(t) ==
  \/ Prepared(t) \/ Lookup(t) \/ Remember(t) \/ DatabaseFails(t)
  \/ GatewayItem(t) \/ GatewayNone(t) \/ ReadItem(t) \/ ReadNone(t) \/ InterruptGrace(t)
CodexAnswers(t) == Handle(t) \/ Answer(t) \/ Refuse(t)
Handshake(g) == HandshakeOk(g) \/ HandshakeFails(g)

AllDone == (\A t \in Turn : at[t] = "done") /\ UNCHANGED agentVars

AgentNext ==
  \/ \E t \in Turn :
       \/ Begin(t) \/ TurnStep(t) \/ CodexAnswers(t)
       \/ Stop(t, "reader") \/ Stop(t, "deadline")
       \/ Tell(t, "ready") \/ Tell(t, "failed")
       \/ CodexEnds(t, "completed") \/ CodexEnds(t, "interrupted")
  \/ \E g \in Gen : Handshake(g) \/ Exit(g) \/ SpawnFails(g)
  \/ AllDone

AgentSpec == AgentInit /\ [][AgentNext]_agentVars

(* The event loop turns, the timers fire, and codex answers what it is      *)
(* asked or goes away.  It need not end a turn.                             *)
AgentFairSpec ==
  /\ AgentSpec
  /\ \A t \in Turn : /\ WF_agentVars(TurnStep(t)) /\ WF_agentVars(CodexAnswers(t))
                     /\ WF_agentVars(Stop(t, "deadline"))
  /\ \A g \in Gen : WF_agentVars(Handshake(g))

-----------------------------------------------------------------------------
(* Every variable keeps its type. *)
AgentTypeOK ==
  /\ at \in [Turn -> PC] /\ asked \in [Turn -> {"none", "sent", "handled"}]
  /\ gen \in [Turn -> {0} \cup Gen] /\ open \subseteq Turn
  /\ stop \in [Turn -> {"none", "reader", "deadline"}]
  /\ outcome \in [Turn -> Outcome]
  /\ thread \in [Conversation -> Turn \cup {NoThread}] /\ opened \in [Turn -> Turn \cup {NoThread}]
  /\ load \in [Turn -> {"none", "loading", "told"}]
  /\ work \in [Turn -> {"none", "running", "completed", "interrupted", "dropped"}]
  /\ running \in {0} \cup Gen
  /\ conn \in [Gen -> {"none", "handshake", "ready", "refused", "closed"}]
  /\ shared \subseteq Turn /\ due \subseteq Turn
  /\ \A t \in Turn : \A i \in DOMAIN items[t] : items[t][i].thread \in Turn

(* A turn reports completed only when codex completed that very turn: the   *)
(* late end of an earlier turn of the conversation, which names the same    *)
(* thread, is never taken for its own.  The turns in shared are left out:   *)
(* gatewayReady and drive tell notifications apart by their thread alone.   *)
OwnCompletion ==
  \A t \in Turn \ shared : outcome[t] = "completed" => work[t] = "completed"

(* A completion that reached the turn's queue decides, though it came       *)
(* before turn/start answered, or a stop or the loss of the connection      *)
(* followed it before it was read.  Only a turn/start whose answer is lost  *)
(* ends in an error.                                                        *)
CompletionKept ==
  \A t \in due \ shared : at[t] # "interrupt" /\ outcome[t] \in {"none", "completed", "error"}

(* A turn whose stop signal had not fired when it subscribed concludes by   *)
(* its deadline at the latest, though codex never ends it.                  *)
TurnConcludes == \A t \in Turn : t \in open /\ stop[t] = "none" ~> at[t] = "done"
=============================================================================
