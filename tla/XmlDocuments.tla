---------------------------- MODULE XmlDocuments ----------------------------
(***************************************************************************)
(* The XML server's document path: the tool calls that take the one slot   *)
(* of the worker pool (tools/handlers.ts, host/pool.ts), the store of      *)
(* loaded documents and its retry (host/document.ts, file-core             *)
(* documents.ts) and the worker that keeps the parsed documents            *)
(* (xml-worker.ts).                                                        *)
(*                                                                         *)
(* A step is one turn of the host's event loop with the promise jobs it    *)
(* starts, or one message the worker handles.  A document is a path and    *)
(* the version of its bytes; a stamp is that pair.  Documents read in      *)
(* chunked mode, which never live in the worker, are left out.             *)
(***************************************************************************)
EXTENDS Integers, Sequences, Queues

CONSTANTS
  Call,            \* tool calls; a call that returned may be made again
  Path,
  StoreSize,       \* documentCacheSize
  WorkerCapacity,  \* workerCapacityFor(documentCacheSize)
  QueueDepth,      \* maxQueueDepth
  MaxVersion,      \* bound on the versions of a file
  MaxFaults,       \* bound on edits, aborts, worker deaths and slow replies
  Closer,          \* the id of the release request that close sends
  NoPath           \* a request or a call that names no document

ASSUME SizeAssumption ==
  StoreSize \in Nat \ {0} /\ WorkerCapacity \in Nat \ {0} /\ QueueDepth \in Nat
ASSUME BoundAssumption == MaxVersion \in Nat /\ MaxFaults \in Nat /\ Closer \notin Call /\ NoPath \notin Path

VARIABLES
  pc,         \* what a call awaits: a slot, the file, or the answer to a request
  mode,       \* where its request stands
  path,       \* the document a call reads
  loaded,     \* the version of the stamp the call reports
  asked,      \* the version of the stamp its last request named
  tried,      \* did the worker lose the document once in this call
  aborted,    \* the call's signal
  startGen,   \* history: the generation when the call began
  outcome,    \* what the call returned
  busy, waiting, closed, generation,  \* the pool's own state
  wstate,     \* the pool's worker
  inbox,      \* requests posted to it
  outbox,     \* replies it posted
  docs,       \* its documents, least recently used first
  store,      \* the store's entries, least recently used first
  closing,    \* how far close has come
  release,    \* the release request of close
  version,    \* the files
  faults

callVars == <<path, loaded, asked, tried, aborted, startGen>>
slotVars == <<busy, waiting>>
workerVars == <<wstate, inbox, outbox, docs>>
closeVars == <<closed, closing, release>>
vars == <<pc, mode, path, loaded, asked, tried, aborted, startGen, outcome, busy, waiting, closed,
          generation, wstate, inbox, outbox, docs, store, closing, release, version, faults>>

Version == 0..MaxVersion
Stamp == [path : Path \cup {NoPath}, version : Version]
Entry == [path : Path, version : Version, generation : Nat]
Kind == {"parse", "ask", "release"}
Result == {"ok", "failed", "unknown_residency"}

(* The calls that hold the slot. *)
Inside == {c \in Call : pc[c] \in {"load", "parse", "ask"}}

(* Every variable keeps its type; the worker's and the store's caches stay  *)
(* within their capacities, and the queue within maxQueueDepth.             *)
TypeOK ==
  /\ pc \in [Call -> {"new", "wait", "load", "parse", "ask"}]
  /\ mode \in [Call -> {"idle", "boot", "asking", "orphan", "unborn", "killing", "over"}]
  /\ path \in [Call -> Path \cup {NoPath}]
  /\ loaded \in [Call -> Version] /\ asked \in [Call -> Version]
  /\ tried \in [Call -> BOOLEAN] /\ aborted \in [Call -> BOOLEAN]
  /\ startGen \in [Call -> Nat]
  /\ outcome \in [Call -> {"none", "ok", "failed", "resource_limit", "lost_twice", "mismatch"}]
  /\ busy \in BOOLEAN /\ closed \in BOOLEAN
  /\ waiting \in Seq(Call) /\ Len(waiting) <= QueueDepth
  /\ generation \in Nat
  /\ wstate \in {"none", "booting", "up"}
  /\ inbox \in Seq([by : Call \cup {Closer}, kind : Kind, stamp : Stamp])
  /\ outbox \in Seq([by : Call \cup {Closer}, kind : Kind, result : Result])
  /\ docs \in Seq(Stamp) /\ Len(docs) <= WorkerCapacity
  /\ store \in Seq(Entry) /\ Len(store) <= StoreSize
  /\ closing \in {"open", "draining", "closed"}
  /\ release \in {"none", "pending", "settled"}
  /\ version \in [Path -> Version]
  /\ faults \in 0..MaxFaults

Init ==
  /\ pc = [c \in Call |-> "new"] /\ mode = [c \in Call |-> "idle"]
  /\ path = [c \in Call |-> NoPath]
  /\ loaded = [c \in Call |-> 0] /\ asked = [c \in Call |-> 0]
  /\ tried = [c \in Call |-> FALSE] /\ aborted = [c \in Call |-> FALSE]
  /\ startGen = [c \in Call |-> 0] /\ outcome = [c \in Call |-> "none"]
  /\ busy = FALSE /\ waiting = <<>> /\ closed = FALSE /\ generation = 0
  /\ wstate = "none" /\ inbox = <<>> /\ outbox = <<>> /\ docs = <<>>
  /\ store = <<>>
  /\ closing = "open" /\ release = "none"
  /\ version = [p \in Path |-> 0]
  /\ faults = 0

(* A Map kept in least-recently-used order, cut to its capacity. *)
Others(s, p) == Without(s, {e \in ToSet(s) : e.path = p})
CutTo(s, n) == IF Len(s) > n THEN SubSeq(s, Len(s) - n + 1, Len(s)) ELSE s
Latest(s, e, n) == CutTo(Append(Others(s, e.path), e), n)

Set(f, c, x) == [f EXCEPT ![c] = x]
Over(c, o) == mode' = Set(mode, c, "over") /\ outcome' = Set(outcome, c, o)

-----------------------------------------------------------------------------
(* The slot: pool.slots and the finally of withSlot. *)

Start(c) ==
  /\ tried' = Set(tried, c, FALSE) /\ aborted' = Set(aborted, c, FALSE)
  /\ startGen' = Set(startGen, c, generation)
  /\ UNCHANGED <<path, loaded, asked>>

SlotsRefused(c) ==
  /\ pc[c] = "new"
  /\ closed \/ (busy /\ Len(waiting) >= QueueDepth)
  /\ outcome' = Set(outcome, c, "resource_limit")
  /\ UNCHANGED <<pc, mode, callVars, slotVars, closeVars, generation, workerVars, store,
                 version, faults>>

SlotsFree(c) ==
  /\ pc[c] = "new" /\ ~closed /\ ~busy
  /\ busy' = TRUE
  /\ pc' = Set(pc, c, "load")
  /\ Start(c)
  /\ outcome' = Set(outcome, c, "none")
  /\ UNCHANGED <<mode, waiting, closeVars, generation, workerVars, store, version, faults>>

SlotsWait(c) ==
  /\ pc[c] = "new" /\ ~closed /\ busy /\ Len(waiting) < QueueDepth
  /\ waiting' = Append(waiting, c)
  /\ pc' = Set(pc, c, "wait")
  /\ Start(c)
  /\ outcome' = Set(outcome, c, "none")
  /\ UNCHANGED <<mode, busy, closeVars, generation, workerVars, store, version, faults>>

(* Mutant: release marks the slot free and resumes the next waiter too. *)
ReleaseFreesAndResumes(c) ==
  /\ mode[c] = "over"
  /\ mode' = Set(mode, c, "idle")
  /\ busy' = FALSE
  /\ IF waiting = <<>>
       THEN pc' = Set(pc, c, "new") /\ waiting' = waiting
       ELSE pc' = [pc EXCEPT ![c] = "new", ![Head(waiting)] = "load"] /\ waiting' = Tail(waiting)
  /\ UNCHANGED <<callVars, outcome, closeVars, generation, workerVars, store, version, faults>>

Release(c) ==
  /\ mode[c] = "over"
  /\ mode' = Set(mode, c, "idle")
  /\ IF waiting = <<>>
       THEN pc' = Set(pc, c, "new") /\ waiting' = waiting /\ busy' = FALSE
       ELSE pc' = [pc EXCEPT ![c] = "new", ![Head(waiting)] = "load"]
            /\ waiting' = Tail(waiting) /\ busy' = busy
  /\ UNCHANGED <<callVars, outcome, closeVars, generation, workerVars, store, version, faults>>

-----------------------------------------------------------------------------
(* pool.send *)

(* The request is posted unless the call's signal has fired; only the      *)
(* question carries the signal, the parse of a load does not.              *)
Submit(c, kind, s) ==
  IF kind = "ask" /\ aborted[c]
    THEN Over(c, "resource_limit") /\ inbox' = inbox
    ELSE /\ mode' = Set(mode, c, "asking")
         /\ inbox' = Append(inbox, [by |-> c, kind |-> kind, stamp |-> s])
         /\ outcome' = outcome

(* send: refuse when closed, spawn a worker when there is none. *)
Send(c, kind, s) ==
  /\ pc' = Set(pc, c, kind)
  /\ asked' = Set(asked, c, s.version)
  /\ IF closed
       THEN Over(c, "resource_limit") /\ UNCHANGED workerVars
       ELSE IF wstate = "none"
              THEN /\ mode' = Set(mode, c, "boot")
                   /\ wstate' = "booting" /\ docs' = <<>>
                   /\ UNCHANGED <<inbox, outbox, outcome>>
              ELSE Submit(c, kind, s) /\ UNCHANGED <<wstate, outbox, docs>>

(* The worker's boot message; the call that spawned it posts its request.  *)
Boot(c) ==
  /\ mode[c] = "boot"
  /\ wstate' = "up"
  /\ Submit(c, pc[c], [path |-> path[c], version |-> asked[c]])
  /\ UNCHANGED <<pc, callVars, slotVars, closeVars, generation, outbox, docs, store,
                 version, faults>>

(* What the loss of a worker leaves: the listeners clear the store, and a  *)
(* request that was posted, or waits for the boot message, is orphaned.    *)
Orphaned(m) == CASE m = "asking" -> "orphan" [] m = "boot" -> "unborn" [] OTHER -> m
LoseWorker ==
  /\ wstate' = "none" /\ inbox' = <<>> /\ outbox' = <<>> /\ docs' = <<>>
  /\ generation' = generation + 1
  /\ store' = <<>>

(* Mutant: kill moves the generation without telling the listeners. *)
KillUnannounced ==
  IF wstate = "none"
    THEN generation' = generation + 1 /\ UNCHANGED <<workerVars, store>>
    ELSE /\ wstate' = "none" /\ inbox' = <<>> /\ outbox' = <<>> /\ docs' = <<>>
         /\ generation' = generation + 1
         /\ store' = store

Kill ==
  IF wstate = "none"
    THEN generation' = generation + 1 /\ UNCHANGED <<workerVars, store>>
    ELSE LoseWorker

(* abandon: settle, kill the pool's worker, answer once it has exited.  A   *)
(* reply that was under way finds the listener gone.                        *)
Abandon(c) ==
  /\ Kill
  /\ mode' = [d \in Call |-> IF d = c THEN "killing" ELSE Orphaned(mode[d])]
  /\ UNCHANGED <<pc, outcome, slotVars, closeVars, version>>

(* Mutant: the budget timer is lost with the worker. *)
TimeoutOnlyWhileServed(c) ==
  /\ mode[c] = "asking" /\ faults < MaxFaults /\ faults' = faults + 1
  /\ Abandon(c)
  /\ UNCHANGED callVars

(* The budget of a request runs out: the worker is slow, or gone. *)
Timeout(c) ==
  /\ \/ mode[c] = "asking" /\ faults < MaxFaults /\ faults' = faults + 1
     \/ mode[c] = "orphan" /\ faults' = faults
  /\ Abandon(c)
  /\ UNCHANGED callVars

Abort(c) ==
  /\ pc[c] # "new" /\ mode[c] # "over" /\ ~aborted[c] /\ faults < MaxFaults
  /\ faults' = faults + 1
  /\ aborted' = Set(aborted, c, TRUE)
  /\ IF pc[c] = "ask" /\ mode[c] \in {"asking", "orphan"}
       THEN Abandon(c)
       ELSE UNCHANGED <<pc, mode, outcome, slotVars, closeVars, generation, workerVars,
                        store, version>>
  /\ UNCHANGED <<path, loaded, asked, tried, startGen>>

Terminated(c) ==
  /\ mode[c] = "killing"
  /\ Over(c, "resource_limit")
  /\ UNCHANGED <<pc, callVars, slotVars, closeVars, generation, workerVars, store, version,
                 faults>>

-----------------------------------------------------------------------------
(* load and ask of the document cache *)

(* The store reads the file; an entry with the same stamp is used, any     *)
(* other file is parsed.  The entry's generation is the pool's             *)
(* (StoreCurrent), so load's second attempt is not taken.  Only the first  *)
(* load of a call fixes the stamp the response reports.                    *)
StoreLoad(c) ==
  /\ pc[c] = "load" /\ mode[c] = "idle"
  /\ \E p \in IF tried[c] THEN {path[c]} ELSE Path :
       LET s == [path |-> p, version |-> version[p]]
           hits == {i \in DOMAIN store : store[i].path = p /\ store[i].version = s.version}
       IN /\ path' = Set(path, c, p)
          /\ loaded' = IF tried[c] THEN loaded ELSE Set(loaded, c, s.version)
          /\ IF hits = {}
               THEN store' = store /\ Send(c, "parse", s)
               ELSE /\ store' = Latest(store, store[CHOOSE i \in hits : TRUE], StoreSize)
                    /\ Send(c, "ask", s)
  /\ UNCHANGED <<tried, aborted, startGen, slotVars, closeVars, generation, version, faults>>

(* A call whose cursor is stale ends between its load and its question. *)
StaleCursor(c) ==
  /\ pc[c] = "load" /\ mode[c] = "idle" /\ ~tried[c]
  /\ \E p \in Path :
       \E i \in DOMAIN store :
         /\ store[i].path = p /\ store[i].version = version[p]
         /\ path' = Set(path, c, p)
         /\ loaded' = Set(loaded, c, version[p])
         /\ store' = Latest(store, store[i], StoreSize)
  /\ Over(c, "failed")
  /\ UNCHANGED <<pc, asked, tried, aborted, startGen, slotVars, closeVars, generation,
                 workerVars, version, faults>>

(* Mutant: the reply listener does not compare ids. *)
AcceptsAny(c, m) == mode[c] = "asking"

Accepts(c, m) == mode[c] = "asking" /\ m.by = c

Settled(c, o) ==
  /\ Over(c, o)
  /\ outbox' = Tail(outbox)
  /\ UNCHANGED <<pc, callVars, wstate, inbox, docs, store>>

(* The parsed document is remembered under the generation read now, and    *)
(* the call goes on to its question.                                       *)
Parsed(c) ==
  LET s == [path |-> path[c], version |-> asked[c]] IN
  /\ store' = Latest(store, [path |-> s.path, version |-> s.version,
                             generation |-> generation], StoreSize)
  /\ pc' = Set(pc, c, "ask")
  /\ outbox' = Tail(outbox)
  /\ IF closed
       THEN Over(c, "resource_limit") /\ inbox' = inbox
       ELSE Submit(c, "ask", s)
  /\ UNCHANGED <<callVars, wstate, docs>>

(* Mutant: the retry after unknown_residency keeps the store. *)
RetryFromStore(c) ==
  /\ IF tried[c]
       THEN Over(c, "lost_twice") /\ UNCHANGED <<pc, tried>>
       ELSE /\ tried' = Set(tried, c, TRUE)
            /\ pc' = Set(pc, c, "load") /\ mode' = Set(mode, c, "idle")
            /\ outcome' = outcome
  /\ store' = store
  /\ outbox' = Tail(outbox)
  /\ UNCHANGED <<path, loaded, asked, aborted, startGen, wstate, inbox, docs>>

Retry(c) ==
  /\ IF tried[c]
       THEN Over(c, "lost_twice") /\ UNCHANGED <<pc, tried, store>>
       ELSE /\ tried' = Set(tried, c, TRUE)
            /\ store' = <<>>
            /\ pc' = Set(pc, c, "load") /\ mode' = Set(mode, c, "idle")
            /\ outcome' = outcome
  /\ outbox' = Tail(outbox)
  /\ UNCHANGED <<path, loaded, asked, aborted, startGen, wstate, inbox, docs>>

Reply(c) ==
  /\ outbox # <<>>
  /\ LET m == Head(outbox) IN
       /\ Accepts(c, m)
       /\ CASE m.kind # pc[c] -> Settled(c, "mismatch")
            [] m.kind = pc[c] /\ m.result = "failed" -> Settled(c, "failed")
            [] m.kind = pc[c] /\ m.result = "unknown_residency" -> Retry(c)
            [] m.kind = pc[c] /\ m.result = "ok" ->
                 IF pc[c] = "parse" THEN Parsed(c) ELSE Settled(c, "ok")
  /\ UNCHANGED <<slotVars, closeVars, generation, version, faults>>

-----------------------------------------------------------------------------
(* xml-worker.ts *)

(* adopt, touch, supersede and evict: one document per path. *)
Adopt(s) == Latest(docs, s, WorkerCapacity)

Handle ==
  /\ wstate = "up" /\ inbox # <<>>
  /\ LET m == Head(inbox)
         Answer(r) == outbox' = Append(outbox, [by |-> m.by, kind |-> m.kind, result |-> r])
     IN CASE m.kind = "parse" ->
               \/ docs' = Adopt(m.stamp) /\ Answer("ok")
               \/ m.stamp \notin ToSet(docs) /\ docs' = docs /\ Answer("failed")
          [] m.kind = "ask" ->
               IF m.stamp \in ToSet(docs)
                 THEN docs' = Adopt(m.stamp) /\ (Answer("ok") \/ Answer("failed"))
                 ELSE docs' = docs /\ Answer("unknown_residency")
          [] m.kind = "release" -> docs' = <<>> /\ Answer("ok")
  /\ inbox' = Tail(inbox)
  /\ UNCHANGED <<pc, mode, callVars, outcome, slotVars, closeVars, generation, wstate, store,
                 version, faults>>

(* The worker is gone, once what it posted was delivered.  Before its boot  *)
(* message an error ends the spawning call; an exit without one leaves that *)
(* call waiting for a message that never comes.                             *)
WorkerDies ==
  /\ wstate # "none" /\ outbox = <<>> /\ faults < MaxFaults
  /\ faults' = faults + 1
  /\ LoseWorker
  /\ \/ /\ mode' = [c \in Call |-> IF mode[c] = "boot" THEN "over" ELSE Orphaned(mode[c])]
        /\ outcome' = [c \in Call |-> IF mode[c] = "boot" THEN "resource_limit" ELSE outcome[c]]
     \/ mode' = [c \in Call |-> Orphaned(mode[c])] /\ UNCHANGED outcome
  /\ UNCHANGED <<pc, callVars, slotVars, closeVars, version>>

-----------------------------------------------------------------------------
(* close *)

ReleaseRequest == [by |-> Closer, kind |-> "release", stamp |-> [path |-> NoPath, version |-> 0]]

(* Mutant: close forgets the queue. *)
CloseKeepsQueue ==
  /\ ~closed
  /\ closed' = TRUE
  /\ IF wstate = "none"
       THEN closing' = "closed" /\ generation' = generation + 1 /\ store' = <<>>
            /\ UNCHANGED <<release, inbox>>
       ELSE /\ closing' = "draining" /\ release' = "pending"
            /\ inbox' = Append(inbox, ReleaseRequest)
            /\ UNCHANGED <<generation, store>>
  /\ UNCHANGED <<pc, waiting, mode, callVars, outcome, busy, wstate, outbox, docs, version, faults>>

(* Every waiter is resumed; a worker is asked to release its documents. *)
Close ==
  /\ ~closed
  /\ closed' = TRUE
  /\ waiting' = <<>>
  /\ pc' = [c \in Call |-> IF pc[c] = "wait" THEN "load" ELSE pc[c]]
  /\ IF wstate = "none"
       THEN closing' = "closed" /\ generation' = generation + 1 /\ store' = <<>>
            /\ UNCHANGED <<release, inbox>>
       ELSE /\ closing' = "draining" /\ release' = "pending"
            /\ inbox' = Append(inbox, ReleaseRequest)
            /\ UNCHANGED <<generation, store>>
  /\ UNCHANGED <<mode, callVars, outcome, busy, wstate, outbox, docs, version, faults>>

ReleaseReply ==
  /\ outbox # <<>> /\ Head(outbox).by = Closer
  /\ release' = "settled"
  /\ outbox' = Tail(outbox)
  /\ UNCHANGED <<pc, mode, callVars, outcome, slotVars, closed, closing, generation, wstate,
                 inbox, docs, store, version, faults>>

(* The reply or the 250 ms timer came first; then kill, and cache.clear.    *)
(* What the worker has posted is delivered before it is gone.               *)
CloseKill ==
  /\ closing = "draining" /\ outbox = <<>>
  /\ closing' = "closed"
  /\ IF wstate = "none"
       THEN generation' = generation + 1 /\ store' = <<>> /\ UNCHANGED workerVars
       ELSE LoseWorker
  /\ mode' = [c \in Call |-> Orphaned(mode[c])]
  /\ UNCHANGED <<pc, callVars, outcome, slotVars, closed, release, version, faults>>

(* The release request's own budget runs out after close. *)
ReleaseTimeout ==
  /\ release = "pending" /\ closing = "closed"
  /\ release' = "settled"
  /\ Kill
  /\ mode' = [c \in Call |-> Orphaned(mode[c])]
  /\ UNCHANGED <<pc, callVars, outcome, slotVars, closed, closing, version, faults>>

(* External: someone writes a file. *)
Edit(p) ==
  /\ version[p] < MaxVersion /\ faults < MaxFaults
  /\ faults' = faults + 1
  /\ version' = [version EXCEPT ![p] = @ + 1]
  /\ UNCHANGED <<pc, mode, callVars, outcome, slotVars, closeVars, generation, workerVars, store>>

(* Once closed, the server may stop. *)
Stopped == closing = "closed" /\ UNCHANGED vars

-----------------------------------------------------------------------------
CallStep(c) ==
  \/ Release(c) \/ StoreLoad(c) \/ StaleCursor(c) \/ Reply(c)
  \/ Timeout(c) \/ Terminated(c)

Next ==
  \/ \E c \in Call : \/ SlotsRefused(c) \/ SlotsFree(c) \/ SlotsWait(c) \/ CallStep(c)
                     \/ Boot(c) \/ Abort(c)
  \/ Handle
  \/ WorkerDies
  \/ Close
  \/ ReleaseReply
  \/ CloseKill
  \/ ReleaseTimeout
  \/ \E p \in Path : Edit(p)
  \/ Stopped

Spec == Init /\ [][Next]_vars

(* The event loop turns, timers fire, and the worker handles its messages  *)
(* unless it dies or is too slow.  That a worker boots is not assumed:     *)
(* nothing bounds the wait for its first message.                          *)
FairSpec == Spec /\ WF_vars(Handle) /\ \A c \in Call : WF_vars(CallStep(c))

-----------------------------------------------------------------------------
(* Properties. *)

(* Until the pool closes its slot is a limiter of one place: handing the    *)
(* slot over never lets a newcomer in beside the resumed waiter or before   *)
(* it, and nobody waits for a slot that is free.                            *)
Slot == INSTANCE Limiter WITH Client <- Call, Limit <- 1, inside <- Inside, line <- waiting
SlotImplementsLimiter == Slot!Init /\ [][closed' \/ Slot!Next \/ UNCHANGED <<Inside, waiting>>]_vars

(* The store holds only documents of the worker the pool would ask, so      *)
(* load's second attempt and "restarted twice" are never reached, whatever  *)
(* kills, exits and late parses happen.                                     *)
StoreCurrent ==
  \A i \in DOMAIN store : wstate # "none" /\ store[i].generation = generation

(* A request is never answered by the reply to another one, the release     *)
(* request of close included.                                               *)
ReplyMatches == \A c \in Call : outcome[c] # "mismatch"

(* A call reports that the worker lost its document twice only when the     *)
(* worker really went away or is being closed: eviction alone never does.   *)
LostTwiceMeansRestart ==
  \A c \in Call : outcome[c] = "lost_twice" => closed \/ generation > startGen[c]

(* The timeout or abort of one call never kills the worker under another    *)
(* call's request.                                                          *)
InnocentNeverKilled ==
  [][\A c, d \in Call : /\ mode[c] # "killing" /\ mode'[c] = "killing"
                        /\ d # c /\ mode[d] \in {"asking", "boot"}
                        => mode'[d] = mode[d]]_vars

(* Somebody waits for the first message of a worker. *)
Spawning == \E c \in Call : mode[c] \in {"boot", "unborn"}

(* While the pool is open every call is answered, unless a spawned worker   *)
(* never reports: one that has booted and then dies or hangs under a        *)
(* request holds the slot for the budget and no longer.                     *)
CallAnswered == \A c \in Call : pc[c] # "new" ~> (pc[c] = "new" \/ closed \/ []Spawning)

(* A call that waits is resumed, if not by the holder then by close; only   *)
(* in an open pool can a spawn that never ends keep it waiting.             *)
WaiterResumed ==
  \A c \in Call : pc[c] = "wait" ~> (pc[c] # "wait" \/ [](Spawning /\ ~closed))
=============================================================================
