------------------------------- MODULE DbPool -------------------------------
(***************************************************************************)
(* The connection pool of @liaiso/db-core and the query runner above it:   *)
(* createConnectionPool (pool/pool.ts), runCancellable (pool/cancel.ts)    *)
(* and createQueryRunner (query/execute.ts).                               *)
(*                                                                         *)
(* A member of Call is one QueryRunner.run: one acquire, at most one       *)
(* statement, one release.  The code runs on one event loop, so a step is  *)
(* the code between two awaits.  A call opens at most one connection;      *)
(* that connection is named by the call that opened it.                    *)
(***************************************************************************)
EXTENDS Integers, Sequences, FiniteSets

CONSTANTS
  Call,            \* the tool calls of one run of the server
  MaxConnections,  \* limits.maxConnections
  MaxQueueDepth,   \* limits.maxQueueDepth
  NoConn           \* no connection

ASSUME CallAssumption  == IsFiniteSet(Call) /\ NoConn \notin Call
ASSUME LimitAssumption == /\ MaxConnections \in Nat \ {0}
                          /\ MaxQueueDepth \in Nat

VARIABLES
  idle,        \* idle: DriverConnection[], a stack
  waiters,     \* waiters: Waiter[], a queue; one is settled once its call left "waiting"
  opened,      \* opened
  generation,  \* generation
  closed,      \* closed
  phase,       \* where each call stands
  aborted,     \* has the call's AbortSignal fired
  conn,        \* the connection leased to a call
  born,        \* lease.generation
  sock,        \* the physical state of each connection
  wire,        \* the requests a connection has not settled yet
  broken       \* connections whose request failed in a way isBroken recognises

poolVars == <<idle, waiters, opened, generation, closed>>
sockVars == <<sock, wire, broken>>
vars == <<idle, waiters, opened, generation, closed,
          phase, aborted, conn, born, sock, wire, broken>>

NoLease == -1

Opening == {"opening", "setup"}
Leasing == {"granted", "running", "cancelling"}
Done    == {"ok", "error", "cancelled", "connectFailed", "queueFull", "shutdown"}
Phase   == {"new", "waiting"} \cup Opening \cup Leasing \cup Done
SockState == {"none", "connecting", "live", "destroyed"}

Idle == {idle[i] : i \in 1..Len(idle)}

(* The connections counted by `opened`: being opened, idle, or leased. *)
Slots == {k \in Call : \/ phase[k] \in Opening
                       \/ k \in Idle
                       \/ \E c \in Call : conn[c] = k /\ phase[c] \in Leasing}

Waiting == {c \in Call : phase[c] = "waiting"}

(* Every variable keeps its type; `opened`, adjusted in five places of the  *)
(* pool, never becomes negative.                                            *)
TypeOK ==
  /\ idle \in Seq(Call)
  /\ waiters \in Seq(Call)
  /\ opened \in Nat
  /\ generation \in Nat
  /\ closed \in BOOLEAN
  /\ phase \in [Call -> Phase]
  /\ aborted \in [Call -> BOOLEAN]
  /\ conn \in [Call -> Call \cup {NoConn}]
  /\ born \in [Call -> Nat \cup {NoLease}]
  /\ sock \in [Call -> SockState]
  /\ wire \in [Call -> SUBSET Call]
  /\ broken \in [Call -> BOOLEAN]

Init ==
  /\ idle = <<>> /\ waiters = <<>>
  /\ opened = 0 /\ generation = 0 /\ closed = FALSE
  /\ phase = [c \in Call |-> "new"]
  /\ aborted = [c \in Call |-> FALSE]
  /\ conn = [c \in Call |-> NoConn]
  /\ born = [c \in Call |-> NoLease]
  /\ sock = [k \in Call |-> "none"]
  /\ wire = [k \in Call |-> {}]
  /\ broken = [k \in Call |-> FALSE]

-----------------------------------------------------------------------------
(* acquire: the tests run in this order and stop at the first that holds.  *)

Finish(c, how) == phase' = [phase EXCEPT ![c] = how]

AcquireRefused(c) ==
  /\ phase[c] = "new"
  /\ closed \/ aborted[c]
  /\ Finish(c, IF closed THEN "shutdown" ELSE "cancelled")
  /\ UNCHANGED <<poolVars, aborted, conn, born, sockVars>>

MayAcquire(c) == phase[c] = "new" /\ ~closed /\ ~aborted[c]

AcquireIdle(c) ==
  /\ MayAcquire(c)
  /\ idle # <<>>
  /\ idle' = SubSeq(idle, 1, Len(idle) - 1)
  /\ conn' = [conn EXCEPT ![c] = idle[Len(idle)]]
  /\ born' = [born EXCEPT ![c] = generation]
  /\ phase' = [phase EXCEPT ![c] = "granted"]
  /\ UNCHANGED <<waiters, opened, generation, closed, aborted, sockVars>>

AcquireOpen(c) ==
  /\ MayAcquire(c)
  /\ idle = <<>>
  /\ opened < MaxConnections
  /\ opened' = opened + 1
  /\ phase' = [phase EXCEPT ![c] = "opening"]
  /\ sock' = [sock EXCEPT ![c] = "connecting"]
  /\ UNCHANGED <<idle, waiters, generation, closed, aborted, conn, born, wire, broken>>

AcquireQueueFull(c) ==
  /\ MayAcquire(c)
  /\ idle = <<>>
  /\ opened >= MaxConnections
  /\ Len(waiters) >= MaxQueueDepth
  /\ Finish(c, "queueFull")
  /\ UNCHANGED <<poolVars, aborted, conn, born, sockVars>>

AcquireWait(c) ==
  /\ MayAcquire(c)
  /\ idle = <<>>
  /\ opened >= MaxConnections
  /\ Len(waiters) < MaxQueueDepth
  /\ waiters' = Append(waiters, c)
  /\ phase' = [phase EXCEPT ![c] = "waiting"]
  /\ UNCHANGED <<idle, opened, generation, closed, aborted, conn, born, sockVars>>

-----------------------------------------------------------------------------
(* open: the driver's open raced against connectTimeoutMs, then the        *)
(* session setup.  The race does not cancel the driver's open, so a        *)
(* connection may land after the call was told it failed.                  *)

OpenLands(c) ==
  /\ sock[c] = "connecting"
  /\ sock' = [sock EXCEPT ![c] = "live"]
  /\ phase' = IF phase[c] = "opening" THEN [phase EXCEPT ![c] = "setup"] ELSE phase
  /\ UNCHANGED <<poolVars, aborted, conn, born, wire, broken>>

OpenRejects(c) ==
  /\ sock[c] = "connecting"
  /\ sock' = [sock EXCEPT ![c] = "none"]
  /\ IF phase[c] = "opening"
       THEN Finish(c, "connectFailed") /\ opened' = opened - 1
       ELSE UNCHANGED <<phase, opened>>
  /\ UNCHANGED <<idle, waiters, generation, closed, aborted, conn, born, wire, broken>>

OpenTimesOut(c) ==
  /\ phase[c] = "opening"
  /\ Finish(c, "connectFailed")
  /\ opened' = opened - 1
  /\ UNCHANGED <<idle, waiters, generation, closed, aborted, conn, born, sockVars>>

SetupFails(c) ==
  /\ phase[c] = "setup"
  /\ Finish(c, "connectFailed")
  /\ opened' = opened - 1
  /\ UNCHANGED <<idle, waiters, generation, closed, aborted, conn, born, sockVars>>

SetupDone(c) ==
  /\ phase[c] = "setup"
  /\ phase' = [phase EXCEPT ![c] = "granted"]
  /\ conn' = [conn EXCEPT ![c] = c]
  /\ born' = [born EXCEPT ![c] = generation]
  /\ UNCHANGED <<poolVars, aborted, sockVars>>

-----------------------------------------------------------------------------
(* lease.release: discard an unfit connection, else hand it to the first   *)
(* waiter that is not settled, else make it idle.  ph is the phase         *)
(* function once the releasing call has ended.                             *)

(* Mutant: discard forgets `generation += 1`. *)
DiscardKeepsGeneration(k, ph) ==
  /\ opened' = opened - 1
  /\ sock' = [sock EXCEPT ![k] = "destroyed"]
  /\ phase' = ph
  /\ UNCHANGED <<idle, waiters, generation, conn>>

Discard(k, ph) ==
  /\ opened' = opened - 1
  /\ generation' = generation + 1
  /\ sock' = [sock EXCEPT ![k] = "destroyed"]
  /\ phase' = ph
  /\ UNCHANGED <<idle, waiters, conn>>

(* Mutant: handOff answers false after it served a waiter, so release also *)
(* pushes the connection on `idle`.                                        *)
HandOffAndIdle(k, ph) ==
  /\ \E i \in 1..Len(waiters) :
       /\ ph[waiters[i]] = "waiting"
       /\ \A j \in 1..(i - 1) : ph[waiters[j]] # "waiting"
       /\ waiters' = SubSeq(waiters, i + 1, Len(waiters))
       /\ phase' = [ph EXCEPT ![waiters[i]] = "granted"]
       /\ conn' = [conn EXCEPT ![waiters[i]] = k]
  /\ idle' = Append(idle, k)
  /\ UNCHANGED <<opened, generation, sock>>

HandOff(k, ph) ==
  /\ \E i \in 1..Len(waiters) :
       /\ ph[waiters[i]] = "waiting"
       /\ \A j \in 1..(i - 1) : ph[waiters[j]] # "waiting"
       /\ waiters' = SubSeq(waiters, i + 1, Len(waiters))
       /\ phase' = [ph EXCEPT ![waiters[i]] = "granted"]
       /\ conn' = [conn EXCEPT ![waiters[i]] = k]
  /\ UNCHANGED <<idle, opened, generation, sock>>

(* Mutant: a freed connection is parked without asking who waits. *)
MakeIdleUnasked(k, ph) ==
  /\ idle' = Append(idle, k)
  /\ phase' = ph
  /\ UNCHANGED <<waiters, opened, generation, sock, conn>>

MakeIdle(k, ph) ==
  /\ \A i \in 1..Len(waiters) : ph[waiters[i]] # "waiting"
  /\ waiters' = <<>>
  /\ idle' = Append(idle, k)
  /\ phase' = ph
  /\ UNCHANGED <<opened, generation, sock, conn>>

Release(c, how, poisoned) ==
  LET ph == [phase EXCEPT ![c] = how] IN
  /\ IF poisoned \/ closed
       THEN Discard(conn[c], ph)
       ELSE HandOff(conn[c], ph) \/ MakeIdle(conn[c], ph)
  /\ UNCHANGED closed

-----------------------------------------------------------------------------
(* runCancellable under createQueryRunner.                                 *)

Run(c) ==
  /\ phase[c] = "granted"
  /\ phase' = [phase EXCEPT ![c] = "running"]
  /\ born' = [born EXCEPT ![c] = IF @ = NoLease THEN generation ELSE @]
  /\ wire' = [wire EXCEPT ![conn[c]] = @ \cup {c}]
  /\ UNCHANGED <<poolVars, aborted, conn, sock, broken>>

(* `settled` wins the race: a result, a statement error, or an error that  *)
(* isBroken recognises, which quarantines the lease before its release.    *)
QuerySettles(c) ==
  /\ phase[c] = "running"
  /\ wire' = [wire EXCEPT ![conn[c]] = @ \ {c}]
  /\ \E end \in {"ok", "error", "broken"} :
       /\ broken' = IF end = "broken" THEN [broken EXCEPT ![conn[c]] = TRUE] ELSE broken
       /\ Release(c, IF end = "ok" THEN "ok" ELSE "error", end = "broken")
  /\ UNCHANGED <<aborted, born>>

(* The abort wins the race: running.cancel(), then wait for the settle.    *)
StartCancel(c) ==
  /\ phase[c] = "running"
  /\ aborted[c]
  /\ phase' = [phase EXCEPT ![c] = "cancelling"]
  /\ UNCHANGED <<poolVars, aborted, conn, born, sockVars>>

(* The cancelled request settles within cancelSettleMs.  Both arms of the  *)
(* settle count as drained, so what it settled with is not looked at.      *)
CancelDrains(c) ==
  /\ phase[c] = "cancelling"
  /\ wire' = [wire EXCEPT ![conn[c]] = @ \ {c}]
  /\ \E brk \in BOOLEAN :
       broken' = IF brk THEN [broken EXCEPT ![conn[c]] = TRUE] ELSE broken
  /\ Release(c, "cancelled", FALSE)
  /\ UNCHANGED <<aborted, born>>

(* Mutant: the grace expires and the connection is not quarantined. *)
GraceExpiresWithoutQuarantine(c) ==
  /\ phase[c] = "cancelling"
  /\ Release(c, "cancelled", FALSE)
  /\ UNCHANGED <<aborted, born, wire, broken>>

(* cancelSettleMs passes first: quarantine, then release. *)
CancelGraceExpires(c) ==
  /\ phase[c] = "cancelling"
  /\ Release(c, "cancelled", TRUE)
  /\ UNCHANGED <<aborted, born, wire, broken>>

-----------------------------------------------------------------------------
(* Mutant: the waiter does not listen to its signal. *)
AbortUnheardByWaiter(c) ==
  /\ ~aborted[c]
  /\ phase[c] \notin Done
  /\ aborted' = [aborted EXCEPT ![c] = TRUE]
  /\ UNCHANGED <<poolVars, phase, conn, born, sockVars>>

(* The signal fires.  A waiter's listener settles it but leaves it queued. *)
Abort(c) ==
  /\ ~aborted[c]
  /\ phase[c] \notin Done
  /\ aborted' = [aborted EXCEPT ![c] = TRUE]
  /\ phase' = IF phase[c] = "waiting" THEN [phase EXCEPT ![c] = "cancelled"] ELSE phase
  /\ UNCHANGED <<poolVars, conn, born, sockVars>>

(* Mutant: close forgets `opened -= open.length`. *)
CloseKeepsCount ==
  /\ ~closed
  /\ closed' = TRUE
  /\ waiters' = <<>>
  /\ phase' = [c \in Call |-> IF phase[c] = "waiting" THEN "shutdown" ELSE phase[c]]
  /\ idle' = <<>>
  /\ sock' = [k \in Call |-> IF k \in Idle THEN "destroyed" ELSE sock[k]]
  /\ UNCHANGED <<opened, generation, aborted, conn, born, wire, broken>>

(* close: reject the waiters, destroy the idle connections. *)
Close ==
  /\ ~closed
  /\ closed' = TRUE
  /\ waiters' = <<>>
  /\ phase' = [c \in Call |-> IF phase[c] = "waiting" THEN "shutdown" ELSE phase[c]]
  /\ idle' = <<>>
  /\ opened' = opened - Len(idle)
  /\ sock' = [k \in Call |-> IF k \in Idle THEN "destroyed" ELSE sock[k]]
  /\ UNCHANGED <<generation, aborted, conn, born, wire, broken>>

Acquire(c) == \/ AcquireRefused(c) \/ AcquireIdle(c) \/ AcquireOpen(c)
              \/ AcquireQueueFull(c) \/ AcquireWait(c)

(* What the driver, its timers and the event loop do for a call. *)
Settle(c) == \/ OpenLands(c) \/ OpenRejects(c) \/ OpenTimesOut(c)
             \/ SetupFails(c) \/ SetupDone(c)
             \/ Run(c) \/ QuerySettles(c) \/ StartCancel(c)
             \/ CancelDrains(c) \/ CancelGraceExpires(c)

AllDone == (\A c \in Call : phase[c] \in Done) /\ closed /\ UNCHANGED vars

Next == (\E c \in Call : Acquire(c) \/ Settle(c) \/ Abort(c)) \/ Close \/ AllDone

Spec == Init /\ [][Next]_vars

(* The event loop runs ready continuations; connectTimeoutMs and           *)
(* cancelSettleMs are timers; RunningQuery.settled always settles (the     *)
(* contract in model/connection.ts), which session setup relies on.        *)
Fairness ==
  \A c \in Call :
    /\ WF_vars(Acquire(c))
    /\ WF_vars(OpenTimesOut(c))
    /\ WF_vars(SetupFails(c) \/ SetupDone(c))
    /\ WF_vars(Run(c))
    /\ WF_vars(StartCancel(c))
    /\ WF_vars(CancelGraceExpires(c))

FairSpec == Spec /\ Fairness

(* The same with a driver that keeps its promise to settle every request.  *)
SettlingSpec == FairSpec /\ \A c \in Call : WF_vars(QuerySettles(c))

-----------------------------------------------------------------------------
(* Properties. *)

Holders(k) == {c \in Call : conn[c] = k /\ phase[c] \in Leasing}

(* A connection the pool still uses carries no request but the one of the   *)
(* call that holds its lease, so no call reads the packets of another: the  *)
(* guard of runCancellable ("never a crossed result set").                  *)
NoCrossedResults ==
  \A k \in Slots : wire[k] \subseteq {c \in Holders(k) : phase[c] # "granted"}

(* A connection is in one place: leased to one call, or once in `idle`, or  *)
(* still opening; release and handOff never put it in two.                  *)
LeaseExclusive ==
  /\ \A i, j \in 1..Len(idle) : idle[i] = idle[j] => i = j
  /\ \A c, d \in Call : /\ phase[c] \in Leasing
                        /\ phase[d] \in Leasing
                        /\ conn[c] = conn[d]
                        => c = d
  /\ \A k \in Call : Holders(k) # {} => k \notin Idle /\ phase[k] \notin Opening

(* `opened` counts exactly the connections that are opening, leased or      *)
(* idle, and stays within maxConnections, through failed opens, late        *)
(* landings, quarantines and close.                                         *)
OpenedAccounting ==
  opened = Cardinality(Slots) /\ opened <= MaxConnections

(* No unsettled waiter while a connection is idle: handOff skips the        *)
(* waiters that were aborted instead of stopping at them.                   *)
NoIdleWhileWaiting == idle # <<>> => Waiting = {}

(* "Anything cached against a connection is only valid within one           *)
(* generation": the leases of one generation see at most maxConnections     *)
(* distinct connections, so a replaced connection is never mistaken for     *)
(* the one it replaced.                                                     *)
GenerationBound ==
  \A g \in 0..generation :
    Cardinality({conn[c] : c \in {d \in Call : born[d] = g}}) <= MaxConnections

(* A call whose signal fired is answered, whatever the driver does: the     *)
(* waiter leaves the queue, and a request that never settles costs no more  *)
(* than cancelSettleMs.                                                     *)
AbortedCallAnswers == \A c \in Call : aborted[c] ~> phase[c] \in Done

(* Every waiter is answered when the driver settles every request.  The     *)
(* code does not meet it: a quarantine or a failed open frees a slot        *)
(* without waking the queue.                                                *)
WaiterServed == \A c \in Call : phase[c] = "waiting" ~> phase[c] # "waiting"
=============================================================================
