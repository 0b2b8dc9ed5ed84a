---------------------------- MODULE DbPoolProofs ----------------------------
(***************************************************************************)
(* TLAPS proofs about DbPool, for every set of calls and every limit.      *)
(***************************************************************************)
EXTENDS DbPool, FiniteSetTheorems, SequenceTheorems, TLAPS

Elems(s) == {s[i] : i \in 1..Len(s)}
NoDup(s) == \A i, j \in 1..Len(s) : s[i] = s[j] => i = j

-----------------------------------------------------------------------------
(* Facts about the sequences the pool keeps. *)

(* idle.push: the elements of an appended sequence. *)
LEMMA AppendElems ==
  ASSUME NEW S, NEW s \in Seq(S), NEW k \in S
  PROVE  /\ Append(s, k) \in Seq(S)
         /\ Elems(Append(s, k)) = Elems(s) \cup {k}
         /\ NoDup(s) /\ k \notin Elems(s) => NoDup(Append(s, k))
<1> DEFINE t == Append(s, k)
<1>1. /\ t \in Seq(S) /\ Len(t) = Len(s) + 1 /\ t[Len(s) + 1] = k
      /\ \A i \in 1..Len(s) : t[i] = s[i]
  OBVIOUS
<1>2. Len(s) \in Nat
  OBVIOUS
<1> HIDE DEF t
<1>3. Elems(t) = Elems(s) \cup {k}
  BY <1>1, <1>2 DEF Elems
<1>4. NoDup(s) /\ k \notin Elems(s) => NoDup(t)
  BY <1>1, <1>2 DEF Elems, NoDup
<1> QED  BY <1>1, <1>3, <1>4 DEF t

(* idle.pop: the last element leaves a duplicate-free stack. *)
LEMMA PopElems ==
  ASSUME NEW S, NEW s \in Seq(S), s # <<>>, NoDup(s)
  PROVE  /\ SubSeq(s, 1, Len(s) - 1) \in Seq(S)
         /\ s[Len(s)] \in S
         /\ s[Len(s)] \in Elems(s)
         /\ NoDup(SubSeq(s, 1, Len(s) - 1))
         /\ Elems(SubSeq(s, 1, Len(s) - 1)) = Elems(s) \ {s[Len(s)]}
<1>0. PICK t : t = SubSeq(s, 1, Len(s) - 1)
  OBVIOUS
<1>1. Len(s) \in Nat /\ Len(s) > 0
  OBVIOUS
<1>2. PICK n \in Nat : n = Len(s) - 1
  BY <1>1
<1>3. t \in Seq(S) /\ Len(t) = n /\ \A i \in 1..n : t[i] = s[i]
  <2>1. t = SubSeq(s, 1, n) /\ n <= Len(s)
    BY <1>0, <1>1, <1>2
  <2> QED  BY <2>1
<1>4. s[Len(s)] \in S /\ s[Len(s)] \in Elems(s)
  BY <1>1 DEF Elems
<1>5. NoDup(t) /\ Elems(t) = Elems(s) \ {s[Len(s)]}
  <2>1. NoDup(t)
    BY <1>1, <1>2, <1>3 DEF NoDup
  <2>2. Elems(t) \subseteq Elems(s) \ {s[Len(s)]}
    BY <1>1, <1>2, <1>3 DEF NoDup, Elems
  <2>3. Elems(s) \ {s[Len(s)]} \subseteq Elems(t)
    BY <1>1, <1>2, <1>3 DEF Elems
  <2> QED  BY <2>1, <2>2, <2>3
<1> QED  BY <1>0, <1>3, <1>4, <1>5

(* Duplicate-free sequences have as many elements as positions. *)
LEMMA NoDupCardinality ==
  ASSUME NEW S, NEW s \in Seq(S), NoDup(s)
  PROVE  IsFiniteSet(Elems(s)) /\ Cardinality(Elems(s)) = Len(s)
<1>1. Len(s) \in Nat /\ 1..Len(s) = DOMAIN s
  OBVIOUS
<1>2. IsFiniteSet(1..Len(s)) /\ Cardinality(1..Len(s)) = Len(s)
  BY <1>1, FS_Interval
<1> DEFINE f == [i \in 1..Len(s) |-> s[i]]
<1>3. f \in Bijection(1..Len(s), Elems(s))
  <2>1. f \in [1..Len(s) -> Elems(s)]
    BY DEF Elems
  <2>2. f \in Injection(1..Len(s), Elems(s))
    BY <2>1 DEF Injection, IsInjective, NoDup
  <2>3. f \in Surjection(1..Len(s), Elems(s))
    BY <2>1 DEF Surjection, Elems
  <2> QED  BY <2>2, <2>3 DEF Bijection
<1>4. ExistsBijection(1..Len(s), Elems(s))
  BY <1>3 DEF ExistsBijection
<1> QED  BY <1>2, <1>4, FS_Bijection
-----------------------------------------------------------------------------
(* The inductive invariant.  TypeOK is not inductive: that `opened` stays a *)
(* natural number needs the accounting, which needs the exclusive leases.   *)

TypeInv ==
  /\ idle \in Seq(Call)
  /\ waiters \in Seq(Call)
  /\ opened \in Int
  /\ generation \in Nat
  /\ closed \in BOOLEAN
  /\ phase \in [Call -> Phase]
  /\ aborted \in [Call -> BOOLEAN]
  /\ conn \in [Call -> Call \cup {NoConn}]
  /\ born \in [Call -> Nat \cup {NoLease}]
  /\ sock \in [Call -> SockState]
  /\ wire \in [Call -> SUBSET Call]
  /\ broken \in [Call -> BOOLEAN]

IdleUnique == NoDup(idle)

(* Every lease is of a connection, of one call, and of no idle connection. *)
Leased(c) == phase[c] \in Leasing

Exclusive ==
  /\ \A c \in Call : Leased(c) => conn[c] \in Call /\ conn[c] \notin Idle
  /\ \A c, d \in Call : Leased(c) /\ Leased(d) /\ conn[c] = conn[d] => c = d

(* The connection a call has yet to open is nowhere in the pool. *)
Unborn == {"new", "opening", "setup"}

FreshClean ==
  \A k \in Call : phase[k] \in Unborn =>
    /\ k \notin Idle
    /\ wire[k] = {}
    /\ \A c \in Call : Leased(c) => conn[c] # k

(* A waiting call is in the queue. *)
Queued == \A c \in Call : phase[c] = "waiting" => c \in Elems(waiters)

Core == TypeInv /\ IdleUnique /\ Exclusive /\ FreshClean

LEMMA IdleElems == Idle = Elems(idle) /\ Idle' = Elems(idle')
  BY DEF Idle, Elems

(* The initial state of createConnectionPool. *)
LEMMA CoreInit == Init => Core
<1> SUFFICES ASSUME Init PROVE Core
  OBVIOUS
<1> USE DEF Init
<1>1. TypeInv
  <2>1. idle \in Seq(Call) /\ waiters \in Seq(Call)
    OBVIOUS
  <2>2. opened \in Int /\ generation \in Nat
    OBVIOUS
  <2>3. phase \in [Call -> Phase] /\ sock \in [Call -> SockState]
    BY DEF Phase, SockState
  <2>4. /\ closed \in BOOLEAN
        /\ aborted \in [Call -> BOOLEAN] /\ broken \in [Call -> BOOLEAN]
    BY Zenon
  <2>5. /\ conn \in [Call -> Call \cup {NoConn}] /\ wire \in [Call -> SUBSET Call]
        /\ born \in [Call -> Nat \cup {NoLease}]
    BY Zenon
  <2> QED  BY <2>1, <2>2, <2>3, <2>4, <2>5 DEF TypeInv
<1>2. IdleUnique
  BY DEF IdleUnique, NoDup
<1>3. Idle = {}
  BY DEF Idle
<1>4. Exclusive
  BY DEF Exclusive, Leased, Leasing
<1>5. FreshClean
  BY <1>3 DEF FreshClean, Leased, Leasing
<1> QED  BY <1>1, <1>2, <1>4, <1>5 DEF Core

-----------------------------------------------------------------------------
(* lease.release keeps the core: whoever gets the connection, it is gone    *)
(* from the call that released it.                                          *)
LEMMA ReleaseCore ==
  ASSUME Core, NEW c \in Call, Leased(c), NEW how \in Done, NEW p \in BOOLEAN,
         Release(c, how, p),
         aborted' = aborted, born' = born, broken' \in [Call -> BOOLEAN],
         wire' \in [Call -> SUBSET Call],
         \A k \in Call : wire'[k] \subseteq wire[k]
  PROVE  Core'
<1> DEFINE k == conn[c]
           ph == [phase EXCEPT ![c] = how]
<1> USE DEF Core
<1>1. /\ k \in Call /\ k \notin Idle
      /\ \A d \in Call : Leased(d) /\ conn[d] = k => d = c
      /\ phase[k] \notin Unborn
  BY DEF Exclusive, FreshClean
<1>2. /\ ph \in [Call -> Phase]
      /\ \A d \in Call : ph[d] = IF d = c THEN how ELSE phase[d]
      /\ how \notin Leasing /\ how \notin Unborn /\ how \in Phase /\ how # "waiting"
  BY DEF TypeInv, Done, Leasing, Unborn, Phase
<1>3. Idle = Elems(idle) /\ Idle' = Elems(idle')
  BY IdleElems
<1>4. CASE Discard(k, ph)
  <2>1. TypeInv'
    BY <1>1, <1>2, <1>4 DEF TypeInv, Discard, SockState, Release
  <2>2. IdleUnique'
    BY <1>4 DEF IdleUnique, Discard
  <2>3. Exclusive'
    BY <1>2, <1>3, <1>4 DEF Discard, Exclusive, Leased
  <2>4. FreshClean'
    BY <1>2, <1>3, <1>4 DEF Discard, FreshClean, Leased
  <2> QED  BY <2>1, <2>2, <2>3, <2>4
<1>5. CASE HandOff(k, ph)
  <2>1. PICK i \in 1..Len(waiters) :
          /\ ph[waiters[i]] = "waiting"
          /\ waiters' = SubSeq(waiters, i + 1, Len(waiters))
          /\ phase' = [ph EXCEPT ![waiters[i]] = "granted"]
          /\ conn' = [conn EXCEPT ![waiters[i]] = k]
    BY <1>5 DEF HandOff
  <2>2. PICK w \in Call : w = waiters[i]
    BY DEF TypeInv
  <2>3. /\ w # c /\ phase[w] = "waiting"
        /\ \A d \in Call : phase'[d] = IF d = w THEN "granted" ELSE IF d = c THEN how ELSE phase[d]
        /\ \A d \in Call : conn'[d] = IF d = w THEN k ELSE conn[d]
        /\ phase' \in [Call -> Phase] /\ conn' \in [Call -> Call \cup {NoConn}]
    BY <1>1, <1>2, <2>1, <2>2 DEF TypeInv, Phase, Leasing
  <2>4. idle' = idle /\ opened' = opened /\ generation' = generation /\ sock' = sock
    BY <1>5 DEF HandOff
  <2>5. waiters' \in Seq(Call)
    BY <2>1 DEF TypeInv
  <2>6. TypeInv'
    BY <2>3, <2>4, <2>5 DEF TypeInv, Release
  <2>7. IdleUnique'
    BY <2>4 DEF IdleUnique
  <2>8. Exclusive'
    BY <1>1, <1>2, <1>3, <2>3, <2>4 DEF Exclusive, Leased, Leasing
  <2>9. FreshClean'
    BY <1>1, <1>2, <1>3, <2>3, <2>4 DEF FreshClean, Leased, Leasing, Unborn
  <2> QED  BY <2>6, <2>7, <2>8, <2>9
<1>6. CASE MakeIdle(k, ph)
  <2>1. /\ idle' = Append(idle, k) /\ phase' = ph /\ waiters' = <<>>
        /\ opened' = opened /\ generation' = generation /\ sock' = sock /\ conn' = conn
    BY <1>6 DEF MakeIdle
  <2>2. /\ idle' \in Seq(Call) /\ NoDup(idle') /\ Elems(idle') = Elems(idle) \cup {k}
    BY <1>1, <1>3, <2>1, AppendElems DEF TypeInv, IdleUnique
  <2>3. TypeInv'
    BY <1>2, <2>1, <2>2 DEF TypeInv, Release
  <2>4. Exclusive'
    BY <1>1, <1>2, <1>3, <2>1, <2>2 DEF Exclusive, Leased
  <2>5. FreshClean'
    BY <1>1, <1>2, <1>3, <2>1, <2>2 DEF FreshClean, Leased
  <2> QED  BY <2>2, <2>3, <2>4, <2>5 DEF IdleUnique
<1> QED  BY <1>4, <1>5, <1>6 DEF Release

(* Every step of the pool and of the runner above it keeps the core. *)
LEMMA CoreStep == Core /\ [Next]_vars => Core'
<1> SUFFICES ASSUME Core, [Next]_vars PROVE Core'
  OBVIOUS
<1> USE DEF Core, Leased
<1>0. Idle = Elems(idle) /\ Idle' = Elems(idle')
  BY IdleElems
<1>1. ASSUME NEW c \in Call, AcquireRefused(c) PROVE Core'
  BY <1>0, <1>1 DEF AcquireRefused, Finish, poolVars, sockVars, TypeInv, IdleUnique, Exclusive,
                    FreshClean, Phase, Done, Leasing, Unborn
<1>2. ASSUME NEW c \in Call, AcquireIdle(c) PROVE Core'
  <2>1. /\ idle' \in Seq(Call) /\ NoDup(idle')
        /\ idle[Len(idle)] \in Call /\ idle[Len(idle)] \in Elems(idle)
        /\ Elems(idle') = Elems(idle) \ {idle[Len(idle)]}
    <3>1. /\ idle \in Seq(Call) /\ idle # <<>> /\ NoDup(idle)
          /\ idle' = SubSeq(idle, 1, Len(idle) - 1)
      BY <1>2 DEF AcquireIdle, TypeInv, IdleUnique
    <3> QED  BY <3>1, PopElems
  <2>2. TypeInv'
    BY <1>2, <2>1 DEF AcquireIdle, sockVars, TypeInv, Phase, Leasing
  <2>3. Exclusive'
    BY <1>0, <1>2, <2>1 DEF AcquireIdle, MayAcquire, TypeInv, Exclusive, Leasing
  <2>4. FreshClean'
    BY <1>0, <1>2, <2>1 DEF AcquireIdle, MayAcquire, sockVars, TypeInv, FreshClean, Leasing, Unborn
  <2> QED  BY <2>1, <2>2, <2>3, <2>4 DEF IdleUnique
<1>3. ASSUME NEW c \in Call, AcquireOpen(c) PROVE Core'
  BY <1>0, <1>3 DEF AcquireOpen, MayAcquire, TypeInv, IdleUnique, Exclusive, FreshClean,
                    Phase, Opening, Leasing, Unborn, SockState
<1>4. ASSUME NEW c \in Call, AcquireQueueFull(c) PROVE Core'
  BY <1>0, <1>4 DEF AcquireQueueFull, MayAcquire, Finish, poolVars, sockVars, TypeInv, IdleUnique,
                    Exclusive, FreshClean, Phase, Done, Leasing, Unborn
<1>5. ASSUME NEW c \in Call, AcquireWait(c) PROVE Core'
  <2>1. waiters' \in Seq(Call)
    BY <1>5 DEF AcquireWait, TypeInv
  <2> QED
    BY <1>0, <1>5, <2>1 DEF AcquireWait, MayAcquire, sockVars, TypeInv, IdleUnique,
                            Exclusive, FreshClean, Phase, Leasing, Unborn
<1>6. ASSUME NEW c \in Call, OpenLands(c) PROVE Core'
  BY <1>0, <1>6 DEF OpenLands, poolVars, TypeInv, IdleUnique, Exclusive, FreshClean,
                    Phase, Opening, Leasing, Unborn, SockState
<1>7. ASSUME NEW c \in Call, OpenRejects(c) PROVE Core'
  BY <1>0, <1>7 DEF OpenRejects, Finish, TypeInv, IdleUnique, Exclusive, FreshClean,
                    Phase, Done, Leasing, Unborn, SockState
<1>8. ASSUME NEW c \in Call, OpenTimesOut(c) \/ SetupFails(c) PROVE Core'
  <2>1. /\ idle' = idle /\ waiters' = waiters /\ opened' = opened - 1 /\ closed' = closed
        /\ generation' = generation /\ aborted' = aborted /\ conn' = conn /\ born' = born
        /\ sock' = sock /\ wire' = wire /\ broken' = broken
        /\ phase' = [phase EXCEPT ![c] = "connectFailed"]
    BY <1>8 DEF OpenTimesOut, SetupFails, Finish, sockVars
  <2> QED
    BY <1>0, <2>1 DEF TypeInv, IdleUnique, Exclusive, FreshClean, Phase, Done, Leasing, Unborn
<1>9. ASSUME NEW c \in Call, SetupDone(c) PROVE Core'
  BY <1>0, <1>9 DEF SetupDone, poolVars, sockVars, TypeInv, IdleUnique, Exclusive, FreshClean,
                    Phase, Leasing, Unborn
<1>10. ASSUME NEW c \in Call, Run(c) PROVE Core'
  <2>1. conn[c] \in Call /\ phase[conn[c]] \notin Unborn
    BY <1>10 DEF Run, Exclusive, FreshClean, Leasing
  <2>2. TypeInv'
    BY <1>10, <2>1 DEF Run, poolVars, TypeInv, Phase, Leasing
  <2>3. /\ idle' = idle /\ conn' = conn
        /\ phase' = [phase EXCEPT ![c] = "running"] /\ phase[c] = "granted"
        /\ \A k \in Call : k # conn[c] => wire'[k] = wire[k]
    BY <1>10 DEF Run, poolVars, TypeInv
  <2>4. IdleUnique' /\ Exclusive'
    BY <1>0, <2>3 DEF TypeInv, IdleUnique, Exclusive, Leasing
  <2>5. FreshClean'
    BY <1>0, <2>1, <2>3 DEF TypeInv, FreshClean, Leasing, Unborn
  <2> QED  BY <2>2, <2>4, <2>5
<1>11. ASSUME NEW c \in Call, QuerySettles(c) PROVE Core'
  <2>1. PICK end \in {"ok", "error", "broken"} :
          /\ broken' = IF end = "broken" THEN [broken EXCEPT ![conn[c]] = TRUE] ELSE broken
          /\ Release(c, IF end = "ok" THEN "ok" ELSE "error", end = "broken")
    BY <1>11 DEF QuerySettles
  <2>2. /\ Leased(c) /\ aborted' = aborted /\ born' = born
        /\ wire' \in [Call -> SUBSET Call] /\ \A k \in Call : wire'[k] \subseteq wire[k]
    BY <1>11 DEF QuerySettles, Leasing, TypeInv
  <2>3. broken' \in [Call -> BOOLEAN]
    BY <2>1 DEF TypeInv
  <2>4. PICK how \in Done, p \in BOOLEAN : Release(c, how, p)
    BY <2>1 DEF Done
  <2> QED  BY <2>2, <2>3, <2>4, ReleaseCore
<1>12. ASSUME NEW c \in Call, StartCancel(c) PROVE Core'
  BY <1>0, <1>12 DEF StartCancel, poolVars, sockVars, TypeInv, IdleUnique, Exclusive, FreshClean,
                     Phase, Leasing, Unborn
<1>13. ASSUME NEW c \in Call, CancelDrains(c) \/ CancelGraceExpires(c) PROVE Core'
  <2>1. /\ Leased(c) /\ aborted' = aborted /\ born' = born
        /\ wire' \in [Call -> SUBSET Call] /\ \A k \in Call : wire'[k] \subseteq wire[k]
    <3>1. CASE CancelDrains(c)
      BY <3>1 DEF CancelDrains, Leasing, TypeInv
    <3>2. CASE CancelGraceExpires(c)
      BY <3>2 DEF CancelGraceExpires, Leasing, TypeInv
    <3> QED  BY <1>13, <3>1, <3>2
  <2>2. broken' \in [Call -> BOOLEAN]
    BY <1>13 DEF CancelDrains, CancelGraceExpires, TypeInv
  <2>3. PICK how \in Done, p \in BOOLEAN : Release(c, how, p)
    BY <1>13 DEF CancelDrains, CancelGraceExpires, Done
  <2> QED  BY <2>1, <2>2, <2>3, ReleaseCore
<1>14. ASSUME NEW c \in Call, Abort(c) PROVE Core'
  BY <1>0, <1>14 DEF Abort, poolVars, sockVars, TypeInv, IdleUnique, Exclusive, FreshClean,
                     Phase, Done, Leasing, Unborn
<1>15. ASSUME Close PROVE Core'
  <2>1. Idle' = {} /\ NoDup(idle')
    BY <1>15 DEF Close, Idle, NoDup
  <2>2. TypeInv'
    BY <1>15 DEF Close, TypeInv, Phase, Done, SockState
  <2>3. Exclusive' /\ FreshClean'
    BY <1>15, <2>1 DEF Close, TypeInv, Exclusive, FreshClean, Leasing, Unborn
  <2> QED  BY <2>1, <2>2, <2>3 DEF IdleUnique
<1>16. ASSUME UNCHANGED vars PROVE Core'
  BY <1>0, <1>16 DEF vars, TypeInv, IdleUnique, Exclusive, FreshClean
<1> QED
  BY <1>1, <1>2, <1>3, <1>4, <1>5, <1>6, <1>7, <1>8, <1>9, <1>10, <1>11, <1>12, <1>13, <1>14,
     <1>15, <1>16 DEF Next, Acquire, Settle, AllDone

-----------------------------------------------------------------------------
(* The wire of a connection the pool uses holds at most its holder's request. *)
WireInv ==
  /\ \A k \in Idle : wire[k] = {}
  /\ \A c \in Call : phase[c] = "granted" => wire[conn[c]] = {}
  /\ \A c \in Call : phase[c] \in {"running", "cancelling"} => wire[conn[c]] \subseteq {c}

(* A release that returns the connection to the pool finds its wire empty. *)
LEMMA ReleaseWire ==
  ASSUME Core, WireInv, NEW c \in Call, phase[c] \in {"running", "cancelling"},
         NEW how \in Done, NEW p \in BOOLEAN, Release(c, how, p),
         \/ p = TRUE /\ wire' = wire
         \/ wire' = [wire EXCEPT ![conn[c]] = @ \ {c}]
  PROVE  WireInv'
<1> DEFINE k == conn[c]
           ph == [phase EXCEPT ![c] = how]
<1> USE DEF Core, Leased
<1>1. /\ k \in Call /\ k \notin Idle /\ wire[k] \subseteq {c} /\ wire \in [Call -> SUBSET Call]
      /\ \A d \in Call : d # c /\ Leased(d) => conn[d] # k /\ conn[d] \in Call
  BY DEF Exclusive, WireInv, Leasing, TypeInv
<1>2. /\ \A d \in Call : ph[d] = IF d = c THEN how ELSE phase[d]
      /\ how \notin Leasing
  BY DEF TypeInv, Done, Leasing
<1>3. Idle = Elems(idle) /\ Idle' = Elems(idle')
  BY IdleElems
<1>4. Elems(idle) \subseteq Call
  BY DEF TypeInv, Elems
<1>5. CASE Discard(k, ph)
  <2>1. idle' = idle /\ conn' = conn /\ phase' = ph
    BY <1>5 DEF Discard
  <2>2. \A j \in Call : j # k => wire'[j] = wire[j]
    BY <1>1
  <2> QED  BY <1>1, <1>2, <1>3, <1>4, <2>1, <2>2 DEF WireInv, Leasing
<1>6. CASE ~Discard(k, ph)
  <2>1. wire' = [wire EXCEPT ![k] = @ \ {c}] /\ (HandOff(k, ph) \/ MakeIdle(k, ph))
    BY <1>6 DEF Release
  <2>2. wire'[k] = {} /\ \A j \in Call : j # k => wire'[j] = wire[j]
    BY <1>1, <2>1
  <2>3. CASE HandOff(k, ph)
    <3>1. PICK i \in 1..Len(waiters) :
            /\ ph[waiters[i]] = "waiting"
            /\ phase' = [ph EXCEPT ![waiters[i]] = "granted"]
            /\ conn' = [conn EXCEPT ![waiters[i]] = k]
      BY <2>3 DEF HandOff
    <3>2. PICK w \in Call : w = waiters[i]
      BY DEF TypeInv
    <3>3. /\ \A d \in Call : phase'[d] = IF d = w THEN "granted" ELSE ph[d]
          /\ \A d \in Call : conn'[d] = IF d = w THEN k ELSE conn[d]
      BY <3>1, <3>2 DEF TypeInv
    <3>4. idle' = idle
      BY <2>3 DEF HandOff
    <3> QED  BY <1>1, <1>2, <1>3, <1>4, <2>2, <3>3, <3>4 DEF WireInv, Leasing
  <2>4. CASE MakeIdle(k, ph)
    <3>1. Elems(idle') = Elems(idle) \cup {k} /\ phase' = ph /\ conn' = conn
      BY <1>1, <2>4, AppendElems DEF MakeIdle, TypeInv
    <3> QED  BY <1>1, <1>2, <1>3, <1>4, <2>2, <3>1 DEF WireInv, Leasing
  <2> QED  BY <2>1, <2>3, <2>4
<1> QED  BY <1>5, <1>6

(* A call puts its request on an empty wire, and only its end or the        *)
(* destruction of the connection takes the wire away from it.               *)
LEMMA WireStep == Core /\ WireInv /\ [Next]_vars => WireInv'
<1> SUFFICES ASSUME Core, WireInv, [Next]_vars PROVE WireInv'
  OBVIOUS
<1> USE DEF Core, Leased
<1>0. Idle = Elems(idle) /\ Idle' = Elems(idle')
  BY IdleElems
<1>1. ASSUME NEW c \in Call, NEW how \in Phase \ Leasing, phase' = [phase EXCEPT ![c] = how],
             idle' = idle, conn' = conn, wire' = wire
      PROVE  WireInv'
  BY <1>0, <1>1 DEF WireInv, TypeInv, Leasing
<1>2. ASSUME NEW c \in Call, AcquireIdle(c) PROVE WireInv'
  <2>1. /\ idle[Len(idle)] \in Elems(idle)
        /\ Elems(idle') = Elems(idle) \ {idle[Len(idle)]}
    <3>1. /\ idle \in Seq(Call) /\ idle # <<>> /\ NoDup(idle)
          /\ idle' = SubSeq(idle, 1, Len(idle) - 1)
      BY <1>2 DEF AcquireIdle, TypeInv, IdleUnique
    <3> QED  BY <3>1, PopElems
  <2> QED  BY <1>0, <1>2, <2>1 DEF AcquireIdle, sockVars, WireInv, TypeInv
<1>3. ASSUME NEW c \in Call, SetupDone(c) PROVE WireInv'
  BY <1>0, <1>3 DEF SetupDone, poolVars, sockVars, WireInv, TypeInv, FreshClean, Unborn
<1>4. ASSUME NEW c \in Call, Run(c) PROVE WireInv'
  <2>1. /\ conn[c] \in Call /\ conn[c] \notin Idle /\ wire[conn[c]] = {}
        /\ \A d \in Call : d # c /\ Leased(d) => conn[d] # conn[c] /\ conn[d] \in Call
    BY <1>4 DEF Run, WireInv, Exclusive, Leasing
  <2>2. /\ idle' = idle /\ conn' = conn /\ phase' = [phase EXCEPT ![c] = "running"]
        /\ wire'[conn[c]] = {c} /\ \A k \in Call : k # conn[c] => wire'[k] = wire[k]
    BY <1>4, <2>1 DEF Run, poolVars, TypeInv
  <2>3. Elems(idle) \subseteq Call
    BY DEF TypeInv, Elems
  <2> QED  BY <1>0, <2>1, <2>2, <2>3 DEF WireInv, TypeInv, Leasing
<1>5. ASSUME NEW c \in Call, QuerySettles(c) PROVE WireInv'
  <2>1. PICK how \in Done, p \in BOOLEAN : Release(c, how, p)
    <3>1. PICK end \in {"ok", "error", "broken"} :
            Release(c, IF end = "ok" THEN "ok" ELSE "error", end = "broken")
      BY <1>5 DEF QuerySettles
    <3> QED  BY <3>1 DEF Done
  <2> QED  BY <1>5, <2>1, ReleaseWire DEF QuerySettles
<1>6. ASSUME NEW c \in Call, StartCancel(c) PROVE WireInv'
  BY <1>0, <1>6 DEF StartCancel, poolVars, sockVars, WireInv, TypeInv
<1>7. ASSUME NEW c \in Call, CancelDrains(c) PROVE WireInv'
  BY <1>7, ReleaseWire DEF CancelDrains, Done
<1>8. ASSUME NEW c \in Call, CancelGraceExpires(c) PROVE WireInv'
  BY <1>8, ReleaseWire DEF CancelGraceExpires, Done
<1>9. ASSUME Close PROVE WireInv'
  <2>1. Idle' = {}
    BY <1>9 DEF Close, Idle
  <2> QED  BY <1>9, <2>1 DEF Close, WireInv, TypeInv
<1>10. ASSUME idle' = idle, conn' = conn, wire' = wire,
              \A d \in Call : phase'[d] \in Leasing => phase'[d] = phase[d]
       PROVE  WireInv'
  BY <1>0, <1>10 DEF WireInv, Leasing
<1>11. ASSUME NEW c \in Call, OpenLands(c) \/ OpenRejects(c) PROVE WireInv'
  <2>1. phase' = phase \/ phase' = [phase EXCEPT ![c] = "setup"]
                      \/ phase' = [phase EXCEPT ![c] = "connectFailed"]
    BY <1>11 DEF OpenLands, OpenRejects, Finish
  <2>2. \A d \in Call : phase'[d] \in Leasing => phase'[d] = phase[d]
    BY <2>1 DEF TypeInv, Leasing
  <2>3. idle' = idle /\ conn' = conn /\ wire' = wire
    BY <1>11 DEF OpenLands, OpenRejects, poolVars
  <2> QED  BY <1>10, <2>2, <2>3
<1>12. ASSUME NEW c \in Call, Abort(c) PROVE WireInv'
  <2>1. phase' = phase \/ phase' = [phase EXCEPT ![c] = "cancelled"]
    BY <1>12 DEF Abort
  <2>2. \A d \in Call : phase'[d] \in Leasing => phase'[d] = phase[d]
    BY <2>1 DEF TypeInv, Leasing
  <2>3. idle' = idle /\ conn' = conn /\ wire' = wire
    BY <1>12 DEF Abort, poolVars, sockVars
  <2> QED  BY <1>10, <2>2, <2>3
<1>13. ASSUME NEW c \in Call,
              \/ AcquireRefused(c) \/ AcquireOpen(c) \/ AcquireQueueFull(c) \/ AcquireWait(c)
              \/ OpenTimesOut(c) \/ SetupFails(c)
       PROVE  WireInv'
  <2>1. PICK how \in Phase \ Leasing : /\ phase' = [phase EXCEPT ![c] = how]
                                       /\ idle' = idle /\ conn' = conn /\ wire' = wire
    BY <1>13 DEF AcquireRefused, AcquireOpen, AcquireQueueFull, AcquireWait, OpenTimesOut,
                 SetupFails, Finish, poolVars, sockVars, Phase, Opening, Done, Leasing
  <2> QED  BY <1>1, <2>1
<1>14. ASSUME UNCHANGED vars PROVE WireInv'
  BY <1>0, <1>14 DEF vars, WireInv
<1> QED
  BY <1>2, <1>3, <1>4, <1>5, <1>6, <1>7, <1>8, <1>9, <1>11, <1>12, <1>13, <1>14
     DEF Next, Acquire, Settle, AllDone

-----------------------------------------------------------------------------
(* The waiting calls are queued, and nothing is idle while one of them is. *)
QueueInv == Queued /\ NoIdleWhileWaiting

LEMMA ReleaseQueue ==
  ASSUME Core, QueueInv, NEW c \in Call, Leased(c), NEW how \in Done, NEW p \in BOOLEAN,
         Release(c, how, p)
  PROVE  QueueInv'
<1> DEFINE k == conn[c]
           ph == [phase EXCEPT ![c] = how]
<1> USE DEF Core
<1>1. /\ \A d \in Call : ph[d] = IF d = c THEN how ELSE phase[d]
      /\ how # "waiting" /\ phase[c] # "waiting"
  BY DEF TypeInv, Done, Leased, Leasing
<1>2. /\ waiters \in Seq(Call) /\ Len(waiters) \in Nat
      /\ \A d \in Call : ph[d] = "waiting" => \E j \in 1..Len(waiters) : waiters[j] = d
  BY <1>1 DEF TypeInv, QueueInv, Queued, Elems
<1>3. CASE Discard(k, ph)
  BY <1>1, <1>3 DEF Discard, QueueInv, Queued, NoIdleWhileWaiting, Waiting
<1>4. CASE HandOff(k, ph)
  <2>1. PICK i \in 1..Len(waiters) :
          /\ ph[waiters[i]] = "waiting"
          /\ \A j \in 1..(i - 1) : ph[waiters[j]] # "waiting"
          /\ waiters' = SubSeq(waiters, i + 1, Len(waiters))
          /\ phase' = [ph EXCEPT ![waiters[i]] = "granted"]
    BY <1>4 DEF HandOff
  <2>2. PICK m \in Nat, n \in Nat : m = i + 1 /\ n = Len(waiters)
    BY <1>2
  <2>3. /\ Len(waiters') = n - i /\ \A j \in 1..(n - i) : waiters'[j] = waiters[i + j]
    <3>1. waiters' = SubSeq(waiters, m, n) /\ \A j \in m..n : waiters[j] \in Call
      BY <1>2, <2>1, <2>2
    <3>2. /\ Len(SubSeq(waiters, m, n)) = IF m <= n THEN n - m + 1 ELSE 0
          /\ \A j \in 1..(n - m + 1) : SubSeq(waiters, m, n)[j] = waiters[m + j - 1]
      BY <3>1, SubSeqProperties
    <3> QED  BY <3>1, <3>2, <2>2
  <2>4. PICK w \in Call : w = waiters[i]
    BY <1>2
  <2>5. \A d \in Call : phase'[d] = IF d = w THEN "granted" ELSE ph[d]
    BY <2>1, <2>4 DEF TypeInv
  <2>6. ASSUME NEW d \in Call, phase'[d] = "waiting" PROVE d \in Elems(waiters')
    <3>1. ph[d] = "waiting" /\ d # w
      BY <2>5, <2>6
    <3>2. PICK j \in 1..Len(waiters) : waiters[j] = d
      BY <1>2, <3>1
    <3>3. j > i
      BY <1>2, <2>1, <2>4, <3>1, <3>2
    <3>4. j - i \in 1..(n - i) /\ waiters'[j - i] = waiters[i + (j - i)]
      BY <1>2, <2>2, <2>3, <3>3
    <3>5. waiters'[j - i] = d
      BY <3>2, <3>4, <1>2
    <3> QED  BY <2>3, <3>4, <3>5 DEF Elems
  <2>7. idle = <<>> /\ idle' = idle
    <3>1. phase[w] = "waiting"
      BY <1>1, <2>1, <2>4
    <3> QED  BY <1>4, <3>1 DEF HandOff, QueueInv, NoIdleWhileWaiting, Waiting
  <2> QED  BY <2>6, <2>7 DEF QueueInv, Queued, NoIdleWhileWaiting
<1>5. CASE MakeIdle(k, ph)
  <2>1. \A d \in Call : phase'[d] # "waiting"
    BY <1>2, <1>5 DEF MakeIdle
  <2> QED  BY <2>1 DEF QueueInv, Queued, NoIdleWhileWaiting, Waiting
<1> QED  BY <1>3, <1>4, <1>5 DEF Release

LEMMA QueueStep == Core /\ QueueInv /\ [Next]_vars => QueueInv'
<1> SUFFICES ASSUME Core, QueueInv, [Next]_vars PROVE QueueInv'
  OBVIOUS
<1> USE DEF Core
<1>1. ASSUME waiters' = waiters, idle' = idle \/ idle' = <<>> \/ idle # <<>>,
             \A d \in Call : phase'[d] = "waiting" => phase[d] = "waiting"
      PROVE  QueueInv'
  BY <1>1 DEF QueueInv, Queued, NoIdleWhileWaiting, Waiting
<1>2. ASSUME NEW c \in Call, AcquireWait(c) PROVE QueueInv'
  <2>1. Elems(waiters') = Elems(waiters) \cup {c}
    BY <1>2, AppendElems DEF AcquireWait, TypeInv
  <2>2. \A d \in Call : phase'[d] = "waiting" => d = c \/ phase[d] = "waiting"
    BY <1>2 DEF AcquireWait, TypeInv
  <2>3. idle' = <<>>
    BY <1>2 DEF AcquireWait
  <2> QED  BY <2>1, <2>2, <2>3 DEF QueueInv, Queued, NoIdleWhileWaiting
<1>3. ASSUME NEW c \in Call, AcquireIdle(c) PROVE QueueInv'
  <2>1. \A d \in Call : phase'[d] = "waiting" => phase[d] = "waiting"
    BY <1>3 DEF AcquireIdle, TypeInv
  <2> QED  BY <1>1, <1>3, <2>1 DEF AcquireIdle
<1>4. ASSUME NEW c \in Call,
             \/ AcquireRefused(c) \/ AcquireOpen(c) \/ AcquireQueueFull(c) \/ OpenTimesOut(c)
             \/ SetupFails(c) \/ SetupDone(c) \/ Run(c) \/ StartCancel(c)
      PROVE  QueueInv'
  <2>1. PICK how \in Phase : phase' = [phase EXCEPT ![c] = how] /\ how # "waiting"
    BY <1>4 DEF AcquireRefused, AcquireOpen, AcquireQueueFull, OpenTimesOut, SetupFails, SetupDone,
                Run, StartCancel, Finish, Phase, Opening, Leasing, Done
  <2>2. waiters' = waiters /\ idle' = idle
    BY <1>4 DEF AcquireRefused, AcquireOpen, AcquireQueueFull, OpenTimesOut, SetupFails, SetupDone,
                Run, StartCancel, poolVars
  <2>3. \A d \in Call : phase'[d] = "waiting" => phase[d] = "waiting"
    BY <2>1 DEF TypeInv
  <2> QED  BY <1>1, <2>2, <2>3
<1>5. ASSUME NEW c \in Call, OpenLands(c) \/ OpenRejects(c) \/ Abort(c) PROVE QueueInv'
  <2>1. \A d \in Call : phase'[d] = "waiting" => phase[d] = "waiting"
    BY <1>5 DEF OpenLands, OpenRejects, Abort, Finish, TypeInv
  <2> QED  BY <1>1, <1>5, <2>1 DEF OpenLands, OpenRejects, Abort, poolVars
<1>6. ASSUME NEW c \in Call, QuerySettles(c) PROVE QueueInv'
  <2>1. PICK how \in Done, p \in BOOLEAN : Release(c, how, p)
    <3>1. PICK end \in {"ok", "error", "broken"} :
            Release(c, IF end = "ok" THEN "ok" ELSE "error", end = "broken")
      BY <1>6 DEF QuerySettles
    <3> QED  BY <3>1 DEF Done
  <2> QED  BY <1>6, <2>1, ReleaseQueue DEF QuerySettles, Leased, Leasing
<1>7. ASSUME NEW c \in Call, CancelDrains(c) PROVE QueueInv'
  BY <1>7, ReleaseQueue DEF CancelDrains, Done, Leased, Leasing
<1>8. ASSUME NEW c \in Call, CancelGraceExpires(c) PROVE QueueInv'
  BY <1>8, ReleaseQueue DEF CancelGraceExpires, Done, Leased, Leasing
<1>9. ASSUME Close PROVE QueueInv'
  BY <1>9 DEF Close, TypeInv, QueueInv, Queued, NoIdleWhileWaiting
<1>10. ASSUME UNCHANGED vars PROVE QueueInv'
  BY <1>1, <1>10 DEF vars
<1> QED
  BY <1>2, <1>3, <1>4, <1>5, <1>6, <1>7, <1>8, <1>9, <1>10 DEF Next, Acquire, Settle, AllDone

-----------------------------------------------------------------------------
(* The accounting of `opened`. *)

LEMMA SlotsFinite ==
  ASSUME Core
  PROVE  IsFiniteSet(Slots) /\ Cardinality(Slots) \in Nat
<1>1. Slots \in SUBSET Call
  BY DEF Slots
<1> QED  BY <1>1, CallAssumption, FS_Subset, FS_CardinalityType

(* The slot of a released connection is freed, or passes to the next holder *)
(* or to the idle stack.                                                    *)
LEMMA ReleaseSlots ==
  ASSUME Core, NEW c \in Call, Leased(c), NEW how \in Done, NEW p \in BOOLEAN,
         Release(c, how, p)
  PROVE  /\ conn[c] \in Slots
         /\ \/ /\ Slots' = Slots \ {conn[c]}
               /\ opened' = opened - 1 /\ generation' = generation + 1 /\ conn' = conn
            \/ /\ Slots' = Slots
               /\ opened' = opened /\ generation' = generation
               /\ \A d \in Call : \/ conn'[d] = conn[d]
                                  \/ phase[d] = "waiting" /\ conn'[d] = conn[c]
<1> DEFINE k == conn[c]
           ph == [phase EXCEPT ![c] = how]
<1> USE DEF Core
<1>1. /\ k \in Call /\ k \notin Idle /\ k \in Slots /\ phase[k] \notin Opening
      /\ \A d \in Call : Leased(d) /\ conn[d] = k => d = c
  BY DEF Exclusive, FreshClean, Slots, Leased, Unborn, Opening
<1>2. /\ \A d \in Call : ph[d] = IF d = c THEN how ELSE phase[d]
      /\ how \notin Leasing /\ how \notin Opening /\ how # "waiting" /\ phase[c] \notin Opening
  BY DEF TypeInv, Done, Leasing, Opening, Leased
<1>3. Idle = Elems(idle) /\ Idle' = Elems(idle')
  BY IdleElems
<1>4. CASE Discard(k, ph)
  <2>1. Slots' = Slots \ {k}
    BY <1>1, <1>2, <1>3, <1>4 DEF Discard, Slots, Leased
  <2> QED  BY <1>1, <1>4, <2>1 DEF Discard
<1>5. CASE HandOff(k, ph)
  <2>1. PICK i \in 1..Len(waiters) :
          /\ ph[waiters[i]] = "waiting"
          /\ phase' = [ph EXCEPT ![waiters[i]] = "granted"]
          /\ conn' = [conn EXCEPT ![waiters[i]] = k]
    BY <1>5 DEF HandOff
  <2>2. PICK w \in Call : w = waiters[i]
    BY DEF TypeInv
  <2>3. /\ w # c /\ phase[w] = "waiting"
        /\ \A d \in Call : phase'[d] = IF d = w THEN "granted" ELSE IF d = c THEN how ELSE phase[d]
        /\ \A d \in Call : conn'[d] = IF d = w THEN k ELSE conn[d]
    BY <1>2, <2>1, <2>2 DEF TypeInv
  <2>4. idle' = idle /\ opened' = opened /\ generation' = generation
    BY <1>5 DEF HandOff
  <2>5. ASSUME NEW j \in Call PROVE j \in Slots' <=> j \in Slots
    <3>1. (\E d \in Call : conn'[d] = j /\ phase'[d] \in Leasing)
            <=> (\E d \in Call : conn[d] = j /\ phase[d] \in Leasing)
      BY <1>1, <1>2, <2>3 DEF Leasing, Leased
    <3>2. phase'[j] \in Opening <=> phase[j] \in Opening
      BY <1>2, <2>3 DEF Opening
    <3> QED  BY <1>3, <2>4, <3>1, <3>2 DEF Slots
  <2>6. Slots' = Slots
    BY <2>5 DEF Slots
  <2> QED  BY <1>1, <2>3, <2>4, <2>6
<1>6. CASE MakeIdle(k, ph)
  <2>1. /\ Elems(idle') = Elems(idle) \cup {k} /\ phase' = ph /\ conn' = conn
        /\ opened' = opened /\ generation' = generation
    BY <1>1, <1>6, AppendElems DEF MakeIdle, TypeInv
  <2>2. ASSUME NEW j \in Call PROVE j \in Slots' <=> j \in Slots
    BY <1>1, <1>2, <1>3, <2>1 DEF Slots, Leased
  <2>3. Slots' = Slots
    BY <2>2 DEF Slots
  <2> QED  BY <1>1, <2>1, <2>3
<1> QED  BY <1>4, <1>5, <1>6 DEF Release

(* What a step may do to the slots: nothing, take one for an open, give one *)
(* back after a failed open, give back a discarded connection's and begin a *)
(* generation, or give back the idle ones at close.                         *)
SlotsKept == Slots' = Slots /\ opened' = opened /\ generation' = generation

SlotTaken(k) ==
  /\ ~closed /\ ~closed' /\ k \notin Slots /\ opened < MaxConnections
  /\ Slots' = Slots \cup {k} /\ opened' = opened + 1 /\ generation' = generation

OpenGivenUp(k) ==
  /\ k \in Slots /\ phase[k] \in Opening
  /\ Slots' = Slots \ {k} /\ opened' = opened - 1 /\ generation' = generation

LeaseDiscarded(k) ==
  /\ k \in Slots
  /\ Slots' = Slots \ {k} /\ opened' = opened - 1 /\ generation' = generation + 1

IdleClosed ==
  /\ closed' /\ Elems(idle) \subseteq Slots
  /\ Slots' = Slots \ Elems(idle) /\ opened' = opened - Len(idle) /\ generation' = generation

SlotsChange ==
  \/ SlotsKept
  \/ \E k \in Call : SlotTaken(k) \/ OpenGivenUp(k) \/ LeaseDiscarded(k)
  \/ IdleClosed

(* Every step of the pool is one of these, and a closed pool stays closed. *)
LEMMA SlotsStep == Core /\ [Next]_vars => SlotsChange /\ (closed => closed')
<1> SUFFICES ASSUME Core, [Next]_vars PROVE SlotsChange /\ (closed => closed')
  OBVIOUS
<1> USE DEF Core
<1> DEFINE Goal == SlotsChange /\ (closed => closed')
<1>0. Idle = Elems(idle) /\ Idle' = Elems(idle')
  BY IdleElems
<1>1. ASSUME idle' = idle, conn' = conn, opened' = opened, generation' = generation,
             \A d \in Call : /\ phase'[d] \in Opening <=> phase[d] \in Opening
                             /\ phase'[d] \in Leasing <=> phase[d] \in Leasing
      PROVE  SlotsChange
  <2>1. ASSUME NEW j \in Call PROVE j \in Slots' <=> j \in Slots
    <3>1. (\E d \in Call : conn'[d] = j /\ phase'[d] \in Leasing)
            <=> (\E d \in Call : conn[d] = j /\ phase[d] \in Leasing)
      BY <1>1
    <3>2. Idle' = Idle
      BY <1>0, <1>1
    <3> QED  BY <1>1, <3>1, <3>2 DEF Slots
  <2>2. Slots' = Slots
    BY <2>1 DEF Slots
  <2> QED  BY <1>1, <2>2 DEF SlotsChange, SlotsKept
<1>2. ASSUME NEW c \in Call, AcquireIdle(c) PROVE Goal
  <2>1. /\ idle[Len(idle)] \in Call /\ idle[Len(idle)] \in Elems(idle)
        /\ Elems(idle') = Elems(idle) \ {idle[Len(idle)]}
    <3>1. /\ idle \in Seq(Call) /\ idle # <<>> /\ NoDup(idle)
          /\ idle' = SubSeq(idle, 1, Len(idle) - 1)
      BY <1>2 DEF AcquireIdle, TypeInv, IdleUnique
    <3> QED  BY <3>1, PopElems
  <2>2. PICK k \in Call : k = idle[Len(idle)]
    BY <2>1
  <2>3. /\ \A d \in Call : phase'[d] = IF d = c THEN "granted" ELSE phase[d]
        /\ \A d \in Call : conn'[d] = IF d = c THEN k ELSE conn[d]
        /\ phase[c] = "new" /\ opened' = opened /\ generation' = generation /\ closed' = closed
    BY <1>2, <2>2 DEF AcquireIdle, MayAcquire, TypeInv
  <2>4. ASSUME NEW j \in Call PROVE j \in Slots' <=> j \in Slots
    BY <1>0, <2>1, <2>2, <2>3 DEF Slots, Leasing, Opening
  <2>5. Slots' = Slots
    BY <2>4 DEF Slots
  <2> QED  BY <2>3, <2>5 DEF SlotsChange, SlotsKept
<1>3. ASSUME NEW c \in Call, AcquireOpen(c) PROVE Goal
  <2>1. c \notin Slots
    BY <1>3 DEF AcquireOpen, MayAcquire, Slots, FreshClean, Unborn, Opening, Leased
  <2>2. Slots' = Slots \cup {c}
    BY <1>0, <1>3 DEF AcquireOpen, MayAcquire, Slots, TypeInv, Opening, Leasing
  <2>3. SlotTaken(c) /\ closed' = closed
    BY <1>3, <2>1, <2>2 DEF AcquireOpen, MayAcquire, SlotTaken
  <2> QED  BY <2>3 DEF SlotsChange
<1>4. ASSUME NEW c \in Call, phase[c] \in Opening, opened' = opened - 1,
             phase' = [phase EXCEPT ![c] = "connectFailed"], idle' = idle, conn' = conn,
             generation' = generation
      PROVE  SlotsChange
  <2>1. c \in Slots /\ c \notin Idle /\ \A d \in Call : Leased(d) => conn[d] # c
    BY <1>4 DEF Slots, FreshClean, Unborn, Opening
  <2>2. Slots' = Slots \ {c}
    BY <1>0, <1>4, <2>1 DEF Slots, TypeInv, Opening, Leasing, Leased
  <2> QED  BY <1>4, <2>1, <2>2 DEF SlotsChange, OpenGivenUp
<1>5. ASSUME NEW c \in Call, OpenTimesOut(c) \/ SetupFails(c) PROVE Goal
  BY <1>4, <1>5 DEF OpenTimesOut, SetupFails, Finish, Opening
<1>6. ASSUME NEW c \in Call, OpenRejects(c) PROVE Goal
  <2>1. CASE phase[c] = "opening"
    BY <1>4, <1>6, <2>1 DEF OpenRejects, Finish, Opening
  <2>2. CASE phase[c] # "opening"
    BY <1>1, <1>6, <2>2 DEF OpenRejects
  <2> QED  BY <2>1, <2>2
<1>7. ASSUME NEW c \in Call, SetupDone(c) PROVE Goal
  <2>1. /\ \A d \in Call : phase'[d] = IF d = c THEN "granted" ELSE phase[d]
        /\ \A d \in Call : conn'[d] = IF d = c THEN c ELSE conn[d]
        /\ phase[c] = "setup" /\ opened' = opened /\ idle' = idle
        /\ generation' = generation /\ closed' = closed
    BY <1>7 DEF SetupDone, poolVars, TypeInv
  <2>2. ASSUME NEW j \in Call PROVE j \in Slots' <=> j \in Slots
    BY <1>0, <2>1 DEF Slots, Leasing, Opening
  <2>3. Slots' = Slots
    BY <2>2 DEF Slots
  <2> QED  BY <2>1, <2>3 DEF SlotsChange, SlotsKept
<1>8. ASSUME NEW c \in Call, Leased(c), NEW how \in Done, NEW p \in BOOLEAN, Release(c, how, p)
      PROVE  Goal
  <2>1. conn[c] \in Call /\ closed' = closed
    BY <1>8 DEF Exclusive, Release
  <2>2. SlotsKept \/ LeaseDiscarded(conn[c])
    BY <1>8, ReleaseSlots DEF SlotsKept, LeaseDiscarded
  <2> QED  BY <2>1, <2>2 DEF SlotsChange
<1>9. ASSUME NEW c \in Call, QuerySettles(c) PROVE Goal
  <2>1. PICK how \in Done, p \in BOOLEAN : Release(c, how, p)
    <3>1. PICK end \in {"ok", "error", "broken"} :
            Release(c, IF end = "ok" THEN "ok" ELSE "error", end = "broken")
      BY <1>9 DEF QuerySettles
    <3> QED  BY <3>1 DEF Done
  <2> QED  BY <1>8, <1>9, <2>1 DEF QuerySettles, Leased, Leasing
<1>10. ASSUME NEW c \in Call, CancelDrains(c) \/ CancelGraceExpires(c) PROVE Goal
  BY <1>8, <1>10 DEF CancelDrains, CancelGraceExpires, Done, Leased, Leasing
<1>11. ASSUME NEW c \in Call,
              \/ AcquireRefused(c) \/ AcquireQueueFull(c) \/ AcquireWait(c) \/ OpenLands(c)
              \/ Run(c) \/ StartCancel(c) \/ Abort(c)
       PROVE  Goal
  <2>1. /\ idle' = idle /\ conn' = conn /\ opened' = opened
        /\ generation' = generation /\ closed' = closed
    BY <1>11 DEF AcquireRefused, AcquireQueueFull, AcquireWait, OpenLands, Run, StartCancel, Abort,
                 poolVars
  <2>2. \A d \in Call : /\ phase'[d] \in Opening <=> phase[d] \in Opening
                        /\ phase'[d] \in Leasing <=> phase[d] \in Leasing
    BY <1>11 DEF AcquireRefused, AcquireQueueFull, AcquireWait, OpenLands, Run, StartCancel, Abort,
                 MayAcquire, Finish, TypeInv, Opening, Leasing
  <2> QED  BY <1>1, <2>1, <2>2
<1>12. ASSUME Close PROVE Goal
  <2>1. /\ Idle' = {} /\ conn' = conn /\ opened' = opened - Len(idle)
        /\ generation' = generation /\ closed'
        /\ \A d \in Call : /\ phase'[d] \in Opening <=> phase[d] \in Opening
                           /\ phase'[d] \in Leasing <=> phase[d] \in Leasing
    BY <1>12 DEF Close, Idle, TypeInv, Opening, Leasing
  <2>2. Slots' = Slots \ Elems(idle) /\ Elems(idle) \subseteq Slots
    <3>1. Elems(idle) \subseteq Call
      BY DEF TypeInv, Elems
    <3>2. \A k \in Idle : phase[k] \notin Opening /\ \A d \in Call : Leased(d) => conn[d] # k
      BY <1>0, <3>1 DEF FreshClean, Unborn, Opening, Exclusive
    <3> QED  BY <1>0, <2>1, <3>1, <3>2 DEF Slots, Leased
  <2> QED  BY <2>1, <2>2 DEF SlotsChange, IdleClosed
<1>13. ASSUME UNCHANGED vars PROVE Goal
  <2>1. Slots' = Slots
    BY <1>0, <1>13 DEF vars, Slots
  <2> QED  BY <1>13, <2>1 DEF vars, SlotsChange, SlotsKept
<1> QED
  BY <1>2, <1>3, <1>5, <1>6, <1>7, <1>9, <1>10, <1>11, <1>12, <1>13
     DEF Next, Acquire, Settle, AllDone

LEMMA AccountingStep == Core /\ OpenedAccounting /\ [Next]_vars => OpenedAccounting'
<1> SUFFICES ASSUME Core, OpenedAccounting, [Next]_vars PROVE OpenedAccounting'
  OBVIOUS
<1>1. /\ IsFiniteSet(Slots) /\ Cardinality(Slots) \in Nat /\ MaxConnections \in Nat
      /\ opened = Cardinality(Slots) /\ opened <= MaxConnections
  BY SlotsFinite, LimitAssumption DEF OpenedAccounting
<1>2. CASE SlotsKept
  BY <1>1, <1>2 DEF OpenedAccounting, SlotsKept
<1>3. ASSUME NEW k \in Call, SlotTaken(k) PROVE OpenedAccounting'
  <2>1. Cardinality(Slots \cup {k}) = Cardinality(Slots) + 1
    BY <1>1, <1>3, FS_AddElement DEF SlotTaken
  <2> QED  BY <1>1, <1>3, <2>1 DEF OpenedAccounting, SlotTaken
<1>4. ASSUME NEW k \in Call, OpenGivenUp(k) \/ LeaseDiscarded(k) PROVE OpenedAccounting'
  <2>1. k \in Slots /\ Slots' = Slots \ {k} /\ opened' = opened - 1
    BY <1>4 DEF OpenGivenUp, LeaseDiscarded
  <2>2. Cardinality(Slots \ {k}) = Cardinality(Slots) - 1
    BY <1>1, <2>1, FS_RemoveElement
  <2> QED  BY <1>1, <2>1, <2>2 DEF OpenedAccounting
<1>5. CASE IdleClosed
  <2>1. Cardinality(Elems(idle)) = Len(idle) /\ Len(idle) \in Nat
    BY NoDupCardinality DEF Core, TypeInv, IdleUnique
  <2>2. Cardinality(Slots \ Elems(idle)) = Cardinality(Slots) - Cardinality(Slots \cap Elems(idle))
    BY <1>1, FS_Difference
  <2>3. Slots \cap Elems(idle) = Elems(idle)
    BY <1>5 DEF IdleClosed
  <2>4. Cardinality(Slots') = Cardinality(Slots) - Len(idle) /\ opened' = opened - Len(idle)
    BY <1>5, <2>1, <2>2, <2>3 DEF IdleClosed
  <2> QED  BY <1>1, <2>1, <2>4 DEF OpenedAccounting
<1> QED  BY <1>2, <1>3, <1>4, <1>5, SlotsStep DEF SlotsChange

-----------------------------------------------------------------------------
(* Generations. *)

(* The connections leased during generation g. *)
LeasedIn(g) == {conn[c] : c \in {d \in Call : born[d] = g}}

(* The current generation has seen no more than the slots of its time: as   *)
(* long as the pool is open they are still slots, and close only frees them. *)
GenInv ==
  /\ \A c \in Call : born[c] <= generation
  /\ \A c \in Call : phase[c] \in Unborn \cup {"waiting"} => born[c] = NoLease
  /\ \A c \in Call : conn[c] \in Call => phase[conn[c]] \notin Unborn
  /\ ~closed => LeasedIn(generation) \subseteq Slots
  /\ Cardinality(LeasedIn(generation) \cup Slots) <= MaxConnections
  /\ \A g \in 0..(generation - 1) : Cardinality(LeasedIn(g)) <= MaxConnections

(* A lease is recorded once, of a connection that has a slot before and      *)
(* after, and its connection does not change once it is recorded.           *)
LeaseRecorded(d) ==
  \/ born'[d] = born[d] /\ (born[d] # NoLease => conn'[d] = conn[d])
  \/ /\ born[d] = NoLease /\ born'[d] = generation /\ generation' = generation
     /\ conn'[d] \in Slots /\ conn'[d] \in Slots'

(* A connection in use or once used is no call's future connection. *)
BornStays ==
  /\ \A d \in Call : phase'[d] \in Unborn => phase[d] \in Unborn
  /\ \A d \in Call : phase'[d] \in Unborn \cup {"waiting"}
                       => phase[d] \in Unborn \cup {"waiting"} /\ born'[d] = born[d]
  /\ \A d \in Call : conn'[d] # conn[d] /\ conn'[d] \in Call => phase'[conn'[d]] \notin Unborn

LEMMA LeaseStep ==
  ASSUME Core, GenInv, [Next]_vars
  PROVE  BornStays /\ \A d \in Call : LeaseRecorded(d)
<1> USE DEF Core
<1>0. Idle = Elems(idle) /\ Idle' = Elems(idle')
  BY IdleElems
<1>1. ASSUME NEW c \in Call, AcquireIdle(c) PROVE BornStays /\ \A d \in Call : LeaseRecorded(d)
  <2>1. /\ idle[Len(idle)] \in Call /\ idle[Len(idle)] \in Elems(idle)
    <3>1. idle \in Seq(Call) /\ idle # <<>> /\ NoDup(idle)
      BY <1>1 DEF AcquireIdle, TypeInv, IdleUnique
    <3> QED  BY <3>1, PopElems
  <2>2. PICK k \in Call : k = idle[Len(idle)]
    BY <2>1
  <2>3. /\ \A d \in Call : phase'[d] = IF d = c THEN "granted" ELSE phase[d]
        /\ \A d \in Call : conn'[d] = IF d = c THEN k ELSE conn[d]
        /\ \A d \in Call : born'[d] = IF d = c THEN generation ELSE born[d]
        /\ phase[c] = "new" /\ generation' = generation
    BY <1>1, <2>2 DEF AcquireIdle, MayAcquire, TypeInv
  <2>4. k \in Slots /\ k \in Slots' /\ phase[k] \notin Unborn /\ born[c] = NoLease
    BY <1>0, <2>1, <2>2, <2>3 DEF Slots, FreshClean, GenInv, Unborn, Leasing
  <2>5. BornStays
    BY <2>3, <2>4 DEF BornStays, Unborn
  <2> QED  BY <2>3, <2>4, <2>5 DEF LeaseRecorded
<1>2. ASSUME NEW c \in Call, SetupDone(c) PROVE BornStays /\ \A d \in Call : LeaseRecorded(d)
  <2>1. /\ \A d \in Call : phase'[d] = IF d = c THEN "granted" ELSE phase[d]
        /\ \A d \in Call : conn'[d] = IF d = c THEN c ELSE conn[d]
        /\ \A d \in Call : born'[d] = IF d = c THEN generation ELSE born[d]
        /\ phase[c] = "setup" /\ generation' = generation
    BY <1>2 DEF SetupDone, poolVars, TypeInv
  <2>2. c \in Slots /\ c \in Slots' /\ born[c] = NoLease
    BY <2>1 DEF Slots, GenInv, Unborn, Opening, Leasing
  <2>3. BornStays
    BY <2>1 DEF BornStays, Unborn
  <2> QED  BY <2>1, <2>2, <2>3 DEF LeaseRecorded
<1>3. ASSUME NEW c \in Call, Run(c) PROVE BornStays /\ \A d \in Call : LeaseRecorded(d)
  <2>1. /\ \A d \in Call : phase'[d] = IF d = c THEN "running" ELSE phase[d]
        /\ \A d \in Call : born'[d] = IF d = c /\ born[d] = NoLease THEN generation ELSE born[d]
        /\ phase[c] = "granted" /\ conn' = conn /\ generation' = generation
    BY <1>3 DEF Run, poolVars, TypeInv
  <2>2. conn[c] \in Call /\ conn[c] \in Slots /\ conn[c] \in Slots'
    BY <2>1 DEF Slots, Exclusive, Leased, Leasing
  <2>3. BornStays
    BY <2>1 DEF BornStays, Unborn
  <2> QED  BY <2>1, <2>2, <2>3 DEF LeaseRecorded
<1>4. ASSUME NEW c \in Call, Leased(c), NEW how \in Done, NEW p \in BOOLEAN, Release(c, how, p),
             born' = born
      PROVE  BornStays /\ \A d \in Call : LeaseRecorded(d)
  <2>1. conn[c] \in Call /\ phase[conn[c]] \notin Unborn
    BY <1>4 DEF Exclusive, FreshClean
  <2>2. \A d \in Call : \/ conn'[d] = conn[d]
                        \/ phase[d] = "waiting" /\ conn'[d] = conn[c]
    BY <1>4, ReleaseSlots
  <2>3. \A d \in Call : \/ phase'[d] = phase[d]
                        \/ phase'[d] \notin Unborn \cup {"waiting"}
    <3> DEFINE ph == [phase EXCEPT ![c] = how]
    <3>1. \A d \in Call : ph[d] = IF d = c THEN how ELSE phase[d]
      BY DEF TypeInv
    <3>2. how \notin Unborn \cup {"waiting"}
      BY DEF Done, Unborn
    <3>3. CASE phase' = ph
      BY <3>1, <3>2, <3>3
    <3>4. CASE HandOff(conn[c], ph)
      <4>0. PICK i \in 1..Len(waiters) : phase' = [ph EXCEPT ![waiters[i]] = "granted"]
        BY <3>4 DEF HandOff
      <4>1. PICK w \in Call : phase' = [ph EXCEPT ![w] = "granted"]
        <5>1. waiters[i] \in Call
          BY DEF TypeInv
        <5> QED  BY <4>0, <5>1
      <4>2. \A d \in Call : phase'[d] = IF d = w THEN "granted" ELSE ph[d]
        BY <4>1, <3>1 DEF TypeInv
      <4> QED  BY <3>1, <3>2, <4>2 DEF Unborn
    <3> QED  BY <1>4, <3>3, <3>4 DEF Release, Discard, MakeIdle
  <2>4. BornStays
    BY <1>4, <2>1, <2>2, <2>3 DEF BornStays
  <2>5. ASSUME NEW d \in Call PROVE LeaseRecorded(d)
    BY <1>4, <2>2 DEF LeaseRecorded, GenInv
  <2> QED  BY <2>4, <2>5
<1>5. ASSUME NEW c \in Call, QuerySettles(c) PROVE BornStays /\ \A d \in Call : LeaseRecorded(d)
  <2>1. PICK how \in Done, p \in BOOLEAN : Release(c, how, p)
    <3>1. PICK end \in {"ok", "error", "broken"} :
            Release(c, IF end = "ok" THEN "ok" ELSE "error", end = "broken")
      BY <1>5 DEF QuerySettles
    <3> QED  BY <3>1 DEF Done
  <2> QED  BY <1>4, <1>5, <2>1 DEF QuerySettles, Leased, Leasing
<1>6. ASSUME NEW c \in Call, CancelDrains(c) \/ CancelGraceExpires(c)
      PROVE  BornStays /\ \A d \in Call : LeaseRecorded(d)
  BY <1>4, <1>6 DEF CancelDrains, CancelGraceExpires, Done, Leased, Leasing
<1>7. ASSUME conn' = conn, born' = born,
             \A d \in Call : /\ phase'[d] \in Unborn => phase[d] \in Unborn
                             /\ phase'[d] = "waiting" => phase[d] \in Unborn \cup {"waiting"}
      PROVE  BornStays /\ \A d \in Call : LeaseRecorded(d)
  BY <1>7 DEF BornStays, LeaseRecorded
<1>8. ASSUME NEW c \in Call,
             \/ AcquireRefused(c) \/ AcquireOpen(c) \/ AcquireQueueFull(c) \/ AcquireWait(c)
             \/ OpenLands(c) \/ OpenRejects(c) \/ OpenTimesOut(c) \/ SetupFails(c)
             \/ StartCancel(c) \/ Abort(c)
      PROVE  BornStays /\ \A d \in Call : LeaseRecorded(d)
  <2>1. conn' = conn /\ born' = born
    BY <1>8 DEF AcquireRefused, AcquireOpen, AcquireQueueFull, AcquireWait, OpenLands, OpenRejects,
                OpenTimesOut, SetupFails, StartCancel, Abort
  <2>2. \A d \in Call : /\ phase'[d] \in Unborn => phase[d] \in Unborn
                        /\ phase'[d] = "waiting" => phase[d] \in Unborn \cup {"waiting"}
    BY <1>8 DEF AcquireRefused, AcquireOpen, AcquireQueueFull, AcquireWait, OpenLands, OpenRejects,
                OpenTimesOut, SetupFails, StartCancel, Abort, MayAcquire, Finish, TypeInv, Unborn
  <2> QED  BY <1>7, <2>1, <2>2
<1>9. ASSUME Close PROVE BornStays /\ \A d \in Call : LeaseRecorded(d)
  <2>1. conn' = conn /\ born' = born
    BY <1>9 DEF Close
  <2>2. \A d \in Call : phase'[d] = IF phase[d] = "waiting" THEN "shutdown" ELSE phase[d]
    BY <1>9 DEF Close
  <2> QED  BY <1>7, <2>1, <2>2 DEF Unborn
<1>10. ASSUME UNCHANGED vars PROVE BornStays /\ \A d \in Call : LeaseRecorded(d)
  BY <1>7, <1>10 DEF vars
<1> QED
  BY <1>1, <1>2, <1>3, <1>5, <1>6, <1>8, <1>9, <1>10 DEF Next, Acquire, Settle, AllDone

(* The sets counted are finite: they are made of connections. *)
LEMMA LeasedInFinite ==
  ASSUME Core, NEW g
  PROVE  /\ IsFiniteSet(LeasedIn(g)) /\ IsFiniteSet(LeasedIn(g) \cup Slots)
         /\ Cardinality(LeasedIn(g) \cup Slots) \in Nat
<1>1. LeasedIn(g) \subseteq Call \cup {NoConn} /\ Slots \subseteq Call \cup {NoConn}
  BY DEF LeasedIn, Slots, Core, TypeInv
<1>2. IsFiniteSet(Call \cup {NoConn})
  BY CallAssumption, FS_AddElement
<1> QED  BY <1>1, <1>2, FS_Subset, FS_CardinalityType

(* A subset of a set that respects the limit respects it. *)
LEMMA SubsetBound ==
  ASSUME NEW S, NEW T, IsFiniteSet(T), Cardinality(T) <= MaxConnections, S \subseteq T
  PROVE  Cardinality(S) <= MaxConnections
<1>1. IsFiniteSet(S) /\ Cardinality(S) <= Cardinality(T)
  BY FS_Subset
<1>2. Cardinality(S) \in Nat /\ Cardinality(T) \in Nat /\ MaxConnections \in Nat
  BY <1>1, FS_CardinalityType, LimitAssumption
<1> QED  BY <1>1, <1>2

LEMMA GenStep ==
  Core /\ Core' /\ OpenedAccounting /\ OpenedAccounting' /\ GenInv /\ [Next]_vars => GenInv'
<1> SUFFICES ASSUME Core, Core', OpenedAccounting, OpenedAccounting', GenInv, [Next]_vars
             PROVE  GenInv'
  OBVIOUS
<1> DEFINE Now == LeasedIn(generation) \cup Slots
<1>1. BornStays /\ \A d \in Call : LeaseRecorded(d)
  BY LeaseStep
<1>2. /\ generation \in Nat /\ generation' \in Nat /\ MaxConnections \in Nat
      /\ \A d \in Call : born[d] \in Int /\ born'[d] \in Int
      /\ NoLease = -1
  BY LimitAssumption DEF Core, TypeInv, NoLease
<1>3. SlotsChange /\ (closed => closed')
  BY SlotsStep
<1>4. \/ generation' = generation
      \/ generation' = generation + 1 /\ \E k \in Call : LeaseDiscarded(k)
  <2>1. ASSUME NEW k \in Call, LeaseDiscarded(k) PROVE generation' = generation + 1
    BY <2>1 DEF LeaseDiscarded
  <2>2. ASSUME NEW k \in Call, SlotTaken(k) \/ OpenGivenUp(k) PROVE generation' = generation
    BY <2>2 DEF SlotTaken, OpenGivenUp
  <2>3. ASSUME SlotsKept \/ IdleClosed PROVE generation' = generation
    BY <2>3 DEF SlotsKept, IdleClosed
  <2> QED  BY <1>3, <2>1, <2>2, <2>3 DEF SlotsChange
<1>5. \A c \in Call : born'[c] <= generation'
  BY <1>1, <1>2, <1>4 DEF LeaseRecorded, GenInv
<1>6. \A c \in Call : phase'[c] \in Unborn \cup {"waiting"} => born'[c] = NoLease
  BY <1>1 DEF BornStays, GenInv
<1>7. \A c \in Call : conn'[c] \in Call => phase'[conn'[c]] \notin Unborn
  BY <1>1 DEF BornStays, GenInv
<1>8. \A g \in 0..(generation - 1) : LeasedIn(g)' \subseteq LeasedIn(g)
  <2>1. ASSUME NEW g \in 0..(generation - 1), NEW c \in Call, born'[c] = g
        PROVE  born[c] = g /\ conn'[c] = conn[c]
    BY <1>1, <1>2, <2>1 DEF LeaseRecorded
  <2> QED  BY <2>1 DEF LeasedIn
<1>9. \A c \in Call : born'[c] = generation => conn'[c] \in Now
  BY <1>1, <1>2 DEF LeaseRecorded, LeasedIn
<1>10. IsFiniteSet(Now) /\ Cardinality(Now) <= MaxConnections
  BY LeasedInFinite DEF GenInv
<1>11. \A g \in 0..(generation - 1) : Cardinality(LeasedIn(g)') <= MaxConnections
  <2> SUFFICES ASSUME NEW g \in 0..(generation - 1) PROVE Cardinality(LeasedIn(g)') <= MaxConnections
    OBVIOUS
  <2>1. Cardinality(LeasedIn(g)) <= MaxConnections /\ IsFiniteSet(LeasedIn(g))
    BY LeasedInFinite DEF GenInv
  <2> QED  BY <1>8, <2>1, SubsetBound
<1>12. CASE generation' = generation
  <2>1. \A g \in 0..(generation' - 1) : Cardinality(LeasedIn(g)') <= MaxConnections
    BY <1>11, <1>12
  <2>2. LeasedIn(generation)' = {conn'[c] : c \in {d \in Call : born'[d] = generation'}}
    BY DEF LeasedIn
  <2>3. ~closed' => LeasedIn(generation)' \subseteq Slots'
    <3> SUFFICES ASSUME ~closed', NEW c \in Call, born'[c] = generation PROVE conn'[c] \in Slots'
      BY <1>12, <2>2
    <3>1. CASE conn'[c] \in Slots'
      BY <3>1
    <3>2. CASE born[c] = generation /\ conn'[c] = conn[c]
      <4>1. ~closed /\ conn[c] \in Slots
        BY <1>3, <3>2 DEF GenInv, LeasedIn
      <4>2. conn[c] \in Call /\ phase[conn[c]] \notin Opening
        BY <4>1 DEF GenInv, Slots, Unborn, Opening
      <4>3. ~LeaseDiscarded(conn[c]) /\ ~\E k \in Call : LeaseDiscarded(k)
        BY <1>2, <1>12 DEF LeaseDiscarded
      <4> QED  BY <1>3, <3>2, <4>1, <4>2, <4>3
                  DEF SlotsChange, SlotsKept, SlotTaken, OpenGivenUp, IdleClosed
    <3> QED  BY <1>1, <1>2, <3>1, <3>2 DEF LeaseRecorded
  <2>4. Cardinality(LeasedIn(generation)' \cup Slots') <= MaxConnections
    <3>1. CASE ~closed'
      <4>1. LeasedIn(generation)' \cup Slots' = Slots'
        BY <2>3, <3>1
      <4> QED  BY <4>1 DEF OpenedAccounting
    <3>2. CASE Slots' \subseteq Slots
      <4>1. LeasedIn(generation)' \cup Slots' \subseteq Now
        BY <1>9, <1>12, <2>2, <3>2
      <4> QED  BY <1>10, <4>1, SubsetBound
    <3>3. ~closed' \/ Slots' \subseteq Slots
      BY <1>3 DEF SlotsChange, SlotsKept, SlotTaken, OpenGivenUp, LeaseDiscarded, IdleClosed
    <3> QED  BY <3>1, <3>2, <3>3
  <2> QED  BY <1>5, <1>6, <1>7, <2>1, <2>3, <2>4 DEF GenInv
<1>13. ASSUME generation' = generation + 1, NEW k \in Call, LeaseDiscarded(k) PROVE GenInv'
  <2>1. LeasedIn(generation)' = {}
    <3>1. \A c \in Call : born'[c] # generation'
      BY <1>1, <1>2, <1>13 DEF LeaseRecorded, GenInv
    <3> QED  BY <3>1 DEF LeasedIn
  <2>2. Cardinality(LeasedIn(generation)' \cup Slots') <= MaxConnections
    <3>1. LeasedIn(generation)' \cup Slots' \subseteq Now
      BY <1>13, <2>1 DEF LeaseDiscarded
    <3> QED  BY <1>10, <3>1, SubsetBound
  <2>3. ASSUME NEW g \in 0..(generation' - 1) PROVE Cardinality(LeasedIn(g)') <= MaxConnections
    <3>1. CASE g = generation
      <4>1. LeasedIn(g)' \subseteq Now
        BY <1>9, <3>1 DEF LeasedIn
      <4> QED  BY <1>10, <4>1, SubsetBound
    <3>2. CASE g \in 0..(generation - 1)
      BY <1>11, <3>2
    <3> QED  BY <1>2, <1>13, <2>3, <3>1, <3>2
  <2> QED  BY <1>5, <1>6, <1>7, <2>1, <2>2, <2>3 DEF GenInv
<1> QED  BY <1>4, <1>12, <1>13

-----------------------------------------------------------------------------
(* The theorems. *)

IndInv == Core /\ WireInv /\ QueueInv /\ OpenedAccounting /\ GenInv

LEMMA IndInvInit == Init => IndInv
<1> SUFFICES ASSUME Init PROVE IndInv
  OBVIOUS
<1>1. Core
  BY CoreInit
<1>2. Idle = {} /\ WireInv
  BY DEF Init, Idle, WireInv
<1>3. QueueInv
  BY DEF Init, QueueInv, Queued, NoIdleWhileWaiting
<1>4. Slots = {}
  BY <1>2 DEF Init, Slots, Opening, Leasing
<1>5. OpenedAccounting
  BY <1>4, FS_EmptySet, LimitAssumption DEF Init, OpenedAccounting
<1>6. GenInv
  <2>1. born = [c \in Call |-> NoLease] /\ generation = 0 /\ conn = [c \in Call |-> NoConn]
    BY DEF Init
  <2>2. LeasedIn(generation) = {}
    BY <2>1 DEF LeasedIn, NoLease
  <2>3. Cardinality(LeasedIn(generation) \cup Slots) <= MaxConnections
    BY <1>4, <2>2, FS_EmptySet, LimitAssumption
  <2> QED  BY <2>1, <2>2, <2>3, CallAssumption DEF GenInv, NoLease
<1> QED  BY <1>1, <1>2, <1>3, <1>5, <1>6 DEF IndInv

(* The inductive invariant holds in every reachable state of the pool. *)
LEMMA IndInvAlways == Spec => []IndInv
<1>1. IndInv /\ [Next]_vars => IndInv'
  BY CoreStep, WireStep, QueueStep, AccountingStep, GenStep DEF IndInv
<1> QED  BY <1>1, IndInvInit, PTL DEF Spec

(* Every variable of the pool keeps its type; in particular `opened` never  *)
(* becomes negative, however opens fail, land late or race close.           *)
THEOREM TypeCorrect == Spec => []TypeOK
<1>1. IndInv => TypeOK
  <2> SUFFICES ASSUME IndInv PROVE TypeOK
    OBVIOUS
  <2>1. opened \in Nat
    BY SlotsFinite DEF IndInv, OpenedAccounting
  <2> QED  BY <2>1 DEF IndInv, Core, TypeInv, TypeOK
<1> QED  BY <1>1, IndInvAlways, PTL

(* No call ever reads what another call's request left on the wire, for any *)
(* number of calls, connections and any interleaving of aborts, late        *)
(* settles and hand-offs: the guard of runCancellable.                      *)
THEOREM NoCrossedResultsAlways == Spec => []NoCrossedResults
<1>1. IndInv => NoCrossedResults
  <2> SUFFICES ASSUME IndInv, NEW k \in Slots
               PROVE  wire[k] \subseteq {c \in Holders(k) : phase[c] # "granted"}
    BY DEF NoCrossedResults
  <2> USE DEF IndInv, Core
  <2>1. CASE phase[k] \in Opening
    BY <2>1 DEF FreshClean, Slots, Opening, Unborn
  <2>2. CASE k \in Idle
    BY <2>2 DEF WireInv
  <2>3. ASSUME NEW c \in Call, conn[c] = k, phase[c] \in Leasing
        PROVE  wire[k] \subseteq {d \in Holders(k) : phase[d] # "granted"}
    BY <2>3 DEF WireInv, Holders, Leasing
  <2> QED  BY <2>1, <2>2, <2>3 DEF Slots
<1> QED  BY <1>1, IndInvAlways, PTL

(* A connection is leased to at most one call and is then neither idle nor  *)
(* being opened.                                                            *)
THEOREM LeaseExclusiveAlways == Spec => []LeaseExclusive
<1>1. IndInv => LeaseExclusive
  <2> SUFFICES ASSUME IndInv PROVE LeaseExclusive
    OBVIOUS
  <2> USE DEF IndInv, Core
  <2>1. \A i, j \in 1..Len(idle) : idle[i] = idle[j] => i = j
    BY DEF IdleUnique, NoDup
  <2>2. \A c, d \in Call : /\ phase[c] \in Leasing
                           /\ phase[d] \in Leasing
                           /\ conn[c] = conn[d]
                           => c = d
    BY DEF Exclusive, Leased
  <2>3. ASSUME NEW k \in Call, Holders(k) # {}
        PROVE  k \notin Idle /\ phase[k] \notin Opening
    BY <2>3 DEF Holders, Exclusive, FreshClean, Leased, Opening, Unborn
  <2> QED  BY <2>1, <2>2, <2>3 DEF LeaseExclusive
<1> QED  BY <1>1, IndInvAlways, PTL

(* `opened` is the number of connections opening, leased or idle, and never *)
(* exceeds maxConnections.                                                  *)
THEOREM OpenedAccountingAlways == Spec => []OpenedAccounting
<1>1. IndInv => OpenedAccounting
  BY DEF IndInv
<1> QED  BY <1>1, IndInvAlways, PTL

(* No connection is idle while a call waits for one. *)
THEOREM NoIdleWhileWaitingAlways == Spec => []NoIdleWhileWaiting
<1>1. IndInv => NoIdleWhileWaiting
  BY DEF IndInv, QueueInv
<1> QED  BY <1>1, IndInvAlways, PTL

(* The leases of one generation see at most maxConnections connections, so  *)
(* what is cached per generation never outlives a replaced connection.      *)
THEOREM GenerationBoundAlways == Spec => []GenerationBound
<1>1. IndInv => GenerationBound
  <2> SUFFICES ASSUME IndInv, NEW g \in 0..generation
               PROVE  Cardinality(LeasedIn(g)) <= MaxConnections
    BY DEF GenerationBound, LeasedIn
  <2> USE DEF IndInv
  <2>1. generation \in Nat
    BY DEF Core, TypeInv
  <2>2. CASE g = generation
    <3>1. IsFiniteSet(LeasedIn(g) \cup Slots) /\ Cardinality(LeasedIn(g) \cup Slots) <= MaxConnections
      BY <2>2, LeasedInFinite DEF GenInv
    <3> QED  BY <3>1, SubsetBound
  <2>3. CASE g \in 0..(generation - 1)
    BY <2>3 DEF GenInv
  <2> QED  BY <2>1, <2>2, <2>3
<1> QED  BY <1>1, IndInvAlways, PTL
=============================================================================
