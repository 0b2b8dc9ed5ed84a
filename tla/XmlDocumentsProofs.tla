------------------------- MODULE XmlDocumentsProofs -------------------------
(***************************************************************************)
(* Theorems about XmlDocuments, for any calls, paths, cache sizes and      *)
(* faults.                                                                 *)
(*                                                                         *)
(* Everything rests on the slot: until the pool closes one call is inside  *)
(* (SlotInv), and after it nobody sends anything new, so at most one call  *)
(* has business with a worker (ActiveInv).  Then every message in either   *)
(* direction is the one the call awaits (MsgInv), the store speaks of the  *)
(* worker the pool has (WorkerInv), and a call that reloads finds what it  *)
(* parsed unless the worker went away (TriedInv).                          *)
(***************************************************************************)
EXTENDS XmlDocuments, QueuesProofs, FiniteSetTheorems

Active == {"boot", "asking", "orphan", "unborn", "killing"}
StampOf(c) == [path |-> path[c], version |-> asked[c]]

SlotInv ==
  /\ \A c \in Call : pc[c] = "wait" <=> c \in ToSet(waiting)
  /\ IsInjective(waiting)
  /\ \A c \in Call : pc[c] \in {"new", "wait"} => mode[c] = "idle"
  /\ closed => waiting = <<>>
  /\ ~closed => /\ \A c, d \in Inside : c = d
                /\ busy <=> Inside # {}
                /\ ~busy => waiting = <<>>

ActiveInv ==
  /\ \A c, d \in Call : mode[c] \in Active /\ mode[d] \in Active => c = d
  /\ \A c \in Call :
       /\ mode[c] \in Active => pc[c] \in {"parse", "ask"}
       /\ pc[c] \in {"parse", "ask"} => mode[c] # "idle"
       /\ mode[c] = "boot" => pc[c] = "parse"
       /\ mode[c] = "asking" => wstate # "none"

WorkerInv == StoreCurrent /\ (wstate = "none" => inbox = <<>> /\ outbox = <<>>)

(* Whose message waits in either direction; nobody has two. *)
Awaited(m) == /\ m.by \in Call => mode[m.by] = "asking" /\ m.kind = pc[m.by]
              /\ m.by = Closer => closed
RequestOf(m) == Awaited(m) /\ (m.by \in Call => m.stamp = StampOf(m.by))
AnswerTo(m) == Awaited(m) /\ (m.result = "unknown_residency" => m.kind = "ask")

Apart(a, b) ==
  /\ \A i, k \in DOMAIN a : a[i].by = a[k].by => i = k
  /\ \A i, k \in DOMAIN b : b[i].by = b[k].by => i = k
  /\ \A m \in ToSet(a), n \in ToSet(b) : m.by # n.by

MsgInv ==
  /\ \A m \in ToSet(inbox) : RequestOf(m)
  /\ \A m \in ToSet(outbox) : AnswerTo(m)
  /\ Apart(inbox, outbox)

(* A call that reloads while the worker it lost the document in lives on. *)
Same(c) == pc[c] # "new" /\ tried[c] /\ ~closed /\ generation = startGen[c]

TriedInv ==
  /\ \A c \in Call : generation >= startGen[c] /\ (pc[c] = "wait" => ~tried[c])
  /\ \A c \in Call : Same(c) =>
       /\ pc[c] = "load" => store = <<>>
       /\ \A m \in ToSet(inbox) :
            m.by = c /\ m.kind = "ask" => StampOf(c) \in ToSet(docs)
       /\ \A m \in ToSet(outbox) : m.by = c =>
            /\ m.kind = "ask" => m.result # "unknown_residency"
            /\ m.kind = "parse" /\ m.result = "ok" => StampOf(c) \in ToSet(docs)

-----------------------------------------------------------------------------
(* The caches: what was used last is there, and nothing else is new. *)
LEMMA LatestShape ==
  ASSUME NEW T, NEW s \in Seq(T), NEW e \in T, NEW n \in Nat \ {0}
  PROVE  /\ Latest(s, e, n) \in Seq(T) /\ Len(Latest(s, e, n)) <= n
         /\ e \in ToSet(Latest(s, e, n))
         /\ ToSet(Latest(s, e, n)) \subseteq ToSet(s) \cup {e}
<1> DEFINE q == Others(s, e.path)  t == Append(q, e)
<1>1. q \in Seq(T) /\ ToSet(q) \subseteq ToSet(s)
  BY WithoutProperties DEF Others
<1> HIDE DEF q
<1>2. t \in Seq(T) /\ ToSet(t) = ToSet(q) \cup {e}
  BY <1>1, JoinLast
<1>3. Len(t) \in Nat \ {0} /\ t[Len(t)] = e /\ DOMAIN t = 1 .. Len(t)
  BY <1>1
<1> HIDE DEF t
<1>4. Latest(s, e, n) = CutTo(t, n)
  BY DEF Latest, q, t
<1>5. CASE Len(t) <= n
  <2>1. CutTo(t, n) = t
    BY <1>3, <1>5 DEF CutTo
  <2> QED
    BY <1>1, <1>2, <1>4, <1>5, <2>1
<1>6. CASE Len(t) > n
  <2> DEFINE m == Len(t) - n  r == SubSeq(t, m + 1, Len(t))
  <2>1. CutTo(t, n) = r
    BY <1>6 DEF CutTo
  <2>2. /\ r \in Seq(T) /\ Len(r) = n /\ m \in Nat
        /\ \A i \in 1 .. n : r[i] = t[m + i] /\ m + i \in 1 .. Len(t)
    BY <1>2, <1>3, <1>6
  <2> HIDE DEF r, m
  <2>3. DOMAIN r = 1 .. n
    BY <2>2
  <2>4. r[n] = e
    BY <1>3, <2>2 DEF m
  <2>5. e \in ToSet(r)
    BY <2>3, <2>4 DEF ToSet
  <2>6. ToSet(r) \subseteq ToSet(t)
    BY <1>3, <2>2, <2>3 DEF ToSet
  <2> QED
    BY <1>1, <1>2, <1>4, <2>1, <2>2, <2>5, <2>6
<1> QED
  BY <1>3, <1>5, <1>6

-----------------------------------------------------------------------------
(* The types, in parts that different actions disturb. *)
CallTypes ==
  /\ pc \in [Call -> {"new", "wait", "load", "parse", "ask"}]
  /\ mode \in [Call -> {"idle", "boot", "asking", "orphan", "unborn", "killing", "over"}]
  /\ outcome \in [Call -> {"none", "ok", "failed", "resource_limit", "lost_twice", "mismatch"}]
NameTypes ==
  /\ path \in [Call -> Path \cup {NoPath}]
  /\ loaded \in [Call -> Version] /\ asked \in [Call -> Version]
FlagTypes ==
  /\ tried \in [Call -> BOOLEAN] /\ aborted \in [Call -> BOOLEAN]
  /\ startGen \in [Call -> Nat] /\ generation \in Nat
PoolTypes ==
  /\ busy \in BOOLEAN /\ closed \in BOOLEAN
  /\ waiting \in Seq(Call) /\ Len(waiting) <= QueueDepth
  /\ wstate \in {"none", "booting", "up"}
  /\ closing \in {"open", "draining", "closed"}
  /\ release \in {"none", "pending", "settled"}
Request == [by : Call \cup {Closer}, kind : Kind, stamp : Stamp]
Answered == [by : Call \cup {Closer}, kind : Kind, result : Result]
BoxTypes == inbox \in Seq(Request) /\ outbox \in Seq(Answered)
CacheTypes ==
  /\ docs \in Seq(Stamp) /\ Len(docs) <= WorkerCapacity
  /\ store \in Seq(Entry) /\ Len(store) <= StoreSize
FileTypes == version \in [Path -> Version] /\ faults \in 0 .. MaxFaults

LEMMA TypeParts ==
  TypeOK <=> /\ CallTypes /\ NameTypes /\ FlagTypes /\ PoolTypes
             /\ BoxTypes /\ CacheTypes /\ FileTypes
BY DEF TypeOK, CallTypes, NameTypes, FlagTypes, PoolTypes, BoxTypes, CacheTypes, FileTypes,
   Request, Answered

(* What a call has when a reply reaches it, and what it makes of it. *)
LEMMA ReplyEffect ==
  ASSUME BoxTypes, NEW c \in Call, Reply(c)
  PROVE  /\ outbox # <<>> /\ mode[c] = "asking" /\ Head(outbox).by = c /\ outbox' = Tail(outbox)
         /\ UNCHANGED <<busy, waiting, closed, closing, release, generation, version, faults>>
         /\ UNCHANGED <<wstate, docs, path, loaded, asked, aborted, startGen>>
         /\ \/ Head(outbox).kind # pc[c] /\ Settled(c, "mismatch")
            \/ Head(outbox).kind = pc[c] /\ Head(outbox).result # "unknown_residency"
               /\ \E o \in {"ok", "failed"} : Settled(c, o)
            \/ Head(outbox).kind = pc[c] /\ Head(outbox).result = "unknown_residency" /\ Retry(c)
            \/ Head(outbox).kind = pc[c] /\ Head(outbox).result = "ok" /\ pc[c] = "parse" /\ Parsed(c)
<1> DEFINE m == Head(outbox)
<1>1. outbox # <<>> /\ mode[c] = "asking" /\ m.by = c
  BY DEF Reply, Accepts
<1>2. m.result \in {"ok", "failed", "unknown_residency"}
  <2>1. m \in Answered
    BY <1>1 DEF BoxTypes
  <2> QED
    BY <2>1 DEF Answered, Result
<1>3. \/ m.kind # pc[c] /\ Settled(c, "mismatch")
      \/ m.kind = pc[c] /\ m.result # "unknown_residency" /\ \E o \in {"ok", "failed"} : Settled(c, o)
      \/ m.kind = pc[c] /\ m.result = "unknown_residency" /\ Retry(c)
      \/ m.kind = pc[c] /\ m.result = "ok" /\ pc[c] = "parse" /\ Parsed(c)
  <2>1. CASE m.kind # pc[c]
    BY <2>1 DEF Reply
  <2>2. CASE m.kind = pc[c] /\ m.result = "failed"
    BY <2>2 DEF Reply
  <2>3. CASE m.kind = pc[c] /\ m.result = "unknown_residency"
    BY <2>3 DEF Reply
  <2>4. CASE m.kind = pc[c] /\ m.result = "ok" /\ pc[c] = "parse"
    BY <2>4 DEF Reply
  <2>5. CASE m.kind = pc[c] /\ m.result = "ok" /\ pc[c] # "parse"
    BY <2>5 DEF Reply
  <2> QED
    BY <1>2, <2>1, <2>2, <2>3, <2>4, <2>5
<1>4. outbox' = Tail(outbox) /\ UNCHANGED <<wstate, docs, path, loaded, asked, aborted, startGen>>
  BY <1>3 DEF Settled, Parsed, Retry, callVars
<1> QED
  BY <1>1, <1>3, <1>4 DEF Reply, slotVars, closeVars

(* A call that knows its document names one. *)
NameInv == \A c \in Call : pc[c] \in {"parse", "ask"} \/ tried[c] => path[c] \in Path

(* Where a call stands and what it returned. *)
LEMMA CallTypesStep ==
  ASSUME PoolTypes, BoxTypes, CallTypes, [Next]_vars
  PROVE  CallTypes'
<1>1. ASSUME UNCHANGED vars PROVE CallTypes'
  BY <1>1 DEF vars, callVars, slotVars, workerVars, closeVars, CallTypes
<1>2. ASSUME Stopped PROVE CallTypes'
  BY <1>2 DEF Stopped, vars, callVars, slotVars, workerVars, closeVars,
     CallTypes
<1>3. ASSUME NEW c \in Call, SlotsRefused(c) PROVE CallTypes'
  BY <1>3 DEF SlotsRefused, Set, callVars, slotVars, workerVars, closeVars,
     CallTypes
<1>4. ASSUME NEW c \in Call, SlotsFree(c) PROVE CallTypes'
  BY <1>4 DEF SlotsFree, Start, Set, callVars, slotVars, workerVars,
     closeVars, CallTypes
<1>5. ASSUME NEW c \in Call, SlotsWait(c) PROVE CallTypes'
  BY <1>5 DEF SlotsWait, Start, Set, callVars, slotVars, workerVars,
     closeVars, CallTypes
<1>6. ASSUME NEW c \in Call, Release(c) PROVE CallTypes'
  BY <1>6 DEF Release, Set, callVars, slotVars, workerVars, closeVars,
     CallTypes
<1>7. ASSUME NEW c \in Call, StoreLoad(c) PROVE CallTypes'
  BY <1>7 DEF StoreLoad, Send, Submit, Over, Set, callVars, slotVars,
     workerVars, closeVars, CallTypes
<1>8. ASSUME NEW c \in Call, StaleCursor(c) PROVE CallTypes'
  BY <1>8 DEF StaleCursor, Over, Set, callVars, slotVars, workerVars,
     closeVars, CallTypes
<1>9. ASSUME NEW c \in Call, Boot(c) PROVE CallTypes'
  BY <1>9 DEF Boot, Submit, Over, Set, callVars, slotVars, workerVars,
     closeVars, CallTypes
<1>10. ASSUME NEW c \in Call, Reply(c) PROVE CallTypes'
  <2>1. CASE \E o \in {"mismatch", "ok", "failed"} : Settled(c, o)
    BY <2>1 DEF Settled, Over, Set, callVars, CallTypes
  <2>2. CASE Retry(c)
    BY <2>2 DEF Retry, Over, Set, CallTypes
  <2>3. CASE Parsed(c)
    BY <2>3 DEF Parsed, Submit, Over, Set, callVars, CallTypes
  <2> QED
    BY <1>10, <2>1, <2>2, <2>3, ReplyEffect
<1>11. ASSUME NEW c \in Call, Timeout(c) PROVE CallTypes'
  BY <1>11 DEF Timeout, Abandon, Kill, LoseWorker, Orphaned, callVars,
     slotVars, workerVars, closeVars, CallTypes
<1>12. ASSUME NEW c \in Call, Terminated(c) PROVE CallTypes'
  BY <1>12 DEF Terminated, Over, Set, callVars, slotVars, workerVars,
     closeVars, CallTypes
<1>13. ASSUME NEW c \in Call, Abort(c) PROVE CallTypes'
  BY <1>13 DEF Abort, Abandon, Kill, Set, LoseWorker, Orphaned, callVars,
     slotVars, workerVars, closeVars, CallTypes
<1>14. ASSUME Handle PROVE CallTypes'
  BY <1>14 DEF Handle, callVars, slotVars, workerVars, closeVars, CallTypes
<1>15. ASSUME WorkerDies PROVE CallTypes'
  BY <1>15 DEF WorkerDies, LoseWorker, Orphaned, callVars, slotVars,
     workerVars, closeVars, CallTypes
<1>16. ASSUME Close PROVE CallTypes'
  BY <1>16 DEF Close, ReleaseRequest, callVars, slotVars, workerVars,
     closeVars, CallTypes
<1>17. ASSUME ReleaseReply PROVE CallTypes'
  BY <1>17 DEF ReleaseReply, callVars, slotVars, workerVars, closeVars,
     CallTypes
<1>18. ASSUME CloseKill PROVE CallTypes'
  BY <1>18 DEF CloseKill, LoseWorker, Orphaned, callVars, slotVars,
     workerVars, closeVars, CallTypes
<1>19. ASSUME ReleaseTimeout PROVE CallTypes'
  BY <1>19 DEF ReleaseTimeout, Kill, LoseWorker, Orphaned, callVars, slotVars,
     workerVars, closeVars, CallTypes
<1>20. ASSUME NEW p \in Path, Edit(p) PROVE CallTypes'
  BY <1>20 DEF Edit, callVars, slotVars, workerVars, closeVars, CallTypes
<1> QED
  BY <1>1, <1>2, <1>3, <1>4, <1>5, <1>6, <1>7, <1>8, <1>9, <1>10, <1>11,
     <1>12, <1>13, <1>14, <1>15, <1>16, <1>17, <1>18, <1>19, <1>20 DEF Next,
     CallStep

(* What a call names. *)
LEMMA NameTypesStep ==
  ASSUME BoxTypes, FileTypes, NameInv, NameTypes, [Next]_vars
  PROVE  NameTypes'
<1>1. ASSUME UNCHANGED vars PROVE NameTypes'
  BY <1>1 DEF vars, callVars, slotVars, workerVars, closeVars, NameTypes,
     FileTypes
<1>2. ASSUME Stopped PROVE NameTypes'
  BY <1>2 DEF Stopped, vars, callVars, slotVars, workerVars, closeVars,
     NameTypes, FileTypes
<1>3. ASSUME NEW c \in Call, SlotsRefused(c) PROVE NameTypes'
  BY <1>3 DEF SlotsRefused, Set, callVars, slotVars, workerVars, closeVars,
     NameTypes, FileTypes
<1>4. ASSUME NEW c \in Call, SlotsFree(c) PROVE NameTypes'
  BY <1>4 DEF SlotsFree, Start, Set, callVars, slotVars, workerVars,
     closeVars, NameTypes, FileTypes
<1>5. ASSUME NEW c \in Call, SlotsWait(c) PROVE NameTypes'
  BY <1>5 DEF SlotsWait, Start, Set, callVars, slotVars, workerVars,
     closeVars, NameTypes, FileTypes
<1>6. ASSUME NEW c \in Call, Release(c) PROVE NameTypes'
  BY <1>6 DEF Release, Set, callVars, slotVars, workerVars, closeVars,
     NameTypes, FileTypes
<1>7. ASSUME NEW c \in Call, StoreLoad(c) PROVE NameTypes'
  <2>1. PICK p \in IF tried[c] THEN {path[c]} ELSE Path :
          /\ path' = Set(path, c, p)
          /\ loaded' = IF tried[c] THEN loaded ELSE Set(loaded, c, version[p])
          /\ asked' = Set(asked, c, version[p])
    BY <1>7 DEF StoreLoad, Send
  <2>2. p \in Path /\ version[p] \in Version
    BY <2>1 DEF NameInv, FileTypes
  <2> QED
    BY <2>1, <2>2 DEF NameTypes, Set
<1>8. ASSUME NEW c \in Call, StaleCursor(c) PROVE NameTypes'
  <2>1. PICK p \in Path : path' = Set(path, c, p) /\ loaded' = Set(loaded, c, version[p])
    BY <1>8 DEF StaleCursor
  <2>2. asked' = asked /\ version[p] \in Version
    BY <1>8 DEF StaleCursor, FileTypes
  <2> QED
    BY <2>1, <2>2 DEF NameTypes, Set
<1>9. ASSUME NEW c \in Call, Boot(c) PROVE NameTypes'
  BY <1>9 DEF Boot, Submit, Over, Set, callVars, slotVars, workerVars,
     closeVars, NameTypes, FileTypes
<1>10. ASSUME NEW c \in Call, Reply(c) PROVE NameTypes'
  BY <1>10, ReplyEffect DEF NameTypes
<1>11. ASSUME NEW c \in Call, Timeout(c) PROVE NameTypes'
  BY <1>11 DEF Timeout, Abandon, Kill, LoseWorker, Orphaned, callVars,
     slotVars, workerVars, closeVars, NameTypes, FileTypes
<1>12. ASSUME NEW c \in Call, Terminated(c) PROVE NameTypes'
  BY <1>12 DEF Terminated, Over, Set, callVars, slotVars, workerVars,
     closeVars, NameTypes, FileTypes
<1>13. ASSUME NEW c \in Call, Abort(c) PROVE NameTypes'
  BY <1>13 DEF Abort, Abandon, Kill, Set, LoseWorker, Orphaned, callVars,
     slotVars, workerVars, closeVars, NameTypes, FileTypes
<1>14. ASSUME Handle PROVE NameTypes'
  BY <1>14 DEF Handle, callVars, slotVars, workerVars, closeVars, NameTypes,
     FileTypes
<1>15. ASSUME WorkerDies PROVE NameTypes'
  BY <1>15 DEF WorkerDies, LoseWorker, Orphaned, callVars, slotVars,
     workerVars, closeVars, NameTypes, FileTypes
<1>16. ASSUME Close PROVE NameTypes'
  BY <1>16 DEF Close, ReleaseRequest, callVars, slotVars, workerVars,
     closeVars, NameTypes, FileTypes
<1>17. ASSUME ReleaseReply PROVE NameTypes'
  BY <1>17 DEF ReleaseReply, callVars, slotVars, workerVars, closeVars,
     NameTypes, FileTypes
<1>18. ASSUME CloseKill PROVE NameTypes'
  BY <1>18 DEF CloseKill, LoseWorker, Orphaned, callVars, slotVars,
     workerVars, closeVars, NameTypes, FileTypes
<1>19. ASSUME ReleaseTimeout PROVE NameTypes'
  BY <1>19 DEF ReleaseTimeout, Kill, LoseWorker, Orphaned, callVars, slotVars,
     workerVars, closeVars, NameTypes, FileTypes
<1>20. ASSUME NEW p \in Path, Edit(p) PROVE NameTypes'
  BY <1>20 DEF Edit, callVars, slotVars, workerVars, closeVars, NameTypes,
     FileTypes
<1> QED
  BY <1>1, <1>2, <1>3, <1>4, <1>5, <1>6, <1>7, <1>8, <1>9, <1>10, <1>11,
     <1>12, <1>13, <1>14, <1>15, <1>16, <1>17, <1>18, <1>19, <1>20 DEF Next,
     CallStep

(* What a call remembers. *)
LEMMA FlagTypesStep ==
  ASSUME BoxTypes, FlagTypes, [Next]_vars
  PROVE  FlagTypes'
<1>1. ASSUME UNCHANGED vars PROVE FlagTypes'
  BY <1>1 DEF vars, callVars, slotVars, workerVars, closeVars, FlagTypes
<1>2. ASSUME Stopped PROVE FlagTypes'
  BY <1>2 DEF Stopped, vars, callVars, slotVars, workerVars, closeVars,
     FlagTypes
<1>3. ASSUME NEW c \in Call, SlotsRefused(c) PROVE FlagTypes'
  BY <1>3 DEF SlotsRefused, Set, callVars, slotVars, workerVars, closeVars,
     FlagTypes
<1>4. ASSUME NEW c \in Call, SlotsFree(c) PROVE FlagTypes'
  BY <1>4 DEF SlotsFree, Start, Set, callVars, slotVars, workerVars,
     closeVars, FlagTypes
<1>5. ASSUME NEW c \in Call, SlotsWait(c) PROVE FlagTypes'
  BY <1>5 DEF SlotsWait, Start, Set, callVars, slotVars, workerVars,
     closeVars, FlagTypes
<1>6. ASSUME NEW c \in Call, Release(c) PROVE FlagTypes'
  BY <1>6 DEF Release, Set, callVars, slotVars, workerVars, closeVars,
     FlagTypes
<1>7. ASSUME NEW c \in Call, StoreLoad(c) PROVE FlagTypes'
  BY <1>7 DEF StoreLoad, Send, Submit, Over, Set, callVars, slotVars,
     workerVars, closeVars, FlagTypes
<1>8. ASSUME NEW c \in Call, StaleCursor(c) PROVE FlagTypes'
  BY <1>8 DEF StaleCursor, Over, Set, callVars, slotVars, workerVars,
     closeVars, FlagTypes
<1>9. ASSUME NEW c \in Call, Boot(c) PROVE FlagTypes'
  BY <1>9 DEF Boot, Submit, Over, Set, callVars, slotVars, workerVars,
     closeVars, FlagTypes
<1>10. ASSUME NEW c \in Call, Reply(c) PROVE FlagTypes'
  <2>1. tried' = tried \/ tried' = Set(tried, c, TRUE)
    BY <1>10, ReplyEffect DEF Settled, Retry, Parsed, callVars
  <2> QED
    BY <1>10, <2>1, ReplyEffect DEF FlagTypes, Set
<1>11. ASSUME NEW c \in Call, Timeout(c) PROVE FlagTypes'
  BY <1>11 DEF Timeout, Abandon, Kill, LoseWorker, Orphaned, callVars,
     slotVars, workerVars, closeVars, FlagTypes
<1>12. ASSUME NEW c \in Call, Terminated(c) PROVE FlagTypes'
  BY <1>12 DEF Terminated, Over, Set, callVars, slotVars, workerVars,
     closeVars, FlagTypes
<1>13. ASSUME NEW c \in Call, Abort(c) PROVE FlagTypes'
  BY <1>13 DEF Abort, Abandon, Kill, Set, LoseWorker, Orphaned, callVars,
     slotVars, workerVars, closeVars, FlagTypes
<1>14. ASSUME Handle PROVE FlagTypes'
  BY <1>14 DEF Handle, callVars, slotVars, workerVars, closeVars, FlagTypes
<1>15. ASSUME WorkerDies PROVE FlagTypes'
  BY <1>15 DEF WorkerDies, LoseWorker, Orphaned, callVars, slotVars,
     workerVars, closeVars, FlagTypes
<1>16. ASSUME Close PROVE FlagTypes'
  BY <1>16 DEF Close, ReleaseRequest, callVars, slotVars, workerVars,
     closeVars, FlagTypes
<1>17. ASSUME ReleaseReply PROVE FlagTypes'
  BY <1>17 DEF ReleaseReply, callVars, slotVars, workerVars, closeVars,
     FlagTypes
<1>18. ASSUME CloseKill PROVE FlagTypes'
  BY <1>18 DEF CloseKill, LoseWorker, Orphaned, callVars, slotVars,
     workerVars, closeVars, FlagTypes
<1>19. ASSUME ReleaseTimeout PROVE FlagTypes'
  BY <1>19 DEF ReleaseTimeout, Kill, LoseWorker, Orphaned, callVars, slotVars,
     workerVars, closeVars, FlagTypes
<1>20. ASSUME NEW p \in Path, Edit(p) PROVE FlagTypes'
  BY <1>20 DEF Edit, callVars, slotVars, workerVars, closeVars, FlagTypes
<1> QED
  BY <1>1, <1>2, <1>3, <1>4, <1>5, <1>6, <1>7, <1>8, <1>9, <1>10, <1>11,
     <1>12, <1>13, <1>14, <1>15, <1>16, <1>17, <1>18, <1>19, <1>20 DEF Next,
     CallStep

(* The pool's own state. *)
LEMMA PoolTypesStep ==
  ASSUME BoxTypes, PoolTypes, [Next]_vars
  PROVE  PoolTypes'
<1>1. ASSUME UNCHANGED vars PROVE PoolTypes'
  BY <1>1 DEF vars, callVars, slotVars, workerVars, closeVars, PoolTypes
<1>2. ASSUME Stopped PROVE PoolTypes'
  BY <1>2 DEF Stopped, vars, callVars, slotVars, workerVars, closeVars,
     PoolTypes
<1>3. ASSUME NEW c \in Call, SlotsRefused(c) PROVE PoolTypes'
  BY <1>3 DEF SlotsRefused, Set, callVars, slotVars, workerVars, closeVars,
     PoolTypes
<1>4. ASSUME NEW c \in Call, SlotsFree(c) PROVE PoolTypes'
  BY <1>4 DEF SlotsFree, Start, Set, callVars, slotVars, workerVars,
     closeVars, PoolTypes
<1>5. ASSUME NEW c \in Call, SlotsWait(c) PROVE PoolTypes'
  <2>1. waiting' \in Seq(Call) /\ Len(waiting') <= QueueDepth
    BY <1>5, SizeAssumption DEF SlotsWait, PoolTypes
  <2> QED
    BY <1>5, <2>1 DEF SlotsWait, closeVars, workerVars, PoolTypes
<1>6. ASSUME NEW c \in Call, Release(c) PROVE PoolTypes'
  <2>1. waiting' \in Seq(Call) /\ Len(waiting') <= QueueDepth
    <3>1. CASE waiting = <<>>
      BY <1>6, <3>1 DEF Release, PoolTypes
    <3>2. CASE waiting # <<>>
      BY <1>6, <3>2, LeaveFirst, SizeAssumption DEF Release, PoolTypes
    <3> QED
      BY <3>1, <3>2
  <2> QED
    BY <1>6, <2>1 DEF Release, closeVars, workerVars, PoolTypes
<1>7. ASSUME NEW c \in Call, StoreLoad(c) PROVE PoolTypes'
  BY <1>7 DEF StoreLoad, Send, Submit, Over, Set, callVars, slotVars,
     workerVars, closeVars, PoolTypes
<1>8. ASSUME NEW c \in Call, StaleCursor(c) PROVE PoolTypes'
  BY <1>8 DEF StaleCursor, Over, Set, callVars, slotVars, workerVars,
     closeVars, PoolTypes
<1>9. ASSUME NEW c \in Call, Boot(c) PROVE PoolTypes'
  BY <1>9 DEF Boot, Submit, Over, Set, callVars, slotVars, workerVars,
     closeVars, PoolTypes
<1>10. ASSUME NEW c \in Call, Reply(c) PROVE PoolTypes'
  BY <1>10, ReplyEffect DEF PoolTypes
<1>11. ASSUME NEW c \in Call, Timeout(c) PROVE PoolTypes'
  BY <1>11 DEF Timeout, Abandon, Kill, LoseWorker, Orphaned, callVars,
     slotVars, workerVars, closeVars, PoolTypes
<1>12. ASSUME NEW c \in Call, Terminated(c) PROVE PoolTypes'
  BY <1>12 DEF Terminated, Over, Set, callVars, slotVars, workerVars,
     closeVars, PoolTypes
<1>13. ASSUME NEW c \in Call, Abort(c) PROVE PoolTypes'
  BY <1>13 DEF Abort, Abandon, Kill, Set, LoseWorker, Orphaned, callVars,
     slotVars, workerVars, closeVars, PoolTypes
<1>14. ASSUME Handle PROVE PoolTypes'
  BY <1>14 DEF Handle, callVars, slotVars, workerVars, closeVars, PoolTypes
<1>15. ASSUME WorkerDies PROVE PoolTypes'
  BY <1>15 DEF WorkerDies, LoseWorker, Orphaned, callVars, slotVars,
     workerVars, closeVars, PoolTypes
<1>16. ASSUME Close PROVE PoolTypes'
  <2>1. waiting' \in Seq(Call) /\ Len(waiting') <= QueueDepth
    BY <1>16, SizeAssumption DEF Close
  <2> QED
    BY <1>16, <2>1 DEF Close, PoolTypes
<1>17. ASSUME ReleaseReply PROVE PoolTypes'
  BY <1>17 DEF ReleaseReply, callVars, slotVars, workerVars, closeVars,
     PoolTypes
<1>18. ASSUME CloseKill PROVE PoolTypes'
  BY <1>18 DEF CloseKill, LoseWorker, Orphaned, callVars, slotVars,
     workerVars, closeVars, PoolTypes
<1>19. ASSUME ReleaseTimeout PROVE PoolTypes'
  BY <1>19 DEF ReleaseTimeout, Kill, LoseWorker, Orphaned, callVars, slotVars,
     workerVars, closeVars, PoolTypes
<1>20. ASSUME NEW p \in Path, Edit(p) PROVE PoolTypes'
  BY <1>20 DEF Edit, callVars, slotVars, workerVars, closeVars, PoolTypes
<1> QED
  BY <1>1, <1>2, <1>3, <1>4, <1>5, <1>6, <1>7, <1>8, <1>9, <1>10, <1>11,
     <1>12, <1>13, <1>14, <1>15, <1>16, <1>17, <1>18, <1>19, <1>20 DEF Next,
     CallStep

(* The files. *)
LEMMA FileTypesStep ==
  ASSUME BoxTypes, FileTypes, [Next]_vars
  PROVE  FileTypes'
<1>1. ASSUME UNCHANGED vars PROVE FileTypes'
  BY <1>1 DEF vars, callVars, slotVars, workerVars, closeVars, FileTypes,
     Version
<1>2. ASSUME Stopped PROVE FileTypes'
  BY <1>2 DEF Stopped, vars, callVars, slotVars, workerVars, closeVars,
     FileTypes, Version
<1>3. ASSUME NEW c \in Call, SlotsRefused(c) PROVE FileTypes'
  BY <1>3 DEF SlotsRefused, Set, callVars, slotVars, workerVars, closeVars,
     FileTypes, Version
<1>4. ASSUME NEW c \in Call, SlotsFree(c) PROVE FileTypes'
  BY <1>4 DEF SlotsFree, Start, Set, callVars, slotVars, workerVars,
     closeVars, FileTypes, Version
<1>5. ASSUME NEW c \in Call, SlotsWait(c) PROVE FileTypes'
  BY <1>5 DEF SlotsWait, Start, Set, callVars, slotVars, workerVars,
     closeVars, FileTypes, Version
<1>6. ASSUME NEW c \in Call, Release(c) PROVE FileTypes'
  BY <1>6 DEF Release, Set, callVars, slotVars, workerVars, closeVars,
     FileTypes, Version
<1>7. ASSUME NEW c \in Call, StoreLoad(c) PROVE FileTypes'
  BY <1>7 DEF StoreLoad, Send, Submit, Over, Set, callVars, slotVars,
     workerVars, closeVars, FileTypes, Version
<1>8. ASSUME NEW c \in Call, StaleCursor(c) PROVE FileTypes'
  BY <1>8 DEF StaleCursor, Over, Set, callVars, slotVars, workerVars,
     closeVars, FileTypes, Version
<1>9. ASSUME NEW c \in Call, Boot(c) PROVE FileTypes'
  BY <1>9 DEF Boot, Submit, Over, Set, callVars, slotVars, workerVars,
     closeVars, FileTypes, Version
<1>10. ASSUME NEW c \in Call, Reply(c) PROVE FileTypes'
  BY <1>10, ReplyEffect DEF FileTypes
<1>11. ASSUME NEW c \in Call, Timeout(c) PROVE FileTypes'
  BY <1>11, BoundAssumption DEF Timeout, Abandon, Kill, LoseWorker, Orphaned,
     callVars, slotVars, workerVars, closeVars, FileTypes, Version
<1>12. ASSUME NEW c \in Call, Terminated(c) PROVE FileTypes'
  BY <1>12 DEF Terminated, Over, Set, callVars, slotVars, workerVars,
     closeVars, FileTypes, Version
<1>13. ASSUME NEW c \in Call, Abort(c) PROVE FileTypes'
  BY <1>13, BoundAssumption DEF Abort, Abandon, Kill, Set, LoseWorker,
     Orphaned, callVars, slotVars, workerVars, closeVars, FileTypes, Version
<1>14. ASSUME Handle PROVE FileTypes'
  BY <1>14 DEF Handle, callVars, slotVars, workerVars, closeVars, FileTypes,
     Version
<1>15. ASSUME WorkerDies PROVE FileTypes'
  BY <1>15, BoundAssumption DEF WorkerDies, LoseWorker, Orphaned, callVars,
     slotVars, workerVars, closeVars, FileTypes, Version
<1>16. ASSUME Close PROVE FileTypes'
  BY <1>16 DEF Close, ReleaseRequest, callVars, slotVars, workerVars,
     closeVars, FileTypes, Version
<1>17. ASSUME ReleaseReply PROVE FileTypes'
  BY <1>17 DEF ReleaseReply, callVars, slotVars, workerVars, closeVars,
     FileTypes, Version
<1>18. ASSUME CloseKill PROVE FileTypes'
  BY <1>18 DEF CloseKill, LoseWorker, Orphaned, callVars, slotVars,
     workerVars, closeVars, FileTypes, Version
<1>19. ASSUME ReleaseTimeout PROVE FileTypes'
  BY <1>19 DEF ReleaseTimeout, Kill, LoseWorker, Orphaned, callVars, slotVars,
     workerVars, closeVars, FileTypes, Version
<1>20. ASSUME NEW p \in Path, Edit(p) PROVE FileTypes'
  BY <1>20, BoundAssumption DEF Edit, callVars, slotVars, workerVars,
     closeVars, FileTypes, Version
<1> QED
  BY <1>1, <1>2, <1>3, <1>4, <1>5, <1>6, <1>7, <1>8, <1>9, <1>10, <1>11,
     <1>12, <1>13, <1>14, <1>15, <1>16, <1>17, <1>18, <1>19, <1>20 DEF Next,
     CallStep

-----------------------------------------------------------------------------
(* The worker takes the first request and answers it. *)
LEMMA HandleEffect ==
  ASSUME BoxTypes, Handle
  PROVE  /\ wstate = "up" /\ inbox # <<>> /\ inbox' = Tail(inbox)
         /\ UNCHANGED <<pc, mode, path, loaded, asked, tried, aborted, startGen, outcome>>
         /\ UNCHANGED <<busy, waiting, closed, closing, release, generation, wstate, store>>
         /\ \E r \in Result :
              /\ outbox' = Append(outbox, [by |-> Head(inbox).by, kind |-> Head(inbox).kind, result |-> r])
              /\ \/ docs' = docs /\ Head(inbox).kind = "parse" /\ r = "failed"
                 \/ docs' = docs /\ Head(inbox).kind = "ask" /\ r = "unknown_residency"
                    /\ Head(inbox).stamp \notin ToSet(docs)
                 \/ docs' = Adopt(Head(inbox).stamp) /\ Head(inbox).kind \in {"parse", "ask"}
                    /\ r \in {"ok", "failed"}
                 \/ docs' = <<>> /\ Head(inbox).kind = "release" /\ r = "ok"
<1> DEFINE m == Head(inbox)
           Says(r) == outbox' = Append(outbox, [by |-> m.by, kind |-> m.kind, result |-> r])
<1>1. wstate = "up" /\ inbox # <<>> /\ inbox' = Tail(inbox)
  BY DEF Handle
<1>2. m.kind \in {"parse", "ask", "release"}
  <2>1. m \in Request
    BY <1>1 DEF BoxTypes
  <2> QED
    BY <2>1 DEF Request, Kind
<1>3. \E r \in {"ok", "failed", "unknown_residency"} :
        /\ Says(r)
        /\ \/ docs' = docs /\ m.kind = "parse" /\ r = "failed"
           \/ docs' = docs /\ m.kind = "ask" /\ r = "unknown_residency" /\ m.stamp \notin ToSet(docs)
           \/ docs' = Adopt(m.stamp) /\ m.kind \in {"parse", "ask"} /\ r \in {"ok", "failed"}
           \/ docs' = <<>> /\ m.kind = "release" /\ r = "ok"
  <2>1. CASE m.kind = "parse"
    BY <2>1 DEF Handle
  <2>2. CASE m.kind = "ask"
    BY <2>2 DEF Handle
  <2>3. CASE m.kind = "release"
    BY <2>3 DEF Handle
  <2> QED
    BY <1>2, <2>1, <2>2, <2>3
<1> QED
  BY <1>1, <1>3 DEF Handle, Result, callVars, slotVars, closeVars

(* What a step that may post a request does to the messages. *)
Post(c, k, t) == inbox' = Append(inbox, [by |-> c, kind |-> k, stamp |-> t])

LEMMA StoreLoadEffect ==
  ASSUME NEW c \in Call, StoreLoad(c), NameInv, FileTypes
  PROVE  /\ pc[c] = "load" /\ mode[c] = "idle" /\ outbox' = outbox
         /\ UNCHANGED <<tried, aborted, startGen, busy, waiting, closed, closing, release, generation>>
         /\ \E p \in Path, k \in {"parse", "ask"}, v \in Version :
              /\ path' = Set(path, c, p) /\ asked' = Set(asked, c, v) /\ pc' = Set(pc, c, k)
              /\ k = "ask" => store # <<>>
              /\ \/ k = "parse" /\ store' = store
                 \/ \E i \in DOMAIN store : store' = Latest(store, store[i], StoreSize)
              /\ \/ mode' = Set(mode, c, "over") /\ outcome' = Set(outcome, c, "resource_limit")
                    /\ UNCHANGED <<inbox, wstate, docs>>
                 \/ ~closed /\ wstate = "none" /\ mode' = Set(mode, c, "boot") /\ wstate' = "booting"
                    /\ docs' = <<>> /\ UNCHANGED <<inbox, outcome>>
                 \/ ~closed /\ wstate # "none" /\ mode' = Set(mode, c, "asking")
                    /\ Post(c, k, [path |-> p, version |-> v]) /\ UNCHANGED <<wstate, docs, outcome>>
<1>1. PICK p \in IF tried[c] THEN {path[c]} ELSE Path :
        LET t == [path |-> p, version |-> version[p]]
            hits == {i \in DOMAIN store : store[i].path = p /\ store[i].version = t.version}
        IN /\ path' = Set(path, c, p)
           /\ IF hits = {}
                THEN store' = store /\ Send(c, "parse", t)
                ELSE /\ store' = Latest(store, store[CHOOSE i \in hits : TRUE], StoreSize)
                     /\ Send(c, "ask", t)
  BY DEF StoreLoad
<1>2. p \in Path /\ version[p] \in Version
  BY <1>1 DEF NameInv, FileTypes
<1> DEFINE t == [path |-> p, version |-> version[p]]
<1>3. \E k \in {"parse", "ask"} :
        /\ Send(c, k, t) /\ (k = "ask" => store # <<>>)
        /\ \/ k = "parse" /\ store' = store
           \/ \E i \in DOMAIN store : store' = Latest(store, store[i], StoreSize)
  <2> DEFINE hits == {i \in DOMAIN store : store[i].path = p /\ store[i].version = t.version}
  <2>1. CASE hits = {}
    BY <1>1, <2>1
  <2>2. CASE hits # {}
    <3>1. (CHOOSE i \in hits : TRUE) \in hits
      BY <2>2
    <3>2. (CHOOSE i \in hits : TRUE) \in DOMAIN store
      BY <3>1
    <3>3. store # <<>>
      BY <3>2
    <3> QED
      BY <1>1, <2>2, <3>2, <3>3
  <2> QED
    BY <2>1, <2>2
<1>4. PICK k \in {"parse", "ask"} :
        /\ Send(c, k, t) /\ (k = "ask" => store # <<>>)
        /\ \/ k = "parse" /\ store' = store
           \/ \E i \in DOMAIN store : store' = Latest(store, store[i], StoreSize)
  BY <1>3
<1>5. asked' = Set(asked, c, version[p]) /\ pc' = Set(pc, c, k) /\ outbox' = outbox
  BY <1>4 DEF Send, workerVars
<1>6. \/ mode' = Set(mode, c, "over") /\ outcome' = Set(outcome, c, "resource_limit")
         /\ UNCHANGED <<inbox, wstate, docs>>
      \/ ~closed /\ wstate = "none" /\ mode' = Set(mode, c, "boot") /\ wstate' = "booting"
         /\ docs' = <<>> /\ UNCHANGED <<inbox, outcome>>
      \/ ~closed /\ wstate # "none" /\ mode' = Set(mode, c, "asking") /\ Post(c, k, t)
         /\ UNCHANGED <<wstate, docs, outcome>>
  BY <1>4 DEF Send, Submit, Over, Post, workerVars
<1>7. /\ pc[c] = "load" /\ mode[c] = "idle"
      /\ UNCHANGED <<tried, aborted, startGen, busy, waiting, closed, closing, release, generation>>
  BY DEF StoreLoad, slotVars, closeVars
<1> QED
  BY <1>1, <1>2, <1>4, <1>5, <1>6, <1>7

(* A request is one, whoever posts it. *)
LEMMA PostTypes ==
  ASSUME BoxTypes, NEW c \in Call, NEW k \in {"parse", "ask"}, NEW p \in Path \cup {NoPath},
         NEW v \in Version, Post(c, k, [path |-> p, version |-> v])
  PROVE  inbox' \in Seq(Request)
<1>1. [path |-> p, version |-> v] \in Stamp
  BY DEF Stamp
<1>2. [by |-> c, kind |-> k, stamp |-> [path |-> p, version |-> v]] \in Request
  BY <1>1 DEF Request, Kind
<1> QED
  BY <1>2, JoinLast DEF Post, BoxTypes

(* The messages. *)
LEMMA BoxTypesStep ==
  ASSUME NameTypes, FileTypes, NameInv, ActiveInv, BoxTypes, [Next]_vars
  PROVE  BoxTypes'
<1>1. ASSUME UNCHANGED vars PROVE BoxTypes'
  BY <1>1 DEF vars, callVars, slotVars, workerVars, closeVars, BoxTypes
<1>2. ASSUME Stopped PROVE BoxTypes'
  BY <1>2 DEF Stopped, vars, callVars, slotVars, workerVars, closeVars,
     BoxTypes
<1>3. ASSUME NEW c \in Call, SlotsRefused(c) PROVE BoxTypes'
  BY <1>3 DEF SlotsRefused, Set, callVars, slotVars, workerVars, closeVars,
     BoxTypes
<1>4. ASSUME NEW c \in Call, SlotsFree(c) PROVE BoxTypes'
  BY <1>4 DEF SlotsFree, Start, Set, callVars, slotVars, workerVars,
     closeVars, BoxTypes
<1>5. ASSUME NEW c \in Call, SlotsWait(c) PROVE BoxTypes'
  BY <1>5 DEF SlotsWait, Start, Set, callVars, slotVars, workerVars,
     closeVars, BoxTypes
<1>6. ASSUME NEW c \in Call, Release(c) PROVE BoxTypes'
  BY <1>6 DEF Release, Set, callVars, slotVars, workerVars, closeVars,
     BoxTypes
<1>7. ASSUME NEW c \in Call, StoreLoad(c) PROVE BoxTypes'
  <2>1. inbox' \in Seq(Request)
    <3>1. CASE inbox' = inbox
      BY <3>1 DEF BoxTypes
    <3> QED
      BY <1>7, <3>1, StoreLoadEffect, PostTypes
  <2> QED
    BY <1>7, <2>1, StoreLoadEffect DEF BoxTypes
<1>8. ASSUME NEW c \in Call, StaleCursor(c) PROVE BoxTypes'
  BY <1>8 DEF StaleCursor, Over, Set, callVars, slotVars, workerVars,
     closeVars, BoxTypes
<1>9. ASSUME NEW c \in Call, Boot(c) PROVE BoxTypes'
  <2>0. pc[c] \in {"parse", "ask"} /\ (inbox' = inbox \/ Post(c, pc[c], StampOf(c)))
    BY <1>9 DEF Boot, Submit, Post, StampOf, ActiveInv
  <2>1. inbox' \in Seq(Request)
    BY <2>0, PostTypes DEF BoxTypes, NameTypes, StampOf
  <2> QED
    BY <1>9, <2>1 DEF Boot, BoxTypes
<1>10. ASSUME NEW c \in Call, Reply(c) PROVE BoxTypes'
  <2>1. outbox' \in Seq(Answered)
    BY <1>10, ReplyEffect, LeaveFirst DEF BoxTypes
  <2>2. inbox' = inbox \/ Post(c, "ask", StampOf(c))
    BY <1>10, ReplyEffect DEF Settled, Retry, Parsed, Submit, Post, StampOf
  <2>3. inbox' \in Seq(Request)
    BY <2>2, PostTypes DEF BoxTypes, NameTypes, StampOf
  <2> QED
    BY <2>1, <2>3 DEF BoxTypes
<1>11. ASSUME NEW c \in Call, Timeout(c) PROVE BoxTypes'
  <2>1. (inbox' = inbox /\ outbox' = outbox) \/ (inbox' = <<>> /\ outbox' = <<>>)
    BY <1>11 DEF Timeout, Abandon, Kill, LoseWorker, Orphaned, workerVars
  <2>2. <<>> \in Seq(Request) /\ <<>> \in Seq(Answered)
    OBVIOUS
  <2>3. CASE inbox' = inbox /\ outbox' = outbox
    BY <2>3 DEF BoxTypes
  <2>4. CASE inbox' = <<>> /\ outbox' = <<>>
    BY <2>2, <2>4 DEF BoxTypes
  <2> QED
    BY <2>1, <2>3, <2>4
<1>12. ASSUME NEW c \in Call, Terminated(c) PROVE BoxTypes'
  BY <1>12 DEF Terminated, Over, Set, callVars, slotVars, workerVars,
     closeVars, BoxTypes
<1>13. ASSUME NEW c \in Call, Abort(c) PROVE BoxTypes'
  <2>1. (inbox' = inbox /\ outbox' = outbox) \/ (inbox' = <<>> /\ outbox' = <<>>)
    BY <1>13 DEF Abort, Abandon, Kill, Set, LoseWorker, Orphaned, workerVars
  <2>2. <<>> \in Seq(Request) /\ <<>> \in Seq(Answered)
    OBVIOUS
  <2>3. CASE inbox' = inbox /\ outbox' = outbox
    BY <2>3 DEF BoxTypes
  <2>4. CASE inbox' = <<>> /\ outbox' = <<>>
    BY <2>2, <2>4 DEF BoxTypes
  <2> QED
    BY <2>1, <2>3, <2>4
<1>14. ASSUME Handle PROVE BoxTypes'
  <2>1. inbox' \in Seq(Request) /\ Head(inbox) \in Request
    BY <1>14, HandleEffect, LeaveFirst DEF BoxTypes
  <2>2. ASSUME NEW r \in Result
        PROVE  [by |-> Head(inbox).by, kind |-> Head(inbox).kind, result |-> r] \in Answered
    BY <2>1 DEF Request, Answered
  <2>4. PICK r \in Result :
          outbox' = Append(outbox, [by |-> Head(inbox).by, kind |-> Head(inbox).kind, result |-> r])
    BY <1>14, HandleEffect
  <2>3. outbox' \in Seq(Answered)
    BY <2>2, <2>4, JoinLast DEF BoxTypes
  <2> QED
    BY <2>1, <2>3 DEF BoxTypes
<1>15. ASSUME WorkerDies PROVE BoxTypes'
  <2>1. (inbox' = inbox /\ outbox' = outbox) \/ (inbox' = <<>> /\ outbox' = <<>>)
    BY <1>15 DEF WorkerDies, LoseWorker, Orphaned, workerVars
  <2>2. <<>> \in Seq(Request) /\ <<>> \in Seq(Answered)
    OBVIOUS
  <2>3. CASE inbox' = inbox /\ outbox' = outbox
    BY <2>3 DEF BoxTypes
  <2>4. CASE inbox' = <<>> /\ outbox' = <<>>
    BY <2>2, <2>4 DEF BoxTypes
  <2> QED
    BY <2>1, <2>3, <2>4
<1>16. ASSUME Close PROVE BoxTypes'
  <2>1. ReleaseRequest \in Request
    <3>1. [path |-> NoPath, version |-> 0] \in Stamp
      BY BoundAssumption DEF Stamp, Version
    <3> QED
      BY <3>1 DEF ReleaseRequest, Request, Kind
  <2>2. Append(inbox, ReleaseRequest) \in Seq(Request)
    BY <2>1, JoinLast DEF BoxTypes
  <2> QED
    BY <1>16, <2>2 DEF Close, BoxTypes
<1>17. ASSUME ReleaseReply PROVE BoxTypes'
  <2>1. outbox' \in Seq(Answered)
    BY <1>17, LeaveFirst DEF ReleaseReply, BoxTypes
  <2> QED
    BY <1>17, <2>1 DEF ReleaseReply, BoxTypes
<1>18. ASSUME CloseKill PROVE BoxTypes'
  <2>1. (inbox' = inbox /\ outbox' = outbox) \/ (inbox' = <<>> /\ outbox' = <<>>)
    BY <1>18 DEF CloseKill, LoseWorker, Orphaned, workerVars
  <2>2. <<>> \in Seq(Request) /\ <<>> \in Seq(Answered)
    OBVIOUS
  <2>3. CASE inbox' = inbox /\ outbox' = outbox
    BY <2>3 DEF BoxTypes
  <2>4. CASE inbox' = <<>> /\ outbox' = <<>>
    BY <2>2, <2>4 DEF BoxTypes
  <2> QED
    BY <2>1, <2>3, <2>4
<1>19. ASSUME ReleaseTimeout PROVE BoxTypes'
  <2>1. (inbox' = inbox /\ outbox' = outbox) \/ (inbox' = <<>> /\ outbox' = <<>>)
    BY <1>19 DEF ReleaseTimeout, Kill, LoseWorker, Orphaned, workerVars
  <2>2. <<>> \in Seq(Request) /\ <<>> \in Seq(Answered)
    OBVIOUS
  <2>3. CASE inbox' = inbox /\ outbox' = outbox
    BY <2>3 DEF BoxTypes
  <2>4. CASE inbox' = <<>> /\ outbox' = <<>>
    BY <2>2, <2>4 DEF BoxTypes
  <2> QED
    BY <2>1, <2>3, <2>4
<1>20. ASSUME NEW p \in Path, Edit(p) PROVE BoxTypes'
  BY <1>20 DEF Edit, callVars, slotVars, workerVars, closeVars, BoxTypes
<1> QED
  BY <1>1, <1>2, <1>3, <1>4, <1>5, <1>6, <1>7, <1>8, <1>9, <1>10, <1>11,
     <1>12, <1>13, <1>14, <1>15, <1>16, <1>17, <1>18, <1>19, <1>20 DEF Next,
     CallStep

-----------------------------------------------------------------------------
(* Either cache is kept, emptied, or has a member of its own put last. *)
LEMMA CacheKept ==
  ASSUME NEW T, NEW q \in Seq(T), NEW n \in Nat \ {0}, Len(q) <= n, NEW r,
         r = q \/ r = <<>> \/ \E e \in T : r = Latest(q, e, n)
  PROVE  r \in Seq(T) /\ Len(r) <= n
<1>1. CASE r = q
  BY <1>1
<1>2. CASE r = <<>>
  <2>1. <<>> \in Seq(T) /\ Len(<<>>) = 0
    OBVIOUS
  <2> QED
    BY <1>2, <2>1
<1>3. CASE \E e \in T : r = Latest(q, e, n)
  BY <1>3, LatestShape
<1> QED
  BY <1>1, <1>2, <1>3

(* How the worker's documents and the store's entries change. *)
DocsStep == docs' = docs \/ docs' = <<>> \/ \E e \in Stamp : docs' = Latest(docs, e, WorkerCapacity)
StoreStep == store' = store \/ store' = <<>> \/ \E e \in Entry : store' = Latest(store, e, StoreSize)

(* Only the worker puts a document among its own. *)
LEMMA DocsSteps ==
  ASSUME NameInv, FileTypes, BoxTypes, [Next]_vars
  PROVE  DocsStep
<1>1. ASSUME UNCHANGED vars PROVE DocsStep
  BY <1>1 DEF vars, callVars, slotVars, workerVars, closeVars, DocsStep
<1>2. ASSUME Stopped PROVE DocsStep
  BY <1>2 DEF Stopped, vars, callVars, slotVars, workerVars, closeVars,
     DocsStep
<1>3. ASSUME NEW c \in Call, SlotsRefused(c) PROVE DocsStep
  BY <1>3 DEF SlotsRefused, Set, callVars, slotVars, workerVars, closeVars,
     DocsStep
<1>4. ASSUME NEW c \in Call, SlotsFree(c) PROVE DocsStep
  BY <1>4 DEF SlotsFree, Start, Set, callVars, slotVars, workerVars,
     closeVars, DocsStep
<1>5. ASSUME NEW c \in Call, SlotsWait(c) PROVE DocsStep
  BY <1>5 DEF SlotsWait, Start, Set, callVars, slotVars, workerVars,
     closeVars, DocsStep
<1>6. ASSUME NEW c \in Call, Release(c) PROVE DocsStep
  BY <1>6 DEF Release, Set, callVars, slotVars, workerVars, closeVars,
     DocsStep
<1>7. ASSUME NEW c \in Call, StoreLoad(c) PROVE DocsStep
  BY <1>7, StoreLoadEffect DEF DocsStep
<1>8. ASSUME NEW c \in Call, StaleCursor(c) PROVE DocsStep
  BY <1>8 DEF StaleCursor, Over, Set, callVars, slotVars, workerVars,
     closeVars, DocsStep
<1>9. ASSUME NEW c \in Call, Boot(c) PROVE DocsStep
  BY <1>9 DEF Boot, Submit, Over, Set, callVars, slotVars, workerVars,
     closeVars, DocsStep
<1>10. ASSUME NEW c \in Call, Reply(c) PROVE DocsStep
  BY <1>10, ReplyEffect DEF DocsStep
<1>11. ASSUME NEW c \in Call, Timeout(c) PROVE DocsStep
  BY <1>11 DEF Timeout, Abandon, Kill, LoseWorker, Orphaned, callVars,
     slotVars, workerVars, closeVars, DocsStep
<1>12. ASSUME NEW c \in Call, Terminated(c) PROVE DocsStep
  BY <1>12 DEF Terminated, Over, Set, callVars, slotVars, workerVars,
     closeVars, DocsStep
<1>13. ASSUME NEW c \in Call, Abort(c) PROVE DocsStep
  BY <1>13 DEF Abort, Abandon, Kill, Set, LoseWorker, Orphaned, callVars,
     slotVars, workerVars, closeVars, DocsStep
<1>14. ASSUME Handle PROVE DocsStep
  <2>1. Head(inbox).stamp \in Stamp
    <3>1. Head(inbox) \in Request
      BY <1>14, HandleEffect, LeaveFirst DEF BoxTypes
    <3> QED
      BY <3>1 DEF Request
  <2> QED
    BY <1>14, <2>1, HandleEffect DEF DocsStep, Adopt
<1>15. ASSUME WorkerDies PROVE DocsStep
  BY <1>15 DEF WorkerDies, LoseWorker, Orphaned, callVars, slotVars,
     workerVars, closeVars, DocsStep
<1>16. ASSUME Close PROVE DocsStep
  BY <1>16 DEF Close, ReleaseRequest, callVars, slotVars, workerVars,
     closeVars, DocsStep
<1>17. ASSUME ReleaseReply PROVE DocsStep
  BY <1>17 DEF ReleaseReply, callVars, slotVars, workerVars, closeVars,
     DocsStep
<1>18. ASSUME CloseKill PROVE DocsStep
  BY <1>18 DEF CloseKill, LoseWorker, Orphaned, callVars, slotVars,
     workerVars, closeVars, DocsStep
<1>19. ASSUME ReleaseTimeout PROVE DocsStep
  BY <1>19 DEF ReleaseTimeout, Kill, LoseWorker, Orphaned, callVars, slotVars,
     workerVars, closeVars, DocsStep
<1>20. ASSUME NEW p \in Path, Edit(p) PROVE DocsStep
  BY <1>20 DEF Edit, callVars, slotVars, workerVars, closeVars, DocsStep
<1> QED
  BY <1>1, <1>2, <1>3, <1>4, <1>5, <1>6, <1>7, <1>8, <1>9, <1>10, <1>11,
     <1>12, <1>13, <1>14, <1>15, <1>16, <1>17, <1>18, <1>19, <1>20 DEF Next,
     CallStep

(* The store keeps what it has, or what the pool's generation parsed. *)
LEMMA StoreSteps ==
  ASSUME NameInv, NameTypes, FlagTypes, CacheTypes, FileTypes, BoxTypes, ActiveInv,
         [Next]_vars
  PROVE  StoreStep
<1>1. ASSUME UNCHANGED vars PROVE StoreStep
  BY <1>1 DEF vars, callVars, slotVars, workerVars, closeVars, StoreStep
<1>2. ASSUME Stopped PROVE StoreStep
  BY <1>2 DEF Stopped, vars, callVars, slotVars, workerVars, closeVars,
     StoreStep
<1>3. ASSUME NEW c \in Call, SlotsRefused(c) PROVE StoreStep
  BY <1>3 DEF SlotsRefused, Set, callVars, slotVars, workerVars, closeVars,
     StoreStep
<1>4. ASSUME NEW c \in Call, SlotsFree(c) PROVE StoreStep
  BY <1>4 DEF SlotsFree, Start, Set, callVars, slotVars, workerVars,
     closeVars, StoreStep
<1>5. ASSUME NEW c \in Call, SlotsWait(c) PROVE StoreStep
  BY <1>5 DEF SlotsWait, Start, Set, callVars, slotVars, workerVars,
     closeVars, StoreStep
<1>6. ASSUME NEW c \in Call, Release(c) PROVE StoreStep
  BY <1>6 DEF Release, Set, callVars, slotVars, workerVars, closeVars,
     StoreStep
<1>7. ASSUME NEW c \in Call, StoreLoad(c) PROVE StoreStep
  <2>1. store' = store \/ \E i \in DOMAIN store : store' = Latest(store, store[i], StoreSize)
    BY <1>7, StoreLoadEffect
  <2>2. \A i \in DOMAIN store : store[i] \in Entry
    BY DEF CacheTypes
  <2> QED
    BY <2>1, <2>2 DEF StoreStep
<1>8. ASSUME NEW c \in Call, StaleCursor(c) PROVE StoreStep
  <2>1. \E i \in DOMAIN store : store' = Latest(store, store[i], StoreSize)
    BY <1>8 DEF StaleCursor
  <2>2. \A i \in DOMAIN store : store[i] \in Entry
    BY DEF CacheTypes
  <2> QED
    BY <2>1, <2>2 DEF StoreStep
<1>9. ASSUME NEW c \in Call, Boot(c) PROVE StoreStep
  BY <1>9 DEF Boot, Submit, Over, Set, callVars, slotVars, workerVars,
     closeVars, StoreStep
<1>10. ASSUME NEW c \in Call, Reply(c) PROVE StoreStep
  <2>1. CASE Parsed(c)
    <3> DEFINE e == [path |-> path[c], version |-> asked[c], generation |-> generation]
    <3>1. path[c] \in Path
      BY <1>10, ReplyEffect, <2>1 DEF ActiveInv, Active, NameInv
    <3>2. e \in Entry
      BY <3>1 DEF Entry, NameTypes, FlagTypes
    <3>3. store' = Latest(store, e, StoreSize)
      BY <2>1 DEF Parsed
    <3> QED
      BY <3>2, <3>3 DEF StoreStep
  <2>2. CASE ~Parsed(c)
    BY <1>10, <2>2, ReplyEffect DEF Settled, Retry, StoreStep
  <2> QED
    BY <2>1, <2>2
<1>11. ASSUME NEW c \in Call, Timeout(c) PROVE StoreStep
  BY <1>11 DEF Timeout, Abandon, Kill, LoseWorker, Orphaned, callVars,
     slotVars, workerVars, closeVars, StoreStep
<1>12. ASSUME NEW c \in Call, Terminated(c) PROVE StoreStep
  BY <1>12 DEF Terminated, Over, Set, callVars, slotVars, workerVars,
     closeVars, StoreStep
<1>13. ASSUME NEW c \in Call, Abort(c) PROVE StoreStep
  BY <1>13 DEF Abort, Abandon, Kill, Set, LoseWorker, Orphaned, callVars,
     slotVars, workerVars, closeVars, StoreStep
<1>14. ASSUME Handle PROVE StoreStep
  BY <1>14 DEF Handle, callVars, slotVars, workerVars, closeVars, StoreStep
<1>15. ASSUME WorkerDies PROVE StoreStep
  BY <1>15 DEF WorkerDies, LoseWorker, Orphaned, callVars, slotVars,
     workerVars, closeVars, StoreStep
<1>16. ASSUME Close PROVE StoreStep
  BY <1>16 DEF Close, ReleaseRequest, callVars, slotVars, workerVars,
     closeVars, StoreStep
<1>17. ASSUME ReleaseReply PROVE StoreStep
  BY <1>17 DEF ReleaseReply, callVars, slotVars, workerVars, closeVars,
     StoreStep
<1>18. ASSUME CloseKill PROVE StoreStep
  BY <1>18 DEF CloseKill, LoseWorker, Orphaned, callVars, slotVars,
     workerVars, closeVars, StoreStep
<1>19. ASSUME ReleaseTimeout PROVE StoreStep
  BY <1>19 DEF ReleaseTimeout, Kill, LoseWorker, Orphaned, callVars, slotVars,
     workerVars, closeVars, StoreStep
<1>20. ASSUME NEW p \in Path, Edit(p) PROVE StoreStep
  BY <1>20 DEF Edit, callVars, slotVars, workerVars, closeVars, StoreStep
<1> QED
  BY <1>1, <1>2, <1>3, <1>4, <1>5, <1>6, <1>7, <1>8, <1>9, <1>10, <1>11,
     <1>12, <1>13, <1>14, <1>15, <1>16, <1>17, <1>18, <1>19, <1>20 DEF Next,
     CallStep

(* The caches. *)
LEMMA CacheTypesStep ==
  /\ NameInv /\ NameTypes /\ FlagTypes /\ CacheTypes /\ FileTypes /\ BoxTypes /\ ActiveInv
  /\ [Next]_vars
  => CacheTypes'
<1> SUFFICES ASSUME NameInv, NameTypes, FlagTypes, CacheTypes, FileTypes, BoxTypes, ActiveInv,
                    [Next]_vars
             PROVE  CacheTypes'
  OBVIOUS
<1>1. DocsStep /\ StoreStep
  BY DocsSteps, StoreSteps
<1>2. docs' \in Seq(Stamp) /\ Len(docs') <= WorkerCapacity
  BY <1>1, CacheKept, SizeAssumption, Zenon DEF DocsStep, CacheTypes
<1>3. store' \in Seq(Entry) /\ Len(store') <= StoreSize
  BY <1>1, CacheKept, SizeAssumption, Zenon DEF StoreStep, CacheTypes
<1> QED
  BY <1>2, <1>3 DEF CacheTypes

-----------------------------------------------------------------------------
(* A reply changes its own call only. *)
LEMMA ReplyOthers ==
  ASSUME BoxTypes, CallTypes, FlagTypes, NEW c \in Call, Reply(c)
  PROVE  /\ \A d \in Call : d # c => pc'[d] = pc[d] /\ mode'[d] = mode[d] /\ tried'[d] = tried[d]
         /\ pc[c] \in {"parse", "ask"} => pc'[c] \in {"load", "parse", "ask"}
<1>1. CASE \E o \in {"mismatch", "ok", "failed"} : Settled(c, o)
  BY <1>1 DEF Settled, Over, Set, callVars, CallTypes
<1>2. CASE Retry(c)
  <2>1. CASE tried[c]
    BY <1>2, <2>1 DEF Retry, Over, Set, CallTypes
  <2>2. CASE ~tried[c]
    BY <1>2, <2>2 DEF Retry, Over, Set, CallTypes, FlagTypes
  <2> QED
    BY <2>1, <2>2
<1>3. CASE Parsed(c)
  <2>1. pc' = Set(pc, c, "ask") /\ tried' = tried
    BY <1>3 DEF Parsed, callVars
  <2>2. mode' = Set(mode, c, "over") \/ mode' = Set(mode, c, "asking")
    BY <1>3 DEF Parsed, Submit, Over
  <2> QED
    BY <2>1, <2>2 DEF Set, CallTypes
<1> QED
  BY <1>1, <1>2, <1>3, ReplyEffect

(* A call that is retried, or waits for an answer, has named a document. *)
LEMMA NameInvStep ==
  ASSUME CallTypes, NameTypes, FlagTypes, FileTypes, BoxTypes, ActiveInv, NameInv,
         [Next]_vars
  PROVE  NameInv'
<1>1. ASSUME UNCHANGED vars PROVE NameInv'
  BY <1>1 DEF vars, callVars, slotVars, workerVars, closeVars, NameInv,
     CallTypes, NameTypes, FlagTypes
<1>2. ASSUME Stopped PROVE NameInv'
  BY <1>2 DEF Stopped, vars, callVars, slotVars, workerVars, closeVars,
     NameInv, CallTypes, NameTypes, FlagTypes
<1>3. ASSUME NEW c \in Call, SlotsRefused(c) PROVE NameInv'
  BY <1>3 DEF SlotsRefused, Set, callVars, slotVars, workerVars, closeVars,
     NameInv, CallTypes, NameTypes, FlagTypes
<1>4. ASSUME NEW c \in Call, SlotsFree(c) PROVE NameInv'
  BY <1>4 DEF SlotsFree, Start, Set, callVars, slotVars, workerVars,
     closeVars, NameInv, CallTypes, NameTypes, FlagTypes
<1>5. ASSUME NEW c \in Call, SlotsWait(c) PROVE NameInv'
  BY <1>5 DEF SlotsWait, Start, Set, callVars, slotVars, workerVars,
     closeVars, NameInv, CallTypes, NameTypes, FlagTypes
<1>6. ASSUME NEW c \in Call, Release(c) PROVE NameInv'
  BY <1>6 DEF Release, Set, callVars, slotVars, workerVars, closeVars,
     NameInv, CallTypes, NameTypes, FlagTypes
<1>7. ASSUME NEW c \in Call, StoreLoad(c) PROVE NameInv'
  <2>1. PICK p \in Path, k \in {"parse", "ask"} : path' = Set(path, c, p) /\ pc' = Set(pc, c, k)
    BY <1>7, StoreLoadEffect
  <2>2. tried' = tried
    BY <1>7, StoreLoadEffect
  <2> QED
    BY <2>1, <2>2 DEF Set, NameInv, CallTypes, NameTypes
<1>8. ASSUME NEW c \in Call, StaleCursor(c) PROVE NameInv'
  <2>1. PICK p \in Path : path' = Set(path, c, p)
    BY <1>8 DEF StaleCursor
  <2>2. pc' = pc /\ tried' = tried
    BY <1>8 DEF StaleCursor
  <2> QED
    BY <2>1, <2>2 DEF Set, NameInv, NameTypes
<1>9. ASSUME NEW c \in Call, Boot(c) PROVE NameInv'
  BY <1>9 DEF Boot, Submit, Over, Set, callVars, slotVars, workerVars,
     closeVars, NameInv, CallTypes, NameTypes, FlagTypes
<1>10. ASSUME NEW c \in Call, Reply(c) PROVE NameInv'
  <2>1. path' = path /\ path[c] \in Path
    BY <1>10, ReplyEffect DEF ActiveInv, Active, NameInv
  <2>2. \A d \in Call : d # c => pc'[d] = pc[d] /\ tried'[d] = tried[d]
    BY <1>10, ReplyOthers
  <2> QED
    BY <2>1, <2>2 DEF NameInv
<1>11. ASSUME NEW c \in Call, Timeout(c) PROVE NameInv'
  BY <1>11 DEF Timeout, Abandon, Kill, LoseWorker, Orphaned, callVars,
     slotVars, workerVars, closeVars, NameInv, CallTypes, NameTypes, FlagTypes
<1>12. ASSUME NEW c \in Call, Terminated(c) PROVE NameInv'
  BY <1>12 DEF Terminated, Over, Set, callVars, slotVars, workerVars,
     closeVars, NameInv, CallTypes, NameTypes, FlagTypes
<1>13. ASSUME NEW c \in Call, Abort(c) PROVE NameInv'
  BY <1>13 DEF Abort, Abandon, Kill, Set, LoseWorker, Orphaned, callVars,
     slotVars, workerVars, closeVars, NameInv, CallTypes, NameTypes, FlagTypes
<1>14. ASSUME Handle PROVE NameInv'
  BY <1>14 DEF Handle, callVars, slotVars, workerVars, closeVars, NameInv,
     CallTypes, NameTypes, FlagTypes
<1>15. ASSUME WorkerDies PROVE NameInv'
  BY <1>15 DEF WorkerDies, LoseWorker, Orphaned, callVars, slotVars,
     workerVars, closeVars, NameInv, CallTypes, NameTypes, FlagTypes
<1>16. ASSUME Close PROVE NameInv'
  BY <1>16 DEF Close, ReleaseRequest, callVars, slotVars, workerVars,
     closeVars, NameInv, CallTypes, NameTypes, FlagTypes
<1>17. ASSUME ReleaseReply PROVE NameInv'
  BY <1>17 DEF ReleaseReply, callVars, slotVars, workerVars, closeVars,
     NameInv, CallTypes, NameTypes, FlagTypes
<1>18. ASSUME CloseKill PROVE NameInv'
  BY <1>18 DEF CloseKill, LoseWorker, Orphaned, callVars, slotVars,
     workerVars, closeVars, NameInv, CallTypes, NameTypes, FlagTypes
<1>19. ASSUME ReleaseTimeout PROVE NameInv'
  BY <1>19 DEF ReleaseTimeout, Kill, LoseWorker, Orphaned, callVars, slotVars,
     workerVars, closeVars, NameInv, CallTypes, NameTypes, FlagTypes
<1>20. ASSUME NEW p \in Path, Edit(p) PROVE NameInv'
  BY <1>20 DEF Edit, callVars, slotVars, workerVars, closeVars, NameInv,
     CallTypes, NameTypes, FlagTypes
<1> QED
  BY <1>1, <1>2, <1>3, <1>4, <1>5, <1>6, <1>7, <1>8, <1>9, <1>10, <1>11,
     <1>12, <1>13, <1>14, <1>15, <1>16, <1>17, <1>18, <1>19, <1>20 DEF Next,
     CallStep

-----------------------------------------------------------------------------
(* The slot.  Most steps happen inside it. *)
SlotQuiet ==
  /\ waiting' = waiting /\ busy' = busy /\ closed' = closed
  /\ \A c \in Call : /\ pc'[c] \in {"new", "wait"} <=> pc[c] \in {"new", "wait"}
                     /\ pc'[c] = "wait" <=> pc[c] = "wait"
                     /\ pc[c] \in {"new", "wait"} /\ mode[c] = "idle" => mode'[c] = "idle"
  /\ pc' \in [Call -> {"new", "wait", "load", "parse", "ask"}]

LEMMA InsideIs ==
  /\ CallTypes => \A c \in Call : c \in Inside <=> pc[c] \notin {"new", "wait"}
  /\ CallTypes' => \A c \in Call : c \in Inside' <=> pc'[c] \notin {"new", "wait"}
BY DEF CallTypes, Inside

LEMMA QuietSlot == ASSUME CallTypes, CallTypes', SlotInv, SlotQuiet PROVE SlotInv'
<1>1. Inside' = Inside
  BY DEF Inside, SlotQuiet, CallTypes
<1>2. \A c \in Call : pc'[c] = "wait" <=> c \in ToSet(waiting')
  BY DEF SlotQuiet, SlotInv
<1>3. \A c \in Call : pc'[c] \in {"new", "wait"} => mode'[c] = "idle"
  BY DEF SlotQuiet, SlotInv
<1>4. IsInjective(waiting')
  BY DEF SlotQuiet, SlotInv
<1> QED
  BY <1>1, <1>2, <1>3, <1>4 DEF SlotQuiet, SlotInv

SlotMove ==
  \/ SlotQuiet
  \/ \E c \in Call : SlotsFree(c) \/ SlotsWait(c) \/ Release(c)
  \/ Close

(* Four steps touch the slot. *)
LEMMA SlotMoves ==
  ASSUME CallTypes, CallTypes', FlagTypes, FileTypes, NameInv, BoxTypes, ActiveInv,
         SlotInv, [Next]_vars
  PROVE  SlotMove
<1>1. ASSUME UNCHANGED vars PROVE SlotMove
  <2>1. SlotQuiet
    BY <1>1 DEF vars, SlotQuiet, CallTypes,
       callVars, slotVars, workerVars, closeVars
  <2> QED
    BY <2>1 DEF SlotMove
<1>2. ASSUME Stopped PROVE SlotMove
  <2>1. SlotQuiet
    BY <1>2 DEF Stopped, vars, SlotQuiet,
       CallTypes, callVars, slotVars, workerVars, closeVars
  <2> QED
    BY <2>1 DEF SlotMove
<1>3. ASSUME NEW c \in Call, SlotsRefused(c) PROVE SlotMove
  <2>1. SlotQuiet
    BY <1>3 DEF SlotsRefused, Set, SlotQuiet, SlotInv, ActiveInv, Active,
       CallTypes, callVars, slotVars, workerVars, closeVars
  <2> QED
    BY <2>1 DEF SlotMove
<1>4. ASSUME NEW c \in Call, SlotsFree(c) PROVE SlotMove
  BY <1>4 DEF SlotMove
<1>5. ASSUME NEW c \in Call, SlotsWait(c) PROVE SlotMove
  BY <1>5 DEF SlotMove
<1>6. ASSUME NEW c \in Call, Release(c) PROVE SlotMove
  BY <1>6 DEF SlotMove
<1>7. ASSUME NEW c \in Call, StoreLoad(c) PROVE SlotMove
  <2>1. PICK k \in {"parse", "ask"} : pc' = Set(pc, c, k) /\ pc[c] = "load"
    BY <1>7, StoreLoadEffect
  <2>2. \A d \in Call : d # c => mode'[d] = mode[d]
    <3>1. \E x \in {"over", "boot", "asking"} : mode' = Set(mode, c, x)
      BY <1>7, StoreLoadEffect
    <3> QED
      BY <3>1 DEF Set, CallTypes
  <2>3. UNCHANGED <<waiting, busy, closed>>
    BY <1>7, StoreLoadEffect
  <2>4. SlotQuiet
    BY <2>1, <2>2, <2>3 DEF Set, CallTypes, SlotQuiet
  <2> QED
    BY <2>4 DEF SlotMove
<1>8. ASSUME NEW c \in Call, StaleCursor(c) PROVE SlotMove
  <2>1. SlotQuiet
    BY <1>8 DEF StaleCursor, Over, Set, SlotQuiet, SlotInv, ActiveInv, Active,
       CallTypes, callVars, slotVars, workerVars, closeVars
  <2> QED
    BY <2>1 DEF SlotMove
<1>9. ASSUME NEW c \in Call, Boot(c) PROVE SlotMove
  <2>1. SlotQuiet
    BY <1>9 DEF Boot, Submit, Over, Set, SlotQuiet, SlotInv, ActiveInv,
       Active, CallTypes, callVars, slotVars, workerVars, closeVars
  <2> QED
    BY <2>1 DEF SlotMove
<1>10. ASSUME NEW c \in Call, Reply(c) PROVE SlotMove
  <2>1. pc[c] \in {"parse", "ask"}
    BY <1>10, ReplyEffect DEF ActiveInv, Active
  <2>2. pc'[c] \in {"load", "parse", "ask"} /\ \A d \in Call : d # c => pc'[d] = pc[d] /\ mode'[d] = mode[d]
    BY <1>10, <2>1, ReplyOthers
  <2>3. SlotQuiet
    BY <1>10, <2>1, <2>2, ReplyEffect DEF SlotQuiet, CallTypes
  <2> QED
    BY <2>3 DEF SlotMove
<1>11. ASSUME NEW c \in Call, Timeout(c) PROVE SlotMove
  <2>1. SlotQuiet
    BY <1>11 DEF Timeout, Abandon, Kill, LoseWorker, Orphaned, SlotQuiet,
       SlotInv, ActiveInv, Active, CallTypes, callVars, slotVars, workerVars,
       closeVars
  <2> QED
    BY <2>1 DEF SlotMove
<1>12. ASSUME NEW c \in Call, Terminated(c) PROVE SlotMove
  <2>1. SlotQuiet
    BY <1>12 DEF Terminated, Over, Set, SlotQuiet, SlotInv, ActiveInv, Active,
       CallTypes, callVars, slotVars, workerVars, closeVars
  <2> QED
    BY <2>1 DEF SlotMove
<1>13. ASSUME NEW c \in Call, Abort(c) PROVE SlotMove
  <2>1. SlotQuiet
    BY <1>13 DEF Abort, Abandon, Kill, Set, LoseWorker, Orphaned, SlotQuiet,
       SlotInv, ActiveInv, Active, CallTypes, callVars, slotVars, workerVars,
       closeVars
  <2> QED
    BY <2>1 DEF SlotMove
<1>14. ASSUME Handle PROVE SlotMove
  <2>1. SlotQuiet
    BY <1>14, HandleEffect DEF SlotQuiet, CallTypes
  <2> QED
    BY <2>1 DEF SlotMove
<1>15. ASSUME WorkerDies PROVE SlotMove
  <2>1. SlotQuiet
    BY <1>15 DEF WorkerDies, LoseWorker, Orphaned, SlotQuiet, SlotInv,
       ActiveInv, Active, CallTypes, callVars, slotVars, workerVars, closeVars
  <2> QED
    BY <2>1 DEF SlotMove
<1>16. ASSUME Close PROVE SlotMove
  BY <1>16 DEF SlotMove
<1>17. ASSUME ReleaseReply PROVE SlotMove
  <2>1. SlotQuiet
    BY <1>17 DEF ReleaseReply, SlotQuiet, SlotInv, ActiveInv, Active,
       CallTypes, callVars, slotVars, workerVars, closeVars
  <2> QED
    BY <2>1 DEF SlotMove
<1>18. ASSUME CloseKill PROVE SlotMove
  <2>1. SlotQuiet
    BY <1>18 DEF CloseKill, LoseWorker, Orphaned, SlotQuiet, SlotInv,
       ActiveInv, Active, CallTypes, callVars, slotVars, workerVars, closeVars
  <2> QED
    BY <2>1 DEF SlotMove
<1>19. ASSUME ReleaseTimeout PROVE SlotMove
  <2>1. SlotQuiet
    BY <1>19 DEF ReleaseTimeout, Kill, LoseWorker, Orphaned, SlotQuiet,
       SlotInv, ActiveInv, Active, CallTypes, callVars, slotVars, workerVars,
       closeVars
  <2> QED
    BY <2>1 DEF SlotMove
<1>20. ASSUME NEW p \in Path, Edit(p) PROVE SlotMove
  <2>1. SlotQuiet
    BY <1>20 DEF Edit, SlotQuiet, SlotInv, ActiveInv, Active, CallTypes,
       callVars, slotVars, workerVars, closeVars
  <2> QED
    BY <2>1 DEF SlotMove
<1> QED
  BY <1>1, <1>2, <1>3, <1>4, <1>5, <1>6, <1>7, <1>8, <1>9, <1>10, <1>11,
     <1>12, <1>13, <1>14, <1>15, <1>16, <1>17, <1>18, <1>19, <1>20 DEF Next,
     CallStep

(* The slot has one holder, and the line is the calls that wait. *)
LEMMA SlotInvStep ==
  ASSUME CallTypes, CallTypes', PoolTypes, SlotInv, SlotMove
  PROVE  SlotInv'
<1>1. ASSUME NEW c \in Call, SlotsFree(c) PROVE SlotInv'
  <2>1. /\ pc' = Set(pc, c, "load") /\ pc[c] = "new" /\ ~closed /\ ~busy
        /\ busy' = TRUE /\ UNCHANGED <<mode, waiting, closed>>
    BY <1>1 DEF SlotsFree, closeVars
  <2>2. waiting = <<>> /\ Inside = {}
    BY <2>1 DEF SlotInv
  <2>3. Inside' = {c}
    BY <2>1, <2>2 DEF Inside, Set, CallTypes
  <2> QED
    BY <2>1, <2>2, <2>3 DEF SlotInv, Set, CallTypes
<1>2. ASSUME NEW c \in Call, SlotsWait(c) PROVE SlotInv'
  <2>1. /\ pc' = Set(pc, c, "wait") /\ pc[c] = "new" /\ ~closed /\ busy
        /\ waiting' = Append(waiting, c) /\ UNCHANGED <<mode, busy, closed>>
    BY <1>2 DEF SlotsWait, closeVars
  <2>2. ToSet(waiting') = ToSet(waiting) \cup {c} /\ IsInjective(waiting')
    BY <2>1, JoinLast DEF SlotInv, PoolTypes
  <2>3. Inside' = Inside
    BY <2>1 DEF Inside, Set, CallTypes
  <2> QED
    BY <2>1, <2>2, <2>3 DEF SlotInv, Set, CallTypes
<1>3. ASSUME NEW c \in Call, Release(c) PROVE SlotInv'
  <2>1. mode[c] = "over" /\ mode' = Set(mode, c, "idle") /\ closed' = closed
    BY <1>3 DEF Release, closeVars
  <2>2. c \in Inside /\ pc[c] \notin {"new", "wait"}
    BY <2>1, InsideIs DEF SlotInv
  <2>3. CASE waiting = <<>>
    <3>1. pc' = Set(pc, c, "new") /\ waiting' = waiting /\ busy' = FALSE
      BY <1>3, <2>3 DEF Release
    <3>2. Inside' = Inside \ {c}
      BY <3>1 DEF Inside, Set, CallTypes
    <3>3. ~closed => Inside' = {}
      BY <2>2, <3>2 DEF SlotInv
    <3> QED
      BY <2>1, <2>2, <2>3, <3>1, <3>2, <3>3 DEF SlotInv, Set, CallTypes
  <2>4. CASE waiting # <<>>
    <3> DEFINE h == Head(waiting)
    <3>1. pc' = [pc EXCEPT ![c] = "new", ![h] = "load"] /\ waiting' = Tail(waiting) /\ busy' = busy
      BY <1>3, <2>4 DEF Release
    <3>2. /\ h \in ToSet(waiting) /\ h \in Call /\ ToSet(Tail(waiting)) = ToSet(waiting) \ {h}
          /\ IsInjective(Tail(waiting))
      BY <2>4, LeaveFirst DEF SlotInv, PoolTypes
    <3> HIDE DEF h
    <3>3. pc[h] = "wait" /\ h # c /\ ~closed
      BY <2>2, <2>4, <3>2 DEF SlotInv
    <3>4. pc'[c] = "new" /\ pc'[h] = "load" /\ \A d \in Call : d # c /\ d # h => pc'[d] = pc[d]
      BY <3>1, <3>2, <3>3 DEF CallTypes
    <3>5. Inside' = {h}
      <4>1. Inside = {c}
        BY <2>2, <3>3 DEF SlotInv
      <4> QED
        BY <4>1, <3>2, <3>3, <3>4, InsideIs DEF Inside
    <3>6. busy /\ busy' /\ closed' = closed
      BY <2>1, <2>2, <3>1, <3>3 DEF SlotInv
    <3>7. \A d \in Call : pc'[d] = "wait" <=> d \in ToSet(waiting')
      BY <3>1, <3>2, <3>3, <3>4, <2>2 DEF SlotInv
    <3>8. \A d \in Call : pc'[d] \in {"new", "wait"} => mode'[d] = "idle"
      BY <2>1, <3>4, <3>2 DEF SlotInv, Set, CallTypes
    <3> QED
      BY <3>1, <3>2, <3>3, <3>5, <3>6, <3>7, <3>8 DEF SlotInv
  <2> QED
    BY <2>3, <2>4
<1>4. ASSUME Close PROVE SlotInv'
  <2>1. /\ closed' = TRUE /\ waiting' = <<>> /\ mode' = mode
        /\ pc' = [d \in Call |-> IF pc[d] = "wait" THEN "load" ELSE pc[d]]
    BY <1>4 DEF Close
  <2> QED
    BY <2>1, EmptyQueue DEF SlotInv, CallTypes
<1> QED
  BY <1>1, <1>2, <1>3, <1>4, QuietSlot DEF SlotMove

-----------------------------------------------------------------------------
(* Without a worker nothing is stored and nothing is under way. *)
LEMMA NoStore ==
  ASSUME WorkerInv, wstate = "none", CacheTypes
  PROVE  store = <<>> /\ inbox = <<>> /\ outbox = <<>>
<1>1. store # <<>> => 1 \in DOMAIN store
  BY DEF CacheTypes
<1> QED
  BY <1>1 DEF WorkerInv, StoreCurrent

(* At most one call has business with a worker. *)
LEMMA ActiveInvStep ==
  ASSUME CallTypes, FlagTypes, PoolTypes, CacheTypes, FileTypes, NameInv, BoxTypes,
         SlotInv, WorkerInv, ActiveInv, [Next]_vars
  PROVE  ActiveInv'
<1>1. ASSUME UNCHANGED vars PROVE ActiveInv'
  BY <1>1 DEF vars, callVars, slotVars, workerVars, closeVars, ActiveInv,
     Active, SlotInv, CallTypes
<1>2. ASSUME Stopped PROVE ActiveInv'
  BY <1>2 DEF Stopped, vars, callVars, slotVars, workerVars, closeVars,
     ActiveInv, Active, SlotInv, CallTypes
<1>3. ASSUME NEW c \in Call, SlotsRefused(c) PROVE ActiveInv'
  BY <1>3 DEF SlotsRefused, Set, callVars, slotVars, workerVars, closeVars,
     ActiveInv, Active, SlotInv, CallTypes
<1>4. ASSUME NEW c \in Call, SlotsFree(c) PROVE ActiveInv'
  BY <1>4 DEF SlotsFree, Start, Set, callVars, slotVars, workerVars,
     closeVars, ActiveInv, Active, SlotInv, CallTypes
<1>5. ASSUME NEW c \in Call, SlotsWait(c) PROVE ActiveInv'
  BY <1>5 DEF SlotsWait, Start, Set, callVars, slotVars, workerVars,
     closeVars, ActiveInv, Active, SlotInv, CallTypes
<1>6. ASSUME NEW c \in Call, Release(c) PROVE ActiveInv'
  <2>1. mode[c] = "over" /\ mode' = Set(mode, c, "idle") /\ wstate' = wstate
    BY <1>6 DEF Release, workerVars
  <2>2. \A d \in Call : d # c => (pc'[d] = pc[d] \/ (pc[d] = "wait" /\ pc'[d] = "load"))
    <3>1. CASE waiting = <<>>
      BY <1>6, <3>1 DEF Release, Set, CallTypes
    <3>2. CASE waiting # <<>>
      <4>1. Head(waiting) \in Call /\ pc[Head(waiting)] = "wait"
        BY <3>2, LeaveFirst DEF SlotInv, PoolTypes
      <4> QED
        BY <1>6, <3>2, <4>1 DEF Release, CallTypes
    <3> QED
      BY <3>1, <3>2
  <2>4. pc'[c] = "new"
    <3>1. CASE waiting = <<>>
      BY <1>6, <3>1 DEF Release, Set, CallTypes
    <3>2. CASE waiting # <<>>
      <4>1. Head(waiting) \in Call /\ pc[Head(waiting)] = "wait"
        BY <3>2, LeaveFirst DEF SlotInv, PoolTypes
      <4>2. c # Head(waiting)
        BY <2>1, <4>1 DEF SlotInv
      <4> QED
        BY <1>6, <3>2, <4>1, <4>2 DEF Release, CallTypes
    <3> QED
      BY <3>1, <3>2
  <2>3. mode'[c] = "idle" /\ \A d \in Call : d # c => mode'[d] = mode[d]
    BY <2>1 DEF Set, CallTypes
  <2> QED
    BY <2>1, <2>2, <2>3, <2>4 DEF ActiveInv, Active
<1>7. ASSUME NEW c \in Call, StoreLoad(c) PROVE ActiveInv'
  <2>1. PICK k \in {"parse", "ask"} : /\ pc' = Set(pc, c, k) /\ pc[c] = "load" /\ (k = "ask" => store # <<>>)
          /\ \/ mode' = Set(mode, c, "over") /\ wstate' = wstate
             \/ ~closed /\ wstate = "none" /\ mode' = Set(mode, c, "boot") /\ wstate' = "booting"
             \/ ~closed /\ wstate # "none" /\ mode' = Set(mode, c, "asking") /\ wstate' = wstate
    BY <1>7, StoreLoadEffect
  <2>2. pc'[c] = k /\ \A d \in Call : d # c => pc'[d] = pc[d] /\ mode'[d] = mode[d]
    BY <2>1 DEF Set, CallTypes
  <2>3. CASE mode' = Set(mode, c, "over") /\ wstate' = wstate
    BY <2>2, <2>3 DEF ActiveInv, Active, Set, CallTypes
  <2>4. CASE ~closed /\ mode'[c] \in {"boot", "asking"} /\ wstate' # "none"
    <3>1. \A d \in Call : d # c => mode[d] \notin Active
      BY <2>1, <2>4, InsideIs DEF SlotInv, ActiveInv
    <3>2. mode'[c] = "boot" => k = "parse"
      <4>1. store # <<>> => wstate # "none"
        BY NoStore
      <4> QED
        BY <2>1, <4>1 DEF Set, CallTypes
    <3> QED
      BY <2>2, <2>4, <3>1, <3>2 DEF ActiveInv, Active
  <2> QED
    BY <2>1, <2>3, <2>4 DEF Set, CallTypes
<1>8. ASSUME NEW c \in Call, StaleCursor(c) PROVE ActiveInv'
  BY <1>8 DEF StaleCursor, Over, Set, callVars, slotVars, workerVars,
     closeVars, ActiveInv, Active, SlotInv, CallTypes
<1>9. ASSUME NEW c \in Call, Boot(c) PROVE ActiveInv'
  BY <1>9 DEF Boot, Submit, Over, Set, callVars, slotVars, workerVars,
     closeVars, ActiveInv, Active, SlotInv, CallTypes
<1>10. ASSUME NEW c \in Call, Reply(c) PROVE ActiveInv'
  <2>1. pc[c] \in {"parse", "ask"} /\ mode[c] \in Active /\ wstate # "none" /\ wstate' = wstate
    BY <1>10, ReplyEffect DEF ActiveInv, Active
  <2>2. \A d \in Call : d # c => pc'[d] = pc[d] /\ mode'[d] = mode[d]
    BY <1>10, ReplyOthers
  <2>3. \/ mode'[c] \in {"over", "asking"} /\ pc'[c] \in {"parse", "ask"}
        \/ mode'[c] = "idle" /\ pc'[c] = "load"
    <3>1. CASE \E o \in {"mismatch", "ok", "failed"} : Settled(c, o)
      BY <2>1, <3>1 DEF Settled, Over, Set, CallTypes
    <3>2. CASE Retry(c)
      BY <2>1, <3>2 DEF Retry, Over, Set, CallTypes
    <3>3. CASE Parsed(c)
      BY <3>3 DEF Parsed, Submit, Over, Set, CallTypes
    <3> QED
      BY <1>10, <3>1, <3>2, <3>3, ReplyEffect
  <2> QED
    BY <2>1, <2>2, <2>3 DEF ActiveInv, Active
<1>11. ASSUME NEW c \in Call, Timeout(c) PROVE ActiveInv'
  BY <1>11 DEF Timeout, Abandon, Kill, LoseWorker, Orphaned, callVars,
     slotVars, workerVars, closeVars, ActiveInv, Active, SlotInv, CallTypes
<1>12. ASSUME NEW c \in Call, Terminated(c) PROVE ActiveInv'
  BY <1>12 DEF Terminated, Over, Set, callVars, slotVars, workerVars,
     closeVars, ActiveInv, Active, SlotInv, CallTypes
<1>13. ASSUME NEW c \in Call, Abort(c) PROVE ActiveInv'
  BY <1>13 DEF Abort, Abandon, Kill, Set, LoseWorker, Orphaned, callVars,
     slotVars, workerVars, closeVars, ActiveInv, Active, SlotInv, CallTypes
<1>14. ASSUME Handle PROVE ActiveInv'
  BY <1>14, HandleEffect DEF ActiveInv
<1>15. ASSUME WorkerDies PROVE ActiveInv'
  BY <1>15 DEF WorkerDies, LoseWorker, Orphaned, callVars, slotVars,
     workerVars, closeVars, ActiveInv, Active, SlotInv, CallTypes
<1>16. ASSUME Close PROVE ActiveInv'
  BY <1>16 DEF Close, ReleaseRequest, callVars, slotVars, workerVars,
     closeVars, ActiveInv, Active, SlotInv, CallTypes
<1>17. ASSUME ReleaseReply PROVE ActiveInv'
  BY <1>17 DEF ReleaseReply, callVars, slotVars, workerVars, closeVars,
     ActiveInv, Active, SlotInv, CallTypes
<1>18. ASSUME CloseKill PROVE ActiveInv'
  BY <1>18 DEF CloseKill, LoseWorker, Orphaned, callVars, slotVars,
     workerVars, closeVars, ActiveInv, Active, SlotInv, CallTypes
<1>19. ASSUME ReleaseTimeout PROVE ActiveInv'
  BY <1>19 DEF ReleaseTimeout, Kill, LoseWorker, Orphaned, callVars, slotVars,
     workerVars, closeVars, ActiveInv, Active, SlotInv, CallTypes
<1>20. ASSUME NEW p \in Path, Edit(p) PROVE ActiveInv'
  BY <1>20 DEF Edit, callVars, slotVars, workerVars, closeVars, ActiveInv,
     Active, SlotInv, CallTypes
<1> QED
  BY <1>1, <1>2, <1>3, <1>4, <1>5, <1>6, <1>7, <1>8, <1>9, <1>10, <1>11,
     <1>12, <1>13, <1>14, <1>15, <1>16, <1>17, <1>18, <1>19, <1>20 DEF Next,
     CallStep

(* The store speaks of the worker the pool has. *)
LEMMA StoreOf ==
  ASSUME CacheTypes
  PROVE  StoreCurrent <=> \A e \in ToSet(store) : wstate # "none" /\ e.generation = generation
BY DEF StoreCurrent, ToSet

(* A store that is emptied, or only reordered and given an entry of this    *)
(* generation, stays current.                                               *)
LEMMA StoreStays ==
  ASSUME CacheTypes, CacheTypes', StoreCurrent,
         \/ store' = <<>>
         \/ /\ wstate' = "none" => wstate = "none"
            /\ generation' = generation
            /\ \/ store' = store
               \/ \E e \in Entry : /\ store' = Latest(store, e, StoreSize) /\ wstate # "none"
                                   /\ e.generation = generation
  PROVE  StoreCurrent'
<1>0. ASSUME \A e \in ToSet(store') : wstate' # "none" /\ e.generation = generation'
      PROVE  StoreCurrent'
  BY <1>0 DEF StoreCurrent, ToSet
<1>1. CASE store' = <<>>
  BY <1>1 DEF StoreCurrent
<1>2. CASE /\ wstate' = "none" => wstate = "none"
           /\ generation' = generation /\ store' = store
  BY <1>2 DEF StoreCurrent
<1>3. ASSUME NEW e \in Entry, store' = Latest(store, e, StoreSize), wstate # "none",
             wstate' = "none" => wstate = "none", generation' = generation,
             e.generation = generation
      PROVE  StoreCurrent'
  <2>1. ToSet(store') \subseteq ToSet(store) \cup {e}
    BY <1>3, LatestShape, SizeAssumption DEF CacheTypes
  <2> QED
    BY <1>0, <1>3, <2>1, StoreOf
<1> QED
  BY <1>1, <1>2, <1>3

(* Whatever kills, exits and late parses happen. *)
LEMMA WorkerInvStep ==
  ASSUME NameInv, NameTypes, FlagTypes, CacheTypes, CacheTypes', FileTypes, BoxTypes,
         ActiveInv, WorkerInv, [Next]_vars
  PROVE  WorkerInv'
<1>1. ASSUME UNCHANGED vars PROVE WorkerInv'
  <2>1. StoreCurrent'
    <3>1. \/ store' = <<>>
          \/ /\ wstate' = "none" => wstate = "none"
             /\ generation' = generation /\ store' = store
      BY <1>1 DEF vars, callVars, slotVars, workerVars, closeVars
    <3> QED
      BY <3>1, StoreStays DEF WorkerInv
  <2>2. wstate' = "none" => inbox' = <<>> /\ outbox' = <<>>
    BY <1>1 DEF vars, WorkerInv, callVars, slotVars, workerVars, closeVars
  <2> QED
    BY <2>1, <2>2 DEF WorkerInv
<1>2. ASSUME Stopped PROVE WorkerInv'
  <2>1. StoreCurrent'
    <3>1. \/ store' = <<>>
          \/ /\ wstate' = "none" => wstate = "none"
             /\ generation' = generation /\ store' = store
      BY <1>2 DEF Stopped, vars, callVars, slotVars, workerVars, closeVars
    <3> QED
      BY <3>1, StoreStays DEF WorkerInv
  <2>2. wstate' = "none" => inbox' = <<>> /\ outbox' = <<>>
    BY <1>2 DEF Stopped, vars, WorkerInv, callVars, slotVars, workerVars,
       closeVars
  <2> QED
    BY <2>1, <2>2 DEF WorkerInv
<1>3. ASSUME NEW c \in Call, SlotsRefused(c) PROVE WorkerInv'
  <2>1. StoreCurrent'
    <3>1. \/ store' = <<>>
          \/ /\ wstate' = "none" => wstate = "none"
             /\ generation' = generation /\ store' = store
      BY <1>3 DEF SlotsRefused, Set, callVars, slotVars, workerVars, closeVars
    <3> QED
      BY <3>1, StoreStays DEF WorkerInv
  <2>2. wstate' = "none" => inbox' = <<>> /\ outbox' = <<>>
    BY <1>3 DEF SlotsRefused, Set, WorkerInv, callVars, slotVars, workerVars,
       closeVars
  <2> QED
    BY <2>1, <2>2 DEF WorkerInv
<1>4. ASSUME NEW c \in Call, SlotsFree(c) PROVE WorkerInv'
  <2>1. StoreCurrent'
    <3>1. \/ store' = <<>>
          \/ /\ wstate' = "none" => wstate = "none"
             /\ generation' = generation /\ store' = store
      BY <1>4 DEF SlotsFree, Start, Set, callVars, slotVars, workerVars,
         closeVars
    <3> QED
      BY <3>1, StoreStays DEF WorkerInv
  <2>2. wstate' = "none" => inbox' = <<>> /\ outbox' = <<>>
    BY <1>4 DEF SlotsFree, Start, Set, WorkerInv, callVars, slotVars,
       workerVars, closeVars
  <2> QED
    BY <2>1, <2>2 DEF WorkerInv
<1>5. ASSUME NEW c \in Call, SlotsWait(c) PROVE WorkerInv'
  <2>1. StoreCurrent'
    <3>1. \/ store' = <<>>
          \/ /\ wstate' = "none" => wstate = "none"
             /\ generation' = generation /\ store' = store
      BY <1>5 DEF SlotsWait, Start, Set, callVars, slotVars, workerVars,
         closeVars
    <3> QED
      BY <3>1, StoreStays DEF WorkerInv
  <2>2. wstate' = "none" => inbox' = <<>> /\ outbox' = <<>>
    BY <1>5 DEF SlotsWait, Start, Set, WorkerInv, callVars, slotVars,
       workerVars, closeVars
  <2> QED
    BY <2>1, <2>2 DEF WorkerInv
<1>6. ASSUME NEW c \in Call, Release(c) PROVE WorkerInv'
  <2>1. StoreCurrent'
    <3>1. \/ store' = <<>>
          \/ /\ wstate' = "none" => wstate = "none"
             /\ generation' = generation /\ store' = store
      BY <1>6 DEF Release, Set, callVars, slotVars, workerVars, closeVars
    <3> QED
      BY <3>1, StoreStays DEF WorkerInv
  <2>2. wstate' = "none" => inbox' = <<>> /\ outbox' = <<>>
    BY <1>6 DEF Release, Set, WorkerInv, callVars, slotVars, workerVars,
       closeVars
  <2> QED
    BY <2>1, <2>2 DEF WorkerInv
<1>7. ASSUME NEW c \in Call, StoreLoad(c) PROVE WorkerInv'
  <2>0. /\ generation' = generation
        /\ wstate' = "none" => wstate = "none" /\ inbox' = inbox /\ outbox' = outbox
        /\ store' = store \/ \E i \in DOMAIN store : store' = Latest(store, store[i], StoreSize)
    BY <1>7, StoreLoadEffect
  <2>1. StoreCurrent'
    <3>1. \A i \in DOMAIN store : store[i] \in Entry /\ wstate # "none" /\ store[i].generation = generation
      BY DEF CacheTypes, WorkerInv, StoreCurrent
    <3> QED
      BY <2>0, <3>1, StoreStays DEF WorkerInv
  <2> QED
    BY <2>0, <2>1 DEF WorkerInv
<1>8. ASSUME NEW c \in Call, StaleCursor(c) PROVE WorkerInv'
  <2>0. /\ generation' = generation /\ wstate' = wstate /\ inbox' = inbox /\ outbox' = outbox
        /\ \E i \in DOMAIN store : store' = Latest(store, store[i], StoreSize)
    BY <1>8 DEF StaleCursor, workerVars
  <2>1. StoreCurrent'
    <3>1. \A i \in DOMAIN store : store[i] \in Entry /\ wstate # "none" /\ store[i].generation = generation
      BY DEF CacheTypes, WorkerInv, StoreCurrent
    <3> QED
      BY <2>0, <3>1, StoreStays DEF WorkerInv
  <2> QED
    BY <2>0, <2>1 DEF WorkerInv
<1>9. ASSUME NEW c \in Call, Boot(c) PROVE WorkerInv'
  <2>1. StoreCurrent'
    <3>1. \/ store' = <<>>
          \/ /\ wstate' = "none" => wstate = "none"
             /\ generation' = generation /\ store' = store
      BY <1>9 DEF Boot, Submit, Over, Set, callVars, slotVars, workerVars,
         closeVars
    <3> QED
      BY <3>1, StoreStays DEF WorkerInv
  <2>2. wstate' = "none" => inbox' = <<>> /\ outbox' = <<>>
    BY <1>9 DEF Boot, Submit, Over, Set, WorkerInv, callVars, slotVars,
       workerVars, closeVars
  <2> QED
    BY <2>1, <2>2 DEF WorkerInv
<1>10. ASSUME NEW c \in Call, Reply(c) PROVE WorkerInv'
  <2>0. /\ generation' = generation /\ wstate' = wstate /\ wstate # "none"
    BY <1>10, ReplyEffect DEF ActiveInv, Active
  <2>1. StoreCurrent'
    <3>1. CASE ~Parsed(c)
      <4>1. store' = store \/ store' = <<>>
        BY <1>10, <3>1, ReplyEffect DEF Settled, Retry
      <4> QED
        BY <2>0, <4>1, StoreStays DEF WorkerInv
    <3>2. CASE Parsed(c)
      <4> DEFINE e == [path |-> path[c], version |-> asked[c], generation |-> generation]
      <4>1. path[c] \in Path
        BY <1>10, ReplyEffect DEF ActiveInv, Active, NameInv
      <4>2. e \in Entry /\ e.generation = generation
        BY <4>1 DEF Entry, NameTypes, FlagTypes
      <4>3. store' = Latest(store, e, StoreSize)
        BY <3>2 DEF Parsed
      <4> QED
        BY <2>0, <4>2, <4>3, StoreStays DEF WorkerInv
    <3> QED
      BY <3>1, <3>2
  <2> QED
    BY <2>0, <2>1 DEF WorkerInv
<1>11. ASSUME NEW c \in Call, Timeout(c) PROVE WorkerInv'
  <2>1. StoreCurrent'
    <3>1. \/ store' = <<>>
          \/ /\ wstate' = "none" => wstate = "none"
             /\ generation' = generation /\ store' = store
      BY <1>11, NoStore DEF Timeout, Abandon, Kill, LoseWorker, Orphaned,
         callVars, slotVars, workerVars, closeVars
    <3> QED
      BY <3>1, StoreStays DEF WorkerInv
  <2>2. wstate' = "none" => inbox' = <<>> /\ outbox' = <<>>
    BY <1>11 DEF Timeout, Abandon, Kill, LoseWorker, Orphaned, WorkerInv,
       callVars, slotVars, workerVars, closeVars
  <2> QED
    BY <2>1, <2>2 DEF WorkerInv
<1>12. ASSUME NEW c \in Call, Terminated(c) PROVE WorkerInv'
  <2>1. StoreCurrent'
    <3>1. \/ store' = <<>>
          \/ /\ wstate' = "none" => wstate = "none"
             /\ generation' = generation /\ store' = store
      BY <1>12 DEF Terminated, Over, Set, callVars, slotVars, workerVars,
         closeVars
    <3> QED
      BY <3>1, StoreStays DEF WorkerInv
  <2>2. wstate' = "none" => inbox' = <<>> /\ outbox' = <<>>
    BY <1>12 DEF Terminated, Over, Set, WorkerInv, callVars, slotVars,
       workerVars, closeVars
  <2> QED
    BY <2>1, <2>2 DEF WorkerInv
<1>13. ASSUME NEW c \in Call, Abort(c) PROVE WorkerInv'
  <2>1. StoreCurrent'
    <3>1. \/ store' = <<>>
          \/ /\ wstate' = "none" => wstate = "none"
             /\ generation' = generation /\ store' = store
      BY <1>13, NoStore DEF Abort, Abandon, Kill, Set, LoseWorker, Orphaned,
         callVars, slotVars, workerVars, closeVars
    <3> QED
      BY <3>1, StoreStays DEF WorkerInv
  <2>2. wstate' = "none" => inbox' = <<>> /\ outbox' = <<>>
    BY <1>13 DEF Abort, Abandon, Kill, Set, LoseWorker, Orphaned, WorkerInv,
       callVars, slotVars, workerVars, closeVars
  <2> QED
    BY <2>1, <2>2 DEF WorkerInv
<1>14. ASSUME Handle PROVE WorkerInv'
  <2>1. wstate = "up" /\ wstate' = wstate /\ generation' = generation /\ store' = store
    BY <1>14, HandleEffect
  <2> QED
    BY <2>1, StoreStays DEF WorkerInv
<1>15. ASSUME WorkerDies PROVE WorkerInv'
  <2>1. StoreCurrent'
    <3>1. \/ store' = <<>>
          \/ /\ wstate' = "none" => wstate = "none"
             /\ generation' = generation /\ store' = store
      BY <1>15 DEF WorkerDies, LoseWorker, Orphaned, callVars, slotVars,
         workerVars, closeVars
    <3> QED
      BY <3>1, StoreStays DEF WorkerInv
  <2>2. wstate' = "none" => inbox' = <<>> /\ outbox' = <<>>
    BY <1>15 DEF WorkerDies, LoseWorker, Orphaned, WorkerInv, callVars,
       slotVars, workerVars, closeVars
  <2> QED
    BY <2>1, <2>2 DEF WorkerInv
<1>16. ASSUME Close PROVE WorkerInv'
  <2>1. StoreCurrent'
    <3>1. \/ store' = <<>>
          \/ /\ wstate' = "none" => wstate = "none"
             /\ generation' = generation /\ store' = store
      BY <1>16 DEF Close, ReleaseRequest, callVars, slotVars, workerVars,
         closeVars
    <3> QED
      BY <3>1, StoreStays DEF WorkerInv
  <2>2. wstate' = "none" => inbox' = <<>> /\ outbox' = <<>>
    BY <1>16 DEF Close, ReleaseRequest, WorkerInv, callVars, slotVars,
       workerVars, closeVars
  <2> QED
    BY <2>1, <2>2 DEF WorkerInv
<1>17. ASSUME ReleaseReply PROVE WorkerInv'
  <2>1. StoreCurrent'
    <3>1. \/ store' = <<>>
          \/ /\ wstate' = "none" => wstate = "none"
             /\ generation' = generation /\ store' = store
      BY <1>17 DEF ReleaseReply, callVars, slotVars, workerVars, closeVars
    <3> QED
      BY <3>1, StoreStays DEF WorkerInv
  <2>2. wstate' = "none" => inbox' = <<>> /\ outbox' = <<>>
    BY <1>17 DEF ReleaseReply, WorkerInv, callVars, slotVars, workerVars,
       closeVars
  <2> QED
    BY <2>1, <2>2 DEF WorkerInv
<1>18. ASSUME CloseKill PROVE WorkerInv'
  <2>1. StoreCurrent'
    <3>1. \/ store' = <<>>
          \/ /\ wstate' = "none" => wstate = "none"
             /\ generation' = generation /\ store' = store
      BY <1>18 DEF CloseKill, LoseWorker, Orphaned, callVars, slotVars,
         workerVars, closeVars
    <3> QED
      BY <3>1, StoreStays DEF WorkerInv
  <2>2. wstate' = "none" => inbox' = <<>> /\ outbox' = <<>>
    BY <1>18 DEF CloseKill, LoseWorker, Orphaned, WorkerInv, callVars,
       slotVars, workerVars, closeVars
  <2> QED
    BY <2>1, <2>2 DEF WorkerInv
<1>19. ASSUME ReleaseTimeout PROVE WorkerInv'
  <2>1. StoreCurrent'
    <3>1. \/ store' = <<>>
          \/ /\ wstate' = "none" => wstate = "none"
             /\ generation' = generation /\ store' = store
      BY <1>19, NoStore DEF ReleaseTimeout, Kill, LoseWorker, Orphaned,
         callVars, slotVars, workerVars, closeVars
    <3> QED
      BY <3>1, StoreStays DEF WorkerInv
  <2>2. wstate' = "none" => inbox' = <<>> /\ outbox' = <<>>
    BY <1>19 DEF ReleaseTimeout, Kill, LoseWorker, Orphaned, WorkerInv,
       callVars, slotVars, workerVars, closeVars
  <2> QED
    BY <2>1, <2>2 DEF WorkerInv
<1>20. ASSUME NEW p \in Path, Edit(p) PROVE WorkerInv'
  <2>1. StoreCurrent'
    <3>1. \/ store' = <<>>
          \/ /\ wstate' = "none" => wstate = "none"
             /\ generation' = generation /\ store' = store
      BY <1>20 DEF Edit, callVars, slotVars, workerVars, closeVars
    <3> QED
      BY <3>1, StoreStays DEF WorkerInv
  <2>2. wstate' = "none" => inbox' = <<>> /\ outbox' = <<>>
    BY <1>20 DEF Edit, WorkerInv, callVars, slotVars, workerVars, closeVars
  <2> QED
    BY <2>1, <2>2 DEF WorkerInv
<1> QED
  BY <1>1, <1>2, <1>3, <1>4, <1>5, <1>6, <1>7, <1>8, <1>9, <1>10, <1>11,
     <1>12, <1>13, <1>14, <1>15, <1>16, <1>17, <1>18, <1>19, <1>20 DEF Next,
     CallStep

-----------------------------------------------------------------------------
(* Two queues whose messages all have different senders. *)
LEMMA ApartEmpty == Apart(<<>>, <<>>)
BY EmptyQueue DEF Apart

LEMMA ApartSwap == ASSUME NEW a, NEW b, Apart(a, b) PROVE Apart(b, a)
BY DEF Apart

LEMMA ApartPost ==
  ASSUME NEW T, NEW U, NEW a \in Seq(T), NEW b \in Seq(U), NEW m \in T, Apart(a, b),
         \A n \in ToSet(a) \cup ToSet(b) : n.by # m.by
  PROVE  Apart(Append(a, m), b)
<1> DEFINE q == Append(a, m)
<1>1. /\ DOMAIN q = 1 .. Len(a) + 1 /\ DOMAIN a = 1 .. Len(a) /\ Len(a) \in Nat
      /\ q[Len(a) + 1] = m /\ \A i \in 1 .. Len(a) : q[i] = a[i] /\ q[i] \in ToSet(a)
  BY DEF ToSet
<1>2. ToSet(q) = ToSet(a) \cup {m}
  BY JoinLast
<1> HIDE DEF q
<1>3. ASSUME NEW i \in DOMAIN q, NEW k \in DOMAIN q, q[i].by = q[k].by PROVE i = k
  <2>1. CASE i \in 1 .. Len(a) /\ k \in 1 .. Len(a)
    BY <1>1, <1>3, <2>1 DEF Apart
  <2>2. CASE i = Len(a) + 1 \/ k = Len(a) + 1
    BY <1>1, <1>3, <2>2
  <2> QED
    BY <1>1, <2>1, <2>2
<1> QED
  BY <1>2, <1>3 DEF Apart, q

LEMMA ApartTake ==
  ASSUME NEW T, NEW U, NEW a \in Seq(T), NEW b \in Seq(U), Apart(a, b), b # <<>>
  PROVE  /\ Apart(a, Tail(b)) /\ ToSet(Tail(b)) \subseteq ToSet(b)
         /\ \A n \in ToSet(a) \cup ToSet(Tail(b)) : n.by # Head(b).by
<1> DEFINE q == Tail(b)
<1>1. /\ DOMAIN q = 1 .. Len(b) - 1 /\ DOMAIN b = 1 .. Len(b) /\ Len(b) \in Nat \ {0}
      /\ Head(b) = b[1] /\ \A i \in 1 .. Len(b) - 1 : q[i] = b[i + 1] /\ i + 1 \in 2 .. Len(b)
  OBVIOUS
<1> HIDE DEF q
<1>2. ToSet(q) \subseteq ToSet(b)
  BY <1>1 DEF ToSet
<1>3. ASSUME NEW i \in DOMAIN q, NEW k \in DOMAIN q, q[i].by = q[k].by PROVE i = k
  <2>1. q[i] = b[i + 1] /\ q[k] = b[k + 1] /\ i + 1 \in DOMAIN b /\ k + 1 \in DOMAIN b
    BY <1>1
  <2>2. i + 1 = k + 1
    BY <1>3, <2>1, Zenon DEF Apart
  <2> QED
    BY <1>1, <2>2
<1>4. Head(b) \in ToSet(b)
  BY <1>1 DEF ToSet
<1>5. \A n \in ToSet(q) : n.by # Head(b).by
  <2>1. ASSUME NEW i \in DOMAIN q, q[i].by = b[1].by PROVE FALSE
    <3>1. q[i] = b[i + 1] /\ i + 1 \in DOMAIN b /\ 1 \in DOMAIN b
      BY <1>1
    <3>2. i + 1 = 1
      BY <2>1, <3>1, Zenon DEF Apart
    <3> QED
      BY <1>1, <3>2
  <2> QED
    BY <1>1, <2>1 DEF ToSet
<1>6. \A n \in ToSet(a) : n.by # Head(b).by
  BY <1>4 DEF Apart
<1>7. Apart(a, q)
  BY <1>2, <1>3 DEF Apart
<1> QED
  BY <1>2, <1>5, <1>6, <1>7 DEF q

(* A step that leaves the calls of all messages but c's as they were. *)
OthersAsk(c) ==
  /\ closed => closed'
  /\ \A d \in Call : d # c /\ mode[d] = "asking" =>
       mode'[d] = "asking" /\ pc'[d] = pc[d] /\ path'[d] = path[d] /\ asked'[d] = asked[d]

LEMMA StillAwaited ==
  ASSUME NEW c, OthersAsk(c), NEW m, m.by # c
  PROVE  /\ RequestOf(m) => RequestOf(m)'
         /\ AnswerTo(m) => AnswerTo(m)'
<1>1. Awaited(m) => Awaited(m)'
  BY DEF Awaited, OthersAsk
<1>2. m.by \in Call /\ mode[m.by] = "asking" => StampOf(m.by)' = StampOf(m.by)
  BY DEF OthersAsk, StampOf
<1> QED
  BY <1>1, <1>2 DEF RequestOf, AnswerTo, Awaited

(* Steps that post nothing and take nothing. *)
LEMMA QuietMessages ==
  ASSUME MsgInv, inbox' = inbox, outbox' = outbox, NEW c, OthersAsk(c),
         \A m \in ToSet(inbox) \cup ToSet(outbox) : m.by # c
  PROVE  MsgInv'
<1>1. \A m \in ToSet(inbox') : RequestOf(m)'
  BY StillAwaited DEF MsgInv
<1>2. \A m \in ToSet(outbox') : AnswerTo(m)'
  BY StillAwaited DEF MsgInv
<1> QED
  BY <1>1, <1>2 DEF MsgInv

LEMMA NoMessages == ASSUME inbox' = <<>>, outbox' = <<>> PROVE MsgInv'
<1>1. ToSet(inbox') = {} /\ ToSet(outbox') = {} /\ Apart(inbox', outbox')
  BY EmptyQueue, ApartEmpty
<1> QED
  BY <1>1 DEF MsgInv

(* A call that does not wait for an answer has no message under way. *)
LEMMA Silent ==
  ASSUME MsgInv, NEW c \in Call, mode[c] # "asking"
  PROVE  \A m \in ToSet(inbox) \cup ToSet(outbox) : m.by # c
BY DEF MsgInv, RequestOf, AnswerTo, Awaited

(* A call without a message posts one. *)
LEMMA PostedMessages ==
  ASSUME MsgInv, BoxTypes, BoxTypes', NEW c \in Call, OthersAsk(c), outbox' = outbox,
         \A m \in ToSet(inbox) \cup ToSet(outbox) : m.by # c,
         Post(c, pc'[c], [path |-> path'[c], version |-> asked'[c]]), mode'[c] = "asking"
  PROVE  MsgInv'
<1>0. PICK n : n = [by |-> c, kind |-> pc'[c], stamp |-> [path |-> path'[c], version |-> asked'[c]]]
  OBVIOUS
<1>1. inbox' = Append(inbox, n) /\ n.by = c
  BY <1>0 DEF Post
<1>2. n \in Request
  <2>1. inbox'[Len(inbox) + 1] = n /\ Len(inbox) + 1 \in DOMAIN inbox'
    BY <1>1 DEF BoxTypes
  <2> QED
    BY <2>1 DEF BoxTypes
<1>3. RequestOf(n)'
  BY <1>0, BoundAssumption DEF RequestOf, Awaited, StampOf
<1>4. Apart(inbox', outbox')
  BY <1>1, <1>2, ApartPost DEF MsgInv, BoxTypes
<1>5. ToSet(inbox') = ToSet(inbox) \cup {n}
  BY <1>1, <1>2, JoinLast DEF BoxTypes
<1>6. \A m \in ToSet(inbox') : RequestOf(m)'
  BY <1>3, <1>5, StillAwaited DEF MsgInv
<1>7. \A m \in ToSet(outbox') : AnswerTo(m)'
  BY StillAwaited DEF MsgInv
<1> QED
  BY <1>4, <1>6, <1>7 DEF MsgInv

(* Every message under way is the one its call waits for. *)
LEMMA MsgInvStep ==
  ASSUME CallTypes, NameTypes, FlagTypes, PoolTypes, CacheTypes, FileTypes, NameInv,
         BoxTypes, BoxTypes', SlotInv, ActiveInv, WorkerInv, MsgInv, [Next]_vars
  PROVE  MsgInv'
<1>1. ASSUME UNCHANGED vars PROVE MsgInv'
  <2>1. UNCHANGED <<inbox, outbox, closed, pc, mode, path, asked>>
    BY <1>1 DEF vars, callVars, slotVars, workerVars, closeVars
  <2> QED
    BY <2>1 DEF MsgInv, RequestOf, AnswerTo, Awaited, StampOf
<1>2. ASSUME Stopped PROVE MsgInv'
  <2>1. UNCHANGED <<inbox, outbox, closed, pc, mode, path, asked>>
    BY <1>2 DEF Stopped, vars, callVars, slotVars, workerVars, closeVars
  <2> QED
    BY <2>1 DEF MsgInv, RequestOf, AnswerTo, Awaited, StampOf
<1>3. ASSUME NEW c \in Call, SlotsRefused(c) PROVE MsgInv'
  <2>1. inbox' = inbox /\ outbox' = outbox /\ OthersAsk(c)
    BY <1>3 DEF SlotsRefused, Set, OthersAsk, SlotInv, ActiveInv, Active,
       CallTypes, callVars, slotVars, workerVars, closeVars
  <2>2. \A m \in ToSet(inbox) \cup ToSet(outbox) : m.by # c
    <3>1. mode[c] # "asking"
      BY <1>3 DEF SlotsRefused, SlotInv
    <3> QED
      BY <3>1, Silent
  <2> QED
    BY <2>1, <2>2, QuietMessages
<1>4. ASSUME NEW c \in Call, SlotsFree(c) PROVE MsgInv'
  <2>1. inbox' = inbox /\ outbox' = outbox /\ OthersAsk(c)
    BY <1>4 DEF SlotsFree, Start, Set, OthersAsk, SlotInv, ActiveInv, Active,
       CallTypes, callVars, slotVars, workerVars, closeVars
  <2>2. \A m \in ToSet(inbox) \cup ToSet(outbox) : m.by # c
    <3>1. mode[c] # "asking"
      BY <1>4 DEF SlotsFree, SlotInv
    <3> QED
      BY <3>1, Silent
  <2> QED
    BY <2>1, <2>2, QuietMessages
<1>5. ASSUME NEW c \in Call, SlotsWait(c) PROVE MsgInv'
  <2>1. inbox' = inbox /\ outbox' = outbox /\ OthersAsk(c)
    BY <1>5 DEF SlotsWait, Start, Set, OthersAsk, SlotInv, ActiveInv, Active,
       CallTypes, callVars, slotVars, workerVars, closeVars
  <2>2. \A m \in ToSet(inbox) \cup ToSet(outbox) : m.by # c
    <3>1. mode[c] # "asking"
      BY <1>5 DEF SlotsWait, SlotInv
    <3> QED
      BY <3>1, Silent
  <2> QED
    BY <2>1, <2>2, QuietMessages
<1>6. ASSUME NEW c \in Call, Release(c) PROVE MsgInv'
  <2>1. mode[c] = "over" /\ mode' = Set(mode, c, "idle") /\ UNCHANGED <<closed, path, asked, inbox, outbox>>
    BY <1>6 DEF Release, closeVars, callVars, workerVars
  <2>2. \A d \in Call : mode[d] = "asking" => pc'[d] = pc[d]
    <3>1. CASE waiting = <<>>
      BY <1>6, <2>1, <3>1 DEF Release, Set, CallTypes
    <3>2. CASE waiting # <<>>
      <4>1. Head(waiting) \in Call /\ mode[Head(waiting)] = "idle"
        BY <3>2, LeaveFirst DEF SlotInv, PoolTypes
      <4> QED
        BY <1>6, <2>1, <3>2, <4>1 DEF Release, CallTypes
    <3> QED
      BY <3>1, <3>2
  <2>3. OthersAsk(c)
    BY <2>1, <2>2 DEF OthersAsk, Set, CallTypes
  <2> QED
    BY <2>1, <2>3, Silent, QuietMessages
<1>7. ASSUME NEW c \in Call, StoreLoad(c) PROVE MsgInv'
  <2>0. PICK p \in Path, k \in {"parse", "ask"}, v \in Version :
          /\ path' = Set(path, c, p) /\ asked' = Set(asked, c, v) /\ pc' = Set(pc, c, k)
          /\ k = "ask" => store # <<>>
          /\ \/ k = "parse" /\ store' = store
             \/ \E i \in DOMAIN store : store' = Latest(store, store[i], StoreSize)
          /\ \/ mode' = Set(mode, c, "over") /\ outcome' = Set(outcome, c, "resource_limit")
                /\ UNCHANGED <<inbox, wstate, docs>>
             \/ ~closed /\ wstate = "none" /\ mode' = Set(mode, c, "boot") /\ wstate' = "booting"
                /\ docs' = <<>> /\ UNCHANGED <<inbox, outcome>>
             \/ ~closed /\ wstate # "none" /\ mode' = Set(mode, c, "asking")
                /\ Post(c, k, [path |-> p, version |-> v]) /\ UNCHANGED <<wstate, docs, outcome>>
    BY <1>7, StoreLoadEffect, Zenon
  <2>1. /\ path' = Set(path, c, p) /\ asked' = Set(asked, c, v) /\ pc' = Set(pc, c, k)
        /\ \/ mode' = Set(mode, c, "over") /\ inbox' = inbox
           \/ mode' = Set(mode, c, "boot") /\ inbox' = inbox
           \/ mode' = Set(mode, c, "asking") /\ Post(c, k, [path |-> p, version |-> v])
    BY <2>0
  <2>2. outbox' = outbox /\ closed' = closed /\ mode[c] = "idle"
    BY <1>7, StoreLoadEffect
  <2>3. OthersAsk(c)
    BY <2>1, <2>2 DEF OthersAsk, Set, CallTypes, NameTypes
  <2>4. \A m \in ToSet(inbox) \cup ToSet(outbox) : m.by # c
    BY <2>2, Silent
  <2>5. CASE inbox' = inbox
    BY <2>2, <2>3, <2>4, <2>5, QuietMessages
  <2>6. CASE mode' = Set(mode, c, "asking") /\ Post(c, k, [path |-> p, version |-> v])
    <3>1. pc'[c] = k /\ mode'[c] = "asking" /\ path'[c] = p /\ asked'[c] = v
      BY <2>1, <2>6 DEF Set, CallTypes, NameTypes
    <3> QED
      BY <2>2, <2>3, <2>4, <2>6, <3>1, PostedMessages
  <2> QED
    BY <2>1, <2>5, <2>6
<1>8. ASSUME NEW c \in Call, StaleCursor(c) PROVE MsgInv'
  <2>1. inbox' = inbox /\ outbox' = outbox /\ OthersAsk(c)
    BY <1>8 DEF StaleCursor, Over, Set, OthersAsk, SlotInv, ActiveInv, Active,
       CallTypes, NameTypes, callVars, slotVars, workerVars, closeVars
  <2>2. \A m \in ToSet(inbox) \cup ToSet(outbox) : m.by # c
    <3>1. mode[c] # "asking"
      BY <1>8 DEF StaleCursor, SlotInv
    <3> QED
      BY <3>1, Silent
  <2> QED
    BY <2>1, <2>2, QuietMessages
<1>9. ASSUME NEW c \in Call, Boot(c) PROVE MsgInv'
  <2>1. /\ mode[c] = "boot" /\ UNCHANGED <<pc, path, asked, closed, outbox>>
        /\ \/ mode' = Set(mode, c, "over") /\ inbox' = inbox
           \/ mode' = Set(mode, c, "asking") /\ Post(c, pc[c], StampOf(c))
    BY <1>9 DEF Boot, Submit, Over, Post, StampOf, callVars, closeVars
  <2>2. OthersAsk(c)
    BY <2>1 DEF OthersAsk, Set, CallTypes
  <2>3. \A m \in ToSet(inbox) \cup ToSet(outbox) : m.by # c
    BY <2>1, Silent
  <2>4. CASE inbox' = inbox
    BY <2>1, <2>2, <2>3, <2>4, QuietMessages
  <2>5. CASE mode' = Set(mode, c, "asking") /\ Post(c, pc[c], StampOf(c))
    <3>1. pc'[c] = pc[c] /\ mode'[c] = "asking" /\ StampOf(c) = [path |-> path'[c], version |-> asked'[c]]
      BY <2>1, <2>5 DEF Set, CallTypes, StampOf
    <3> QED
      BY <2>1, <2>2, <2>3, <2>5, <3>1, PostedMessages
  <2> QED
    BY <2>1, <2>4, <2>5
<1>10. ASSUME NEW c \in Call, Reply(c) PROVE MsgInv'
  <2>1. /\ outbox # <<>> /\ mode[c] = "asking" /\ Head(outbox).by = c /\ outbox' = Tail(outbox)
        /\ path' = path /\ asked' = asked /\ closed' = closed
    BY <1>10, ReplyEffect
  <2>2. OthersAsk(c)
    BY <1>10, <2>1, ReplyOthers DEF OthersAsk
  <2>3. /\ Apart(inbox, outbox') /\ ToSet(outbox') \subseteq ToSet(outbox)
        /\ \A m \in ToSet(inbox) \cup ToSet(outbox') : m.by # c
    BY <2>1, ApartTake DEF MsgInv, BoxTypes
  <2>4. \A m \in ToSet(outbox') : AnswerTo(m)'
    BY <2>2, <2>3, StillAwaited DEF MsgInv
  <2>5. \A m \in ToSet(inbox) : RequestOf(m)'
    BY <2>2, <2>3, StillAwaited DEF MsgInv
  <2>6. CASE inbox' = inbox
    BY <2>3, <2>4, <2>5, <2>6 DEF MsgInv
  <2>7. CASE inbox' # inbox
    <3>0. PICK n : n = [by |-> c, kind |-> "ask", stamp |-> [path |-> path[c], version |-> asked[c]]]
      OBVIOUS
    <3>1. pc' = Set(pc, c, "ask") /\ mode' = Set(mode, c, "asking") /\ inbox' = Append(inbox, n)
      BY <1>10, <2>7, <3>0, ReplyEffect DEF Settled, Retry, Parsed, Submit, Over
    <3>2. RequestOf(n)'
      BY <2>1, <3>0, <3>1, BoundAssumption DEF RequestOf, Awaited, StampOf, Set, CallTypes
    <3>3. n \in Request /\ n.by = c
      <4>1. inbox'[Len(inbox) + 1] = n /\ Len(inbox) + 1 \in DOMAIN inbox'
        BY <3>1 DEF BoxTypes
      <4> QED
        BY <3>0, <4>1 DEF BoxTypes
    <3>4. Apart(inbox', outbox')
      BY <2>3, <3>1, <3>3, ApartPost DEF BoxTypes
    <3>5. ToSet(inbox') = ToSet(inbox) \cup {n}
      BY <3>1, <3>3, JoinLast DEF BoxTypes
    <3> QED
      BY <2>4, <2>5, <3>2, <3>4, <3>5 DEF MsgInv
  <2> QED
    BY <2>6, <2>7
<1>11. ASSUME NEW c \in Call, Timeout(c) PROVE MsgInv'
  <2>1. inbox' = <<>> /\ outbox' = <<>>
    BY <1>11, NoStore DEF Timeout, Abandon, Kill, LoseWorker, Orphaned,
       workerVars
  <2> QED
    BY <2>1, NoMessages
<1>12. ASSUME NEW c \in Call, Terminated(c) PROVE MsgInv'
  <2>1. inbox' = inbox /\ outbox' = outbox /\ OthersAsk(c)
    BY <1>12 DEF Terminated, Over, Set, OthersAsk, SlotInv, ActiveInv, Active,
       CallTypes, callVars, slotVars, workerVars, closeVars
  <2>2. \A m \in ToSet(inbox) \cup ToSet(outbox) : m.by # c
    <3>1. mode[c] # "asking"
      BY <1>12 DEF Terminated, SlotInv
    <3> QED
      BY <3>1, Silent
  <2> QED
    BY <2>1, <2>2, QuietMessages
<1>13. ASSUME NEW c \in Call, Abort(c) PROVE MsgInv'
  <2>1. CASE pc[c] = "ask" /\ mode[c] \in {"asking", "orphan"}
    <3>1. inbox' = <<>> /\ outbox' = <<>>
      BY <1>13, <2>1, NoStore DEF Abort, Abandon, Kill, Set, LoseWorker,
         Orphaned, workerVars
    <3> QED
      BY <3>1, NoMessages
  <2>2. CASE ~(pc[c] = "ask" /\ mode[c] \in {"asking", "orphan"})
    <3>1. UNCHANGED <<inbox, outbox, closed, pc, mode, path, asked>>
      BY <1>13, <2>2 DEF Abort, workerVars, closeVars
    <3> QED
      BY <3>1 DEF MsgInv, RequestOf, AnswerTo, Awaited, StampOf
  <2> QED
    BY <2>1, <2>2
<1>14. ASSUME Handle PROVE MsgInv'
  <2> DEFINE h == Head(inbox)
  <2>1. /\ inbox # <<>> /\ inbox' = Tail(inbox) /\ h \in Request /\ h \in ToSet(inbox)
        /\ UNCHANGED <<pc, mode, path, asked, closed>>
    BY <1>14, HandleEffect, LeaveFirst DEF BoxTypes
  <2>2. PICK r \in Result :
          /\ outbox' = Append(outbox, [by |-> h.by, kind |-> h.kind, result |-> r])
          /\ r = "unknown_residency" => h.kind = "ask"
    BY <1>14, HandleEffect
  <2> DEFINE n == [by |-> h.by, kind |-> h.kind, result |-> r]
  <2>3. n \in Answered /\ n.by = h.by /\ n.kind = h.kind /\ n.result = r
    BY <2>1 DEF Request, Answered
  <2> HIDE DEF n, h
  <2>4. Apart(outbox, inbox)
    BY ApartSwap DEF MsgInv
  <2>5. /\ Apart(outbox, inbox') /\ ToSet(inbox') \subseteq ToSet(inbox)
        /\ \A m \in ToSet(outbox) \cup ToSet(inbox') : m.by # n.by
    BY <2>1, <2>3, <2>4, ApartTake DEF BoxTypes, h
  <2>6. outbox' = Append(outbox, n)
    BY <2>2 DEF n
  <2>7. Apart(outbox', inbox')
    BY <2>3, <2>5, <2>6, ApartPost DEF BoxTypes
  <2>8. Apart(inbox', outbox')
    BY <2>7, ApartSwap
  <2>9. ToSet(outbox') = ToSet(outbox) \cup {n}
    BY <2>3, <2>6, JoinLast DEF BoxTypes
  <2>10. AnswerTo(n)
    BY <2>1, <2>2, <2>3 DEF MsgInv, RequestOf, AnswerTo, Awaited
  <2>11. \A m : (RequestOf(m) => RequestOf(m)') /\ (AnswerTo(m) => AnswerTo(m)')
    BY <2>1 DEF RequestOf, AnswerTo, Awaited, StampOf
  <2> QED
    BY <2>5, <2>8, <2>9, <2>10, <2>11 DEF MsgInv
<1>15. ASSUME WorkerDies PROVE MsgInv'
  <2>1. inbox' = <<>> /\ outbox' = <<>>
    BY <1>15, NoStore DEF WorkerDies, LoseWorker, Orphaned, workerVars
  <2> QED
    BY <2>1, NoMessages
<1>16. ASSUME Close PROVE MsgInv'
  <2>1. /\ closed' /\ ~closed /\ UNCHANGED <<mode, path, asked, outbox>>
        /\ pc' = [d \in Call |-> IF pc[d] = "wait" THEN "load" ELSE pc[d]]
        /\ inbox' = inbox \/ inbox' = Append(inbox, ReleaseRequest)
    BY <1>16 DEF Close, callVars
  <2>2. OthersAsk(Closer)
    BY <2>1 DEF OthersAsk, SlotInv, CallTypes
  <2>3. \A m \in ToSet(inbox) \cup ToSet(outbox) : m.by # Closer
    BY <2>1 DEF MsgInv, RequestOf, AnswerTo, Awaited
  <2>4. CASE inbox' = inbox
    BY <2>1, <2>2, <2>3, <2>4, QuietMessages
  <2>5. CASE inbox' = Append(inbox, ReleaseRequest)
    <3>1. ReleaseRequest \in Request /\ ReleaseRequest.by = Closer
      <4>1. inbox'[Len(inbox) + 1] = ReleaseRequest /\ Len(inbox) + 1 \in DOMAIN inbox'
        BY <2>5 DEF BoxTypes
      <4>2. ReleaseRequest \in Request
        BY <4>1 DEF BoxTypes
      <4> QED
        BY <4>2 DEF ReleaseRequest
    <3>2. RequestOf(ReleaseRequest)'
      BY <2>1, <3>1, BoundAssumption DEF RequestOf, Awaited
    <3>3. Apart(inbox', outbox')
      BY <2>1, <2>3, <2>5, <3>1, ApartPost DEF BoxTypes, MsgInv
    <3>4. ToSet(inbox') = ToSet(inbox) \cup {ReleaseRequest}
      BY <2>5, <3>1, JoinLast DEF BoxTypes
    <3>5. \A m \in ToSet(inbox) : RequestOf(m)'
      BY <2>2, <2>3, StillAwaited DEF MsgInv
    <3>6. \A m \in ToSet(outbox') : AnswerTo(m)'
      BY <2>1, <2>2, <2>3, StillAwaited DEF MsgInv
    <3> QED
      BY <3>2, <3>3, <3>4, <3>5, <3>6 DEF MsgInv
  <2> QED
    BY <2>1, <2>4, <2>5
<1>17. ASSUME ReleaseReply PROVE MsgInv'
  <2>1. outbox # <<>> /\ outbox' = Tail(outbox) /\ UNCHANGED <<pc, mode, path, asked, closed, inbox>>
    BY <1>17 DEF ReleaseReply, callVars
  <2>2. Apart(inbox', outbox') /\ ToSet(outbox') \subseteq ToSet(outbox)
    BY <2>1, ApartTake DEF MsgInv, BoxTypes
  <2>3. \A m : (RequestOf(m) => RequestOf(m)') /\ (AnswerTo(m) => AnswerTo(m)')
    BY <2>1 DEF RequestOf, AnswerTo, Awaited, StampOf
  <2> QED
    BY <2>1, <2>2, <2>3 DEF MsgInv
<1>18. ASSUME CloseKill PROVE MsgInv'
  <2>1. inbox' = <<>> /\ outbox' = <<>>
    BY <1>18, NoStore DEF CloseKill, LoseWorker, Orphaned, workerVars
  <2> QED
    BY <2>1, NoMessages
<1>19. ASSUME ReleaseTimeout PROVE MsgInv'
  <2>1. inbox' = <<>> /\ outbox' = <<>>
    BY <1>19, NoStore DEF ReleaseTimeout, Kill, LoseWorker, Orphaned,
       workerVars
  <2> QED
    BY <2>1, NoMessages
<1>20. ASSUME NEW p \in Path, Edit(p) PROVE MsgInv'
  <2>1. UNCHANGED <<inbox, outbox, closed, pc, mode, path, asked>>
    BY <1>20 DEF Edit, callVars, slotVars, workerVars, closeVars
  <2> QED
    BY <2>1 DEF MsgInv, RequestOf, AnswerTo, Awaited, StampOf
<1> QED
  BY <1>1, <1>2, <1>3, <1>4, <1>5, <1>6, <1>7, <1>8, <1>9, <1>10, <1>11,
     <1>12, <1>13, <1>14, <1>15, <1>16, <1>17, <1>18, <1>19, <1>20 DEF Next,
     CallStep

-----------------------------------------------------------------------------
(* While the pool is open, a call that reloads is alone inside. *)
LEMMA SameAlone ==
  ASSUME CallTypes, SlotInv, TriedInv, NEW c \in Call, Same(c)
  PROVE  ~closed /\ \A d \in Call : d # c => pc[d] \in {"new", "wait"} /\ ~Same(d)
<1>1. c \in Inside /\ ~closed
  BY InsideIs DEF Same, TriedInv
<1>2. \A d \in Call : d # c => d \notin Inside
  BY <1>1 DEF SlotInv
<1>3. \A d \in Call : pc[d] \in {"new", "wait"} => ~Same(d)
  BY DEF Same, TriedInv
<1> QED
  BY <1>1, <1>2, <1>3, InsideIs

(* What a reloading call relies on. *)
Found(c) ==
  /\ pc[c] = "load" => store = <<>>
  /\ \A m \in ToSet(inbox) : m.by = c /\ m.kind = "ask" => StampOf(c) \in ToSet(docs)
  /\ \A m \in ToSet(outbox) : m.by = c =>
       /\ m.kind = "ask" => m.result # "unknown_residency"
       /\ m.kind = "parse" /\ m.result = "ok" => StampOf(c) \in ToSet(docs)

LEMMA TriedParts ==
  TriedInv <=> /\ \A c \in Call : generation >= startGen[c] /\ (pc[c] = "wait" => ~tried[c])
               /\ \A c \in Call : Same(c) => Found(c)
BY DEF TriedInv, Found

(* Generations only move forward, and a call that waits has lost nothing. *)
Forward == \A c \in Call : generation >= startGen[c] /\ (pc[c] = "wait" => ~tried[c])
LEMMA ForwardStep ==
  ASSUME CallTypes, FlagTypes, PoolTypes, FileTypes, NameInv, BoxTypes, ActiveInv,
         Forward, [Next]_vars
  PROVE  Forward'
<1>1. ASSUME UNCHANGED vars PROVE Forward'
  BY <1>1 DEF vars, callVars, slotVars, workerVars, closeVars, Forward,
     CallTypes, FlagTypes
<1>2. ASSUME Stopped PROVE Forward'
  BY <1>2 DEF Stopped, vars, callVars, slotVars, workerVars, closeVars,
     Forward, CallTypes, FlagTypes
<1>3. ASSUME NEW c \in Call, SlotsRefused(c) PROVE Forward'
  BY <1>3 DEF SlotsRefused, Set, callVars, slotVars, workerVars, closeVars,
     Forward, CallTypes, FlagTypes
<1>4. ASSUME NEW c \in Call, SlotsFree(c) PROVE Forward'
  BY <1>4 DEF SlotsFree, Start, Set, callVars, slotVars, workerVars,
     closeVars, Forward, CallTypes, FlagTypes
<1>5. ASSUME NEW c \in Call, SlotsWait(c) PROVE Forward'
  BY <1>5 DEF SlotsWait, Start, Set, callVars, slotVars, workerVars,
     closeVars, Forward, CallTypes, FlagTypes
<1>6. ASSUME NEW c \in Call, Release(c) PROVE Forward'
  <2>1. UNCHANGED <<tried, startGen, generation>>
    BY <1>6 DEF Release, callVars
  <2>2. \A d \in Call : pc'[d] = "wait" => pc[d] = "wait"
    <3>1. CASE waiting = <<>>
      BY <1>6, <3>1 DEF Release, Set, CallTypes
    <3>2. CASE waiting # <<>>
      BY <1>6, <3>2, LeaveFirst DEF Release, CallTypes, PoolTypes
    <3> QED
      BY <3>1, <3>2
  <2> QED
    BY <2>1, <2>2 DEF Forward
<1>7. ASSUME NEW c \in Call, StoreLoad(c) PROVE Forward'
  <2>1. PICK k \in {"parse", "ask"} : pc' = Set(pc, c, k) /\ UNCHANGED <<tried, startGen, generation>>
    BY <1>7, StoreLoadEffect
  <2> QED
    BY <2>1 DEF Forward, Set, CallTypes
<1>8. ASSUME NEW c \in Call, StaleCursor(c) PROVE Forward'
  BY <1>8 DEF StaleCursor, Over, Set, callVars, slotVars, workerVars,
     closeVars, Forward, CallTypes, FlagTypes
<1>9. ASSUME NEW c \in Call, Boot(c) PROVE Forward'
  BY <1>9 DEF Boot, Submit, Over, Set, callVars, slotVars, workerVars,
     closeVars, Forward, CallTypes, FlagTypes
<1>10. ASSUME NEW c \in Call, Reply(c) PROVE Forward'
  <2>1. UNCHANGED <<startGen, generation>> /\ pc'[c] # "wait"
    BY <1>10, ReplyEffect, ReplyOthers DEF ActiveInv, Active
  <2> QED
    BY <1>10, <2>1, ReplyOthers DEF Forward
<1>11. ASSUME NEW c \in Call, Timeout(c) PROVE Forward'
  <2>1. UNCHANGED <<tried, startGen>> /\ (generation' = generation \/ generation' = generation + 1)
    BY <1>11 DEF Timeout, Abandon, Kill, LoseWorker, Orphaned, callVars
  <2>2. \A d \in Call : pc'[d] = "wait" => pc[d] = "wait"
    BY <1>11 DEF Timeout, Abandon, Kill, LoseWorker, Orphaned, CallTypes,
       callVars, slotVars, workerVars, closeVars
  <2> QED
    BY <2>1, <2>2 DEF Forward, FlagTypes
<1>12. ASSUME NEW c \in Call, Terminated(c) PROVE Forward'
  BY <1>12 DEF Terminated, Over, Set, callVars, slotVars, workerVars,
     closeVars, Forward, CallTypes, FlagTypes
<1>13. ASSUME NEW c \in Call, Abort(c) PROVE Forward'
  <2>1. UNCHANGED <<tried, startGen>> /\ (generation' = generation \/ generation' = generation + 1)
    BY <1>13 DEF Abort, Abandon, Kill, Set, LoseWorker, Orphaned, callVars
  <2>2. \A d \in Call : pc'[d] = "wait" => pc[d] = "wait"
    BY <1>13 DEF Abort, Abandon, Kill, Set, LoseWorker, Orphaned, CallTypes,
       callVars, slotVars, workerVars, closeVars
  <2> QED
    BY <2>1, <2>2 DEF Forward, FlagTypes
<1>14. ASSUME Handle PROVE Forward'
  BY <1>14, HandleEffect DEF Forward
<1>15. ASSUME WorkerDies PROVE Forward'
  <2>1. UNCHANGED <<tried, startGen>> /\ (generation' = generation \/ generation' = generation + 1)
    BY <1>15 DEF WorkerDies, LoseWorker, Orphaned, callVars
  <2>2. \A d \in Call : pc'[d] = "wait" => pc[d] = "wait"
    BY <1>15 DEF WorkerDies, LoseWorker, Orphaned, CallTypes, callVars,
       slotVars, workerVars, closeVars
  <2> QED
    BY <2>1, <2>2 DEF Forward, FlagTypes
<1>16. ASSUME Close PROVE Forward'
  <2>1. UNCHANGED <<tried, startGen>> /\ (generation' = generation \/ generation' = generation + 1)
    BY <1>16 DEF Close, ReleaseRequest, callVars
  <2>2. \A d \in Call : pc'[d] = "wait" => pc[d] = "wait"
    BY <1>16 DEF Close, ReleaseRequest, CallTypes, callVars, slotVars,
       workerVars, closeVars
  <2> QED
    BY <2>1, <2>2 DEF Forward, FlagTypes
<1>17. ASSUME ReleaseReply PROVE Forward'
  BY <1>17 DEF ReleaseReply, callVars, slotVars, workerVars, closeVars,
     Forward, CallTypes, FlagTypes
<1>18. ASSUME CloseKill PROVE Forward'
  <2>1. UNCHANGED <<tried, startGen>> /\ (generation' = generation \/ generation' = generation + 1)
    BY <1>18 DEF CloseKill, LoseWorker, Orphaned, callVars
  <2>2. \A d \in Call : pc'[d] = "wait" => pc[d] = "wait"
    BY <1>18 DEF CloseKill, LoseWorker, Orphaned, CallTypes, callVars,
       slotVars, workerVars, closeVars
  <2> QED
    BY <2>1, <2>2 DEF Forward, FlagTypes
<1>19. ASSUME ReleaseTimeout PROVE Forward'
  <2>1. UNCHANGED <<tried, startGen>> /\ (generation' = generation \/ generation' = generation + 1)
    BY <1>19 DEF ReleaseTimeout, Kill, LoseWorker, Orphaned, callVars
  <2>2. \A d \in Call : pc'[d] = "wait" => pc[d] = "wait"
    BY <1>19 DEF ReleaseTimeout, Kill, LoseWorker, Orphaned, CallTypes,
       callVars, slotVars, workerVars, closeVars
  <2> QED
    BY <2>1, <2>2 DEF Forward, FlagTypes
<1>20. ASSUME NEW p \in Path, Edit(p) PROVE Forward'
  BY <1>20 DEF Edit, callVars, slotVars, workerVars, closeVars, Forward,
     CallTypes, FlagTypes
<1> QED
  BY <1>1, <1>2, <1>3, <1>4, <1>5, <1>6, <1>7, <1>8, <1>9, <1>10, <1>11,
     <1>12, <1>13, <1>14, <1>15, <1>16, <1>17, <1>18, <1>19, <1>20 DEF Next,
     CallStep

(* A new generation is nobody's own. *)
LEMMA MovedOn ==
  ASSUME FlagTypes, Forward, NEW d \in Call, Same(d)', generation' = generation + 1,
         startGen' = startGen
  PROVE  FALSE
<1>1. generation + 1 = startGen[d]
  BY DEF Same
<1>2. generation \in Nat /\ startGen[d] \in Nat /\ generation >= startGen[d]
  BY DEF FlagTypes, Forward
<1> QED
  BY <1>1, <1>2

(* Nothing a reloading call relies on moves when none of it does. *)
LEMMA QuietFound ==
  ASSUME NEW d, Found(d), UNCHANGED <<store, inbox, outbox, docs>>, pc'[d] = pc[d],
         path'[d] = path[d], asked'[d] = asked[d]
  PROVE  Found(d)'
BY DEF Found, StampOf

(* A call that reloads finds what it parsed. *)
LEMMA FoundStep ==
  ASSUME CallTypes, NameTypes, FlagTypes, PoolTypes, CacheTypes, FileTypes, NameInv,
         BoxTypes, SlotInv, ActiveInv, WorkerInv, MsgInv, Forward, TriedInv, [Next]_vars
  PROVE  \A d \in Call : Same(d)' => Found(d)'
<1> SUFFICES ASSUME NEW d \in Call, Same(d)' PROVE Found(d)'
  OBVIOUS
<1>1. ASSUME UNCHANGED vars PROVE Found(d)'
  <2>1. UNCHANGED <<pc, tried, closed, generation, startGen, store, inbox, outbox, docs, path, asked>>
    BY <1>1 DEF vars, callVars, slotVars, workerVars, closeVars
  <2>2. Same(d) /\ Found(d)
    BY <2>1, TriedParts DEF Same
  <2> QED
    BY <2>1, <2>2, QuietFound
<1>2. ASSUME Stopped PROVE Found(d)'
  <2>1. UNCHANGED <<pc, tried, closed, generation, startGen, store, inbox, outbox, docs, path, asked>>
    BY <1>2 DEF Stopped, vars, callVars, slotVars, workerVars, closeVars
  <2>2. Same(d) /\ Found(d)
    BY <2>1, TriedParts DEF Same
  <2> QED
    BY <2>1, <2>2, QuietFound
<1>3. ASSUME NEW c \in Call, SlotsRefused(c) PROVE Found(d)'
  <2>1. UNCHANGED <<pc, tried, closed, generation, startGen, store, inbox, outbox, docs, path, asked>>
    BY <1>3 DEF SlotsRefused, Set, callVars, slotVars, workerVars, closeVars
  <2>2. Same(d) /\ Found(d)
    BY <2>1, TriedParts DEF Same
  <2> QED
    BY <2>1, <2>2, QuietFound
<1>4. ASSUME NEW c \in Call, SlotsFree(c) PROVE Found(d)'
  <2>1. /\ pc' = Set(pc, c, "load") /\ tried' = Set(tried, c, FALSE)
        /\ startGen' = Set(startGen, c, generation)
        /\ UNCHANGED <<closed, generation, store, inbox, outbox, docs, path, asked>>
    BY <1>4 DEF SlotsFree, Start, Set, closeVars, workerVars
  <2>2. d # c
    BY <2>1 DEF Same, Set, FlagTypes
  <2>3. pc'[d] = pc[d] /\ tried'[d] = tried[d] /\ startGen'[d] = startGen[d]
    BY <2>1, <2>2 DEF Set, FlagTypes, CallTypes
  <2>4. Same(d) /\ Found(d)
    BY <2>1, <2>3, TriedParts DEF Same
  <2> QED
    BY <2>1, <2>3, <2>4, QuietFound
<1>5. ASSUME NEW c \in Call, SlotsWait(c) PROVE Found(d)'
  <2>1. /\ pc' = Set(pc, c, "wait") /\ tried' = Set(tried, c, FALSE)
        /\ startGen' = Set(startGen, c, generation)
        /\ UNCHANGED <<closed, generation, store, inbox, outbox, docs, path, asked>>
    BY <1>5 DEF SlotsWait, Start, Set, closeVars, workerVars
  <2>2. d # c
    BY <2>1 DEF Same, Set, FlagTypes
  <2>3. pc'[d] = pc[d] /\ tried'[d] = tried[d] /\ startGen'[d] = startGen[d]
    BY <2>1, <2>2 DEF Set, FlagTypes, CallTypes
  <2>4. Same(d) /\ Found(d)
    BY <2>1, <2>3, TriedParts DEF Same
  <2> QED
    BY <2>1, <2>3, <2>4, QuietFound
<1>6. ASSUME NEW c \in Call, Release(c) PROVE Found(d)'
  <2>1. UNCHANGED <<closed, generation, store, inbox, outbox, docs, path, asked, tried, startGen>>
    BY <1>6 DEF Release, closeVars, workerVars, callVars
  <2>2. pc'[d] = pc[d] \/ pc'[d] = "new" \/ pc[d] = "wait"
    <3>1. CASE waiting = <<>>
      BY <1>6, <3>1 DEF Release, Set, CallTypes
    <3>2. CASE waiting # <<>>
      <4>1. Head(waiting) \in Call /\ pc[Head(waiting)] = "wait"
        BY <3>2, LeaveFirst DEF SlotInv, PoolTypes
      <4> QED
        BY <1>6, <3>2, <4>1 DEF Release, CallTypes
    <3> QED
      BY <3>1, <3>2
  <2>3. pc'[d] = pc[d] /\ pc[d] # "new"
    <3>1. tried[d] /\ pc'[d] # "new"
      BY <2>1 DEF Same
    <3> QED
      BY <2>2, <3>1 DEF Forward
  <2>4. Same(d) /\ Found(d)
    BY <2>1, <2>3, TriedParts DEF Same
  <2> QED
    BY <2>1, <2>3, <2>4, QuietFound
<1>7. ASSUME NEW c \in Call, StoreLoad(c) PROVE Found(d)'
  <2>1. PICK p \in Path, k \in {"parse", "ask"}, v \in Version :
          /\ pc' = Set(pc, c, k) /\ (k = "ask" => store # <<>>)
          /\ \/ inbox' = inbox
             \/ Post(c, k, [path |-> p, version |-> v])
    BY <1>7, StoreLoadEffect, Zenon
  <2>2. pc[c] = "load" /\ mode[c] = "idle" /\ UNCHANGED <<outbox, tried, startGen, closed, generation>>
    BY <1>7, StoreLoadEffect
  <2>3. d = c
    <3>1. \A b \in Call : b # c => pc'[b] = pc[b] /\ tried'[b] = tried[b]
      BY <2>1, <2>2 DEF Set, CallTypes
    <3>2. pc[c] \notin {"new", "wait"} /\ UNCHANGED <<closed, generation, startGen>>
      BY <2>2
    <3>3. d # c => Same(d)
      BY <3>1, <3>2 DEF Same
    <3> QED
      BY <3>2, <3>3, SameAlone
  <2>4. Same(c) /\ store = <<>>
    BY <2>2, <2>3 DEF Same, TriedInv
  <2>5. k = "parse" /\ pc'[c] = "parse"
    BY <2>1, <2>4 DEF Set, CallTypes
  <2>6. \A m \in ToSet(inbox) \cup ToSet(outbox) : m.by # c
    BY <2>2, Silent
  <2>7. \A m \in ToSet(inbox') : m.by = c => m.kind = "parse"
    <3>1. CASE inbox' = inbox
      BY <2>6, <3>1
    <3>2. CASE Post(c, k, [path |-> p, version |-> v])
      <4>0. PICK n : n = [by |-> c, kind |-> "parse", stamp |-> [path |-> p, version |-> v]]
        OBVIOUS
      <4>1. inbox' = Append(inbox, n)
        BY <2>5, <3>2, <4>0 DEF Post
      <4>2. n \in Request
        BY <4>0 DEF Request, Kind, Stamp
      <4>3. ToSet(inbox') = ToSet(inbox) \cup {n}
        BY <4>1, <4>2, JoinLast DEF BoxTypes
      <4> QED
        BY <2>6, <4>0, <4>3
    <3> QED
      BY <2>1, <3>1, <3>2
  <2> QED
    BY <2>2, <2>3, <2>5, <2>6, <2>7 DEF Found
<1>8. ASSUME NEW c \in Call, StaleCursor(c) PROVE Found(d)'
  <2>1. pc[c] = "load" /\ ~tried[c] /\ UNCHANGED <<pc, tried, startGen, closed, generation>>
    BY <1>8 DEF StaleCursor, closeVars
  <2>2. d = c
    <3>1. \A b \in Call : b # c => pc'[b] = pc[b] /\ tried'[b] = tried[b]
      BY <2>1
    <3>2. pc[c] \notin {"new", "wait"} /\ UNCHANGED <<closed, generation, startGen>>
      BY <2>1
    <3>3. d # c => Same(d)
      BY <3>1, <3>2 DEF Same
    <3> QED
      BY <3>2, <3>3, SameAlone
  <2> QED
    BY <2>1, <2>2 DEF Same
<1>9. ASSUME NEW c \in Call, Boot(c) PROVE Found(d)'
  <2>1. /\ mode[c] = "boot" /\ UNCHANGED <<pc, tried, startGen, closed, generation, outbox>>
        /\ inbox' = inbox \/ Post(c, pc[c], StampOf(c))
    BY <1>9 DEF Boot, Submit, Post, StampOf, callVars, closeVars
  <2>2. pc[c] = "parse"
    BY <2>1 DEF ActiveInv
  <2>3. d = c
    <3>1. \A b \in Call : b # c => pc'[b] = pc[b] /\ tried'[b] = tried[b]
      BY <2>1
    <3>2. pc[c] \notin {"new", "wait"} /\ UNCHANGED <<closed, generation, startGen>>
      BY <2>1, <2>2
    <3>3. d # c => Same(d)
      BY <3>1, <3>2 DEF Same
    <3> QED
      BY <3>2, <3>3, SameAlone
  <2>4. \A m \in ToSet(inbox) \cup ToSet(outbox) : m.by # c
    BY <2>1, Silent
  <2>5. \A m \in ToSet(inbox') : m.by = c => m.kind = "parse"
    <3>1. CASE inbox' = inbox
      BY <2>4, <3>1
    <3>2. CASE Post(c, pc[c], StampOf(c))
      <4>0. PICK n : n = [by |-> c, kind |-> "parse", stamp |-> StampOf(c)]
        OBVIOUS
      <4>1. inbox' = Append(inbox, n)
        BY <2>2, <3>2, <4>0 DEF Post
      <4>2. n \in Request
        BY <4>0 DEF Request, Kind, Stamp, StampOf, NameTypes
      <4>3. ToSet(inbox') = ToSet(inbox) \cup {n}
        BY <4>1, <4>2, JoinLast DEF BoxTypes
      <4> QED
        BY <2>4, <4>0, <4>3
    <3> QED
      BY <2>1, <3>1, <3>2
  <2> QED
    BY <2>1, <2>2, <2>3, <2>4, <2>5 DEF Found
<1>10. ASSUME NEW c \in Call, Reply(c) PROVE Found(d)'
  <2>1. /\ outbox # <<>> /\ mode[c] = "asking" /\ Head(outbox).by = c /\ outbox' = Tail(outbox)
        /\ UNCHANGED <<docs, path, asked, closed, generation, startGen>>
    BY <1>10, ReplyEffect
  <2>2. pc[c] \in {"parse", "ask"}
    BY <2>1 DEF ActiveInv, Active
  <2>3. d = c
    <3>1. \A b \in Call : b # c => pc'[b] = pc[b] /\ tried'[b] = tried[b]
      BY <1>10, ReplyOthers
    <3>2. pc[c] \notin {"new", "wait"} /\ UNCHANGED <<closed, generation, startGen>>
      BY <2>1, <2>2
    <3>3. d # c => Same(d)
      BY <3>1, <3>2 DEF Same
    <3> QED
      BY <3>2, <3>3, SameAlone
  <2>4. \A m \in ToSet(inbox) \cup ToSet(outbox') : m.by # c
    BY <2>1, ApartTake DEF MsgInv, BoxTypes
  <2>5. CASE \E o \in {"mismatch", "ok", "failed"} : Settled(c, o)
    <3>1. pc' = pc /\ inbox' = inbox
      BY <2>5 DEF Settled
    <3> QED
      BY <2>2, <2>3, <2>4, <3>1 DEF Found
  <2>6. CASE Retry(c)
    <3>1. inbox' = inbox /\ (pc' = pc \/ store' = <<>>)
      BY <2>6 DEF Retry
    <3> QED
      BY <2>2, <2>3, <2>4, <3>1 DEF Found
  <2>7. CASE Parsed(c) /\ Head(outbox).kind = pc[c] /\ Head(outbox).result = "ok" /\ pc[c] = "parse"
    <3>1. /\ pc' = Set(pc, c, "ask") /\ tried' = tried
          /\ inbox' = inbox \/ Post(c, "ask", StampOf(c))
      BY <2>7 DEF Parsed, Submit, Post, StampOf, callVars
    <3>2. Same(c)
      BY <2>1, <2>2, <2>3, <3>1 DEF Same
    <3>3. Head(outbox) \in ToSet(outbox)
      BY <2>1, LeaveFirst DEF BoxTypes
    <3>4. StampOf(c) \in ToSet(docs)
      BY <2>1, <2>7, <3>2, <3>3 DEF TriedInv
    <3>5. [path |-> path'[c], version |-> asked'[c]] \in ToSet(docs')
      BY <2>1, <3>4 DEF StampOf
    <3>6. pc'[c] = "ask"
      BY <3>1 DEF Set, CallTypes
    <3> QED
      BY <2>3, <2>4, <3>5, <3>6 DEF Found, StampOf
  <2> QED
    BY <1>10, <2>5, <2>6, <2>7, ReplyEffect
<1>11. ASSUME NEW c \in Call, Timeout(c) PROVE Found(d)'
  <2>1. generation' = generation + 1 /\ startGen' = startGen
    BY <1>11 DEF Timeout, Abandon, Kill, LoseWorker, Orphaned, callVars
  <2> QED
    BY <2>1, MovedOn
<1>12. ASSUME NEW c \in Call, Terminated(c) PROVE Found(d)'
  <2>1. UNCHANGED <<pc, tried, closed, generation, startGen, store, inbox, outbox, docs, path, asked>>
    BY <1>12 DEF Terminated, Over, Set, callVars, slotVars, workerVars,
       closeVars
  <2>2. Same(d) /\ Found(d)
    BY <2>1, TriedParts DEF Same
  <2> QED
    BY <2>1, <2>2, QuietFound
<1>13. ASSUME NEW c \in Call, Abort(c) PROVE Found(d)'
  <2>1. CASE pc[c] = "ask" /\ mode[c] \in {"asking", "orphan"}
    <3>1. generation' = generation + 1 /\ startGen' = startGen
      BY <1>13, <2>1 DEF Abort, Abandon, Kill, Set, LoseWorker, Orphaned
    <3> QED
      BY <3>1, MovedOn
  <2>2. CASE ~(pc[c] = "ask" /\ mode[c] \in {"asking", "orphan"})
    <3>1. UNCHANGED <<pc, tried, closed, generation, startGen, store, inbox, outbox, docs, path, asked>>
      BY <1>13, <2>2 DEF Abort, workerVars, closeVars
    <3>2. Same(d) /\ Found(d)
      BY <3>1, TriedParts DEF Same
    <3> QED
      BY <3>1, <3>2, QuietFound
  <2> QED
    BY <2>1, <2>2
<1>14. ASSUME Handle PROVE Found(d)'
  <2> DEFINE h == Head(inbox)
  <2>1. /\ inbox # <<>> /\ inbox' = Tail(inbox) /\ h \in Request /\ h \in ToSet(inbox)
        /\ UNCHANGED <<pc, tried, startGen, generation, closed, store, path, asked>>
    BY <1>14, HandleEffect, LeaveFirst DEF BoxTypes
  <2>2. Same(d) /\ ~closed
    BY <2>1 DEF Same
  <2>3. h.by = d /\ h.stamp = StampOf(d) /\ h.kind = pc[d] /\ pc[d] \in {"parse", "ask"}
    <3>1. h.by \in Call /\ mode[h.by] = "asking" /\ h.kind = pc[h.by] /\ h.stamp = StampOf(h.by)
      BY <2>1, <2>2 DEF MsgInv, RequestOf, Awaited, Request
    <3>2. pc[h.by] \in {"parse", "ask"}
      BY <3>1 DEF ActiveInv, Active
    <3> QED
      BY <2>2, <3>1, <3>2, SameAlone
  <2>4. PICK r \in Result :
          /\ outbox' = Append(outbox, [by |-> h.by, kind |-> h.kind, result |-> r])
          /\ \/ docs' = docs /\ h.kind = "parse" /\ r = "failed"
             \/ docs' = docs /\ h.kind = "ask" /\ r = "unknown_residency" /\ h.stamp \notin ToSet(docs)
             \/ docs' = Adopt(h.stamp) /\ h.kind \in {"parse", "ask"} /\ r \in {"ok", "failed"}
             \/ docs' = <<>> /\ h.kind = "release" /\ r = "ok"
    BY <1>14, HandleEffect
  <2>5. h.kind = "ask" => h.stamp \in ToSet(docs)
    BY <2>1, <2>2, <2>3 DEF TriedInv
  <2>6. r # "unknown_residency" /\ (r = "ok" => docs' = Adopt(h.stamp))
    BY <2>3, <2>4, <2>5
  <2>7. r = "ok" => h.stamp \in ToSet(docs')
    <3>1. h.stamp \in Stamp
      BY <2>1 DEF Request
    <3> QED
      BY <2>6, <3>1, LatestShape, SizeAssumption DEF Adopt, CacheTypes
  <2>8. Apart(outbox, inbox)
    BY ApartSwap DEF MsgInv
  <2>9. \A m \in ToSet(outbox) \cup ToSet(inbox') : m.by # d
    BY <2>1, <2>3, <2>8, ApartTake DEF BoxTypes
  <2>10. PICK n : n = [by |-> h.by, kind |-> h.kind, result |-> r]
    OBVIOUS
  <2>11. ToSet(outbox') = ToSet(outbox) \cup {n} /\ n.result = r /\ n.kind = h.kind
    <3>1. n \in Answered
      BY <2>1, <2>10 DEF Request, Answered
    <3> QED
      BY <2>4, <2>10, <3>1, JoinLast DEF BoxTypes
  <2>12. r = "ok" => [path |-> path'[d], version |-> asked'[d]] \in ToSet(docs')
    BY <2>1, <2>3, <2>7 DEF StampOf
  <2> QED
    BY <2>1, <2>3, <2>6, <2>9, <2>11, <2>12 DEF Found, StampOf
<1>15. ASSUME WorkerDies PROVE Found(d)'
  <2>1. generation' = generation + 1 /\ startGen' = startGen
    BY <1>15 DEF WorkerDies, LoseWorker, Orphaned, callVars
  <2> QED
    BY <2>1, MovedOn
<1>16. ASSUME Close PROVE Found(d)'
  BY <1>16 DEF Close, Same
<1>17. ASSUME ReleaseReply PROVE Found(d)'
  <2>1. closed' /\ Head(outbox) \in ToSet(outbox)
    <3>1. outbox # <<>> /\ Head(outbox).by = Closer /\ closed' = closed
      BY <1>17 DEF ReleaseReply
    <3>2. Head(outbox) \in ToSet(outbox)
      BY <3>1, LeaveFirst DEF BoxTypes
    <3> QED
      BY <3>1, <3>2 DEF MsgInv, AnswerTo, Awaited
  <2> QED
    BY <2>1 DEF Same
<1>18. ASSUME CloseKill PROVE Found(d)'
  <2>1. generation' = generation + 1 /\ startGen' = startGen
    BY <1>18 DEF CloseKill, LoseWorker, Orphaned, callVars
  <2> QED
    BY <2>1, MovedOn
<1>19. ASSUME ReleaseTimeout PROVE Found(d)'
  <2>1. generation' = generation + 1 /\ startGen' = startGen
    BY <1>19 DEF ReleaseTimeout, Kill, LoseWorker, Orphaned, callVars
  <2> QED
    BY <2>1, MovedOn
<1>20. ASSUME NEW p \in Path, Edit(p) PROVE Found(d)'
  <2>1. UNCHANGED <<pc, tried, closed, generation, startGen, store, inbox, outbox, docs, path, asked>>
    BY <1>20 DEF Edit, callVars, slotVars, workerVars, closeVars
  <2>2. Same(d) /\ Found(d)
    BY <2>1, TriedParts DEF Same
  <2> QED
    BY <2>1, <2>2, QuietFound
<1> QED
  BY <1>1, <1>2, <1>3, <1>4, <1>5, <1>6, <1>7, <1>8, <1>9, <1>10, <1>11,
     <1>12, <1>13, <1>14, <1>15, <1>16, <1>17, <1>18, <1>19, <1>20 DEF Next,
     CallStep

-----------------------------------------------------------------------------
(* What the calls return. *)
OutcomeInv == ReplyMatches /\ LostTwiceMeansRestart

(* Outcomes change for the better only, and no history is lost. *)
OutcomeQuiet ==
  /\ closed => closed'
  /\ generation' = generation \/ generation' = generation + 1
  /\ \A c \in Call : \/ outcome'[c] \in {"none", "ok", "failed", "resource_limit"}
                     \/ outcome'[c] = outcome[c] /\ startGen'[c] = startGen[c]

LEMMA QuietOutcome == ASSUME FlagTypes, OutcomeInv, OutcomeQuiet PROVE OutcomeInv'
<1>1. \A c \in Call : outcome'[c] \in {"mismatch", "lost_twice"} =>
        outcome'[c] = outcome[c] /\ startGen'[c] = startGen[c]
  BY DEF OutcomeQuiet
<1>2. ReplyMatches'
  BY <1>1 DEF OutcomeInv, ReplyMatches
<1>3. ASSUME NEW c \in Call, outcome'[c] = "lost_twice" PROVE closed' \/ generation' > startGen'[c]
  <2>1. closed \/ generation > startGen[c]
    BY <1>1, <1>3 DEF OutcomeInv, LostTwiceMeansRestart
  <2>2. generation \in Nat /\ startGen[c] \in Nat /\ startGen'[c] = startGen[c]
    BY <1>1, <1>3 DEF FlagTypes
  <2> QED
    BY <2>1, <2>2 DEF OutcomeQuiet
<1> QED
  BY <1>2, <1>3 DEF OutcomeInv, LostTwiceMeansRestart

(* No reply answers another request, and eviction alone loses nothing twice. *)
LEMMA OutcomeInvStep ==
  ASSUME CallTypes, NameTypes, FlagTypes, PoolTypes, CacheTypes, FileTypes, NameInv,
         BoxTypes, SlotInv, ActiveInv, WorkerInv, MsgInv, Forward, TriedInv, OutcomeInv,
         [Next]_vars
  PROVE  OutcomeInv'
<1>1. ASSUME UNCHANGED vars PROVE OutcomeInv'
  <2>1. OutcomeQuiet
    BY <1>1 DEF vars, OutcomeQuiet, CallTypes, FlagTypes, callVars, slotVars,
       workerVars, closeVars
  <2> QED
    BY <2>1, QuietOutcome
<1>2. ASSUME Stopped PROVE OutcomeInv'
  <2>1. OutcomeQuiet
    BY <1>2 DEF Stopped, vars, OutcomeQuiet, CallTypes, FlagTypes, callVars,
       slotVars, workerVars, closeVars
  <2> QED
    BY <2>1, QuietOutcome
<1>3. ASSUME NEW c \in Call, SlotsRefused(c) PROVE OutcomeInv'
  <2>1. OutcomeQuiet
    BY <1>3 DEF SlotsRefused, Set, OutcomeQuiet, CallTypes, FlagTypes,
       callVars, slotVars, workerVars, closeVars
  <2> QED
    BY <2>1, QuietOutcome
<1>4. ASSUME NEW c \in Call, SlotsFree(c) PROVE OutcomeInv'
  <2>1. OutcomeQuiet
    BY <1>4 DEF SlotsFree, Start, Set, OutcomeQuiet, CallTypes, FlagTypes,
       callVars, slotVars, workerVars, closeVars
  <2> QED
    BY <2>1, QuietOutcome
<1>5. ASSUME NEW c \in Call, SlotsWait(c) PROVE OutcomeInv'
  <2>1. OutcomeQuiet
    BY <1>5 DEF SlotsWait, Start, Set, OutcomeQuiet, CallTypes, FlagTypes,
       callVars, slotVars, workerVars, closeVars
  <2> QED
    BY <2>1, QuietOutcome
<1>6. ASSUME NEW c \in Call, Release(c) PROVE OutcomeInv'
  <2>1. OutcomeQuiet
    BY <1>6 DEF Release, Set, OutcomeQuiet, CallTypes, FlagTypes, callVars,
       slotVars, workerVars, closeVars
  <2> QED
    BY <2>1, QuietOutcome
<1>7. ASSUME NEW c \in Call, StoreLoad(c) PROVE OutcomeInv'
  <2>1. /\ UNCHANGED <<closed, generation, startGen>>
        /\ outcome' = outcome \/ outcome' = Set(outcome, c, "resource_limit")
    BY <1>7, StoreLoadEffect
  <2>2. OutcomeQuiet
    BY <2>1 DEF OutcomeQuiet, Set, CallTypes
  <2> QED
    BY <2>2, QuietOutcome
<1>8. ASSUME NEW c \in Call, StaleCursor(c) PROVE OutcomeInv'
  <2>1. OutcomeQuiet
    BY <1>8 DEF StaleCursor, Over, Set, OutcomeQuiet, CallTypes, FlagTypes,
       callVars, slotVars, workerVars, closeVars
  <2> QED
    BY <2>1, QuietOutcome
<1>9. ASSUME NEW c \in Call, Boot(c) PROVE OutcomeInv'
  <2>1. OutcomeQuiet
    BY <1>9 DEF Boot, Submit, Over, Set, OutcomeQuiet, CallTypes, FlagTypes,
       callVars, slotVars, workerVars, closeVars
  <2> QED
    BY <2>1, QuietOutcome
<1>10. ASSUME NEW c \in Call, Reply(c) PROVE OutcomeInv'
  <2>1. /\ outbox # <<>> /\ mode[c] = "asking" /\ Head(outbox).by = c
        /\ UNCHANGED <<closed, generation, startGen>>
    BY <1>10, ReplyEffect
  <2>2. Head(outbox) \in ToSet(outbox)
    BY <2>1, LeaveFirst DEF BoxTypes
  <2>3. Head(outbox).kind = pc[c] /\ (Head(outbox).result = "unknown_residency" => pc[c] = "ask")
    BY <2>1, <2>2 DEF MsgInv, AnswerTo, Awaited
  <2>4. CASE \E o \in {"ok", "failed"} : Settled(c, o)
    <3>1. OutcomeQuiet
      BY <2>1, <2>4 DEF OutcomeQuiet, Settled, Over, Set, CallTypes
    <3> QED
      BY <3>1, QuietOutcome
  <2>5. CASE Parsed(c)
    <3>1. outcome' = outcome \/ outcome' = Set(outcome, c, "resource_limit")
      BY <2>5 DEF Parsed, Submit, Over
    <3>2. OutcomeQuiet
      BY <2>1, <3>1 DEF OutcomeQuiet, Set, CallTypes
    <3> QED
      BY <3>2, QuietOutcome
  <2>6. CASE Retry(c) /\ Head(outbox).result = "unknown_residency" /\ ~tried[c]
    <3>1. OutcomeQuiet
      BY <2>1, <2>6 DEF OutcomeQuiet, Retry
    <3> QED
      BY <3>1, QuietOutcome
  <2>7. CASE Retry(c) /\ Head(outbox).result = "unknown_residency" /\ tried[c]
    <3>1. outcome' = Set(outcome, c, "lost_twice")
      BY <2>7 DEF Retry, Over
    <3>2. ~Same(c)
      BY <2>1, <2>2, <2>3, <2>7 DEF TriedInv
    <3>3. closed \/ generation # startGen[c]
      BY <2>3, <2>7, <3>2 DEF Same, ActiveInv, Active
    <3>4. closed \/ generation > startGen[c]
      BY <3>3 DEF Forward, FlagTypes
    <3>5. outcome'[c] = "lost_twice" /\ \A d \in Call : d # c => outcome'[d] = outcome[d]
      BY <3>1 DEF Set, CallTypes
    <3> QED
      BY <2>1, <3>4, <3>5 DEF OutcomeInv, ReplyMatches, LostTwiceMeansRestart
  <2> QED
    BY <1>10, <2>3, <2>4, <2>5, <2>6, <2>7, ReplyEffect
<1>11. ASSUME NEW c \in Call, Timeout(c) PROVE OutcomeInv'
  <2>1. OutcomeQuiet
    BY <1>11 DEF Timeout, Abandon, Kill, LoseWorker, Orphaned, OutcomeQuiet,
       CallTypes, FlagTypes, callVars, slotVars, workerVars, closeVars
  <2> QED
    BY <2>1, QuietOutcome
<1>12. ASSUME NEW c \in Call, Terminated(c) PROVE OutcomeInv'
  <2>1. OutcomeQuiet
    BY <1>12 DEF Terminated, Over, Set, OutcomeQuiet, CallTypes, FlagTypes,
       callVars, slotVars, workerVars, closeVars
  <2> QED
    BY <2>1, QuietOutcome
<1>13. ASSUME NEW c \in Call, Abort(c) PROVE OutcomeInv'
  <2>1. OutcomeQuiet
    BY <1>13 DEF Abort, Abandon, Kill, Set, LoseWorker, Orphaned, OutcomeQuiet,
       CallTypes, FlagTypes, callVars, slotVars, workerVars, closeVars
  <2> QED
    BY <2>1, QuietOutcome
<1>14. ASSUME Handle PROVE OutcomeInv'
  <2>1. OutcomeQuiet
    BY <1>14, HandleEffect DEF OutcomeQuiet
  <2> QED
    BY <2>1, QuietOutcome
<1>15. ASSUME WorkerDies PROVE OutcomeInv'
  <2>1. OutcomeQuiet
    BY <1>15 DEF WorkerDies, LoseWorker, Orphaned, OutcomeQuiet, CallTypes,
       FlagTypes, callVars, slotVars, workerVars, closeVars
  <2> QED
    BY <2>1, QuietOutcome
<1>16. ASSUME Close PROVE OutcomeInv'
  <2>1. OutcomeQuiet
    BY <1>16 DEF Close, ReleaseRequest, OutcomeQuiet, CallTypes, FlagTypes,
       callVars, slotVars, workerVars, closeVars
  <2> QED
    BY <2>1, QuietOutcome
<1>17. ASSUME ReleaseReply PROVE OutcomeInv'
  <2>1. OutcomeQuiet
    BY <1>17 DEF ReleaseReply, OutcomeQuiet, CallTypes, FlagTypes, callVars,
       slotVars, workerVars, closeVars
  <2> QED
    BY <2>1, QuietOutcome
<1>18. ASSUME CloseKill PROVE OutcomeInv'
  <2>1. OutcomeQuiet
    BY <1>18 DEF CloseKill, LoseWorker, Orphaned, OutcomeQuiet, CallTypes,
       FlagTypes, callVars, slotVars, workerVars, closeVars
  <2> QED
    BY <2>1, QuietOutcome
<1>19. ASSUME ReleaseTimeout PROVE OutcomeInv'
  <2>1. OutcomeQuiet
    BY <1>19 DEF ReleaseTimeout, Kill, LoseWorker, Orphaned, OutcomeQuiet,
       CallTypes, FlagTypes, callVars, slotVars, workerVars, closeVars
  <2> QED
    BY <2>1, QuietOutcome
<1>20. ASSUME NEW p \in Path, Edit(p) PROVE OutcomeInv'
  <2>1. OutcomeQuiet
    BY <1>20 DEF Edit, OutcomeQuiet, CallTypes, FlagTypes, callVars, slotVars,
       workerVars, closeVars
  <2> QED
    BY <2>1, QuietOutcome
<1> QED
  BY <1>1, <1>2, <1>3, <1>4, <1>5, <1>6, <1>7, <1>8, <1>9, <1>10, <1>11,
     <1>12, <1>13, <1>14, <1>15, <1>16, <1>17, <1>18, <1>19, <1>20 DEF Next,
     CallStep

-----------------------------------------------------------------------------
(* Types first, then the invariants they make room for. *)
Inv == /\ TypeOK /\ NameInv /\ SlotInv /\ ActiveInv /\ WorkerInv /\ MsgInv /\ TriedInv
       /\ OutcomeInv

LEMMA InvInit == Init => Inv
<1> SUFFICES ASSUME Init PROVE Inv
  OBVIOUS
<1>0. /\ ToSet(<<>>) = {} /\ IsInjective(<<>>) /\ Apart(<<>>, <<>>) /\ 0 \in Version
      /\ Len(<<>>) = 0
  BY EmptyQueue, ApartEmpty, BoundAssumption DEF Version
<1>1. CallTypes /\ NameTypes /\ FlagTypes /\ FileTypes
  BY <1>0, BoundAssumption DEF Init, CallTypes, NameTypes, FlagTypes, FileTypes
<1>2. PoolTypes /\ BoxTypes /\ CacheTypes
  <2>1. /\ <<>> \in Seq(Call) /\ <<>> \in Seq(Request) /\ <<>> \in Seq(Answered)
        /\ <<>> \in Seq(Stamp) /\ <<>> \in Seq(Entry)
    OBVIOUS
  <2>2. PoolTypes
    <3>1. waiting \in Seq(Call) /\ Len(waiting) <= QueueDepth
      BY <1>0, <2>1, SizeAssumption DEF Init
    <3> QED
      BY <3>1 DEF Init, PoolTypes
  <2>3. BoxTypes
    BY <2>1 DEF Init, BoxTypes
  <2>4. CacheTypes
    BY <1>0, <2>1, SizeAssumption DEF Init, CacheTypes
  <2> QED
    BY <2>2, <2>3, <2>4
<1>3. NameInv /\ SlotInv
  BY <1>0 DEF Init, NameInv, SlotInv, Inside
<1>4. ActiveInv /\ WorkerInv /\ MsgInv
  BY <1>0 DEF Init, ActiveInv, Active, WorkerInv, StoreCurrent, MsgInv
<1>5. TriedInv /\ OutcomeInv
  BY <1>0 DEF Init, TriedInv, Same, OutcomeInv, ReplyMatches, LostTwiceMeansRestart
<1> QED
  BY <1>1, <1>2, <1>3, <1>4, <1>5, TypeParts DEF Inv

LEMMA InvStep == Inv /\ [Next]_vars => Inv'
<1> SUFFICES ASSUME Inv, [Next]_vars PROVE Inv'
  OBVIOUS
<1>1. /\ CallTypes /\ NameTypes /\ FlagTypes /\ PoolTypes /\ BoxTypes /\ CacheTypes /\ FileTypes
      /\ NameInv /\ SlotInv /\ ActiveInv /\ WorkerInv /\ MsgInv /\ TriedInv /\ OutcomeInv
  BY TypeParts DEF Inv
<1>2. Forward
  BY <1>1, TriedParts DEF Forward
<1>3. CallTypes' /\ NameTypes' /\ FlagTypes' /\ PoolTypes' /\ BoxTypes' /\ CacheTypes' /\ FileTypes'
  BY <1>1, CallTypesStep, NameTypesStep, FlagTypesStep, PoolTypesStep, BoxTypesStep,
     CacheTypesStep, FileTypesStep
<1>4. TypeOK'
  BY <1>3 DEF TypeOK, CallTypes, NameTypes, FlagTypes, PoolTypes, BoxTypes, CacheTypes,
     FileTypes, Request, Answered
<1>5. NameInv' /\ SlotInv'
  BY <1>1, <1>3, NameInvStep, SlotMoves, SlotInvStep
<1>6. ActiveInv' /\ WorkerInv' /\ MsgInv'
  BY <1>1, <1>3, ActiveInvStep, WorkerInvStep, MsgInvStep
<1>7. Forward' /\ \A d \in Call : Same(d)' => Found(d)'
  BY <1>1, <1>2, ForwardStep, FoundStep
<1>8. TriedInv'
  BY <1>7 DEF TriedInv, Forward, Found
<1>9. OutcomeInv'
  BY <1>1, <1>2, OutcomeInvStep
<1> QED
  BY <1>4, <1>5, <1>6, <1>8, <1>9 DEF Inv

LEMMA InvAlways == Spec => []Inv
BY InvInit, InvStep, PTL DEF Spec

(* For any calls, paths, sizes and bounds every variable keeps its type:    *)
(* the line is never longer than maxQueueDepth, the store and the worker    *)
(* never hold more documents than their capacities.                         *)
THEOREM TypeCorrect == Spec => []TypeOK
<1>1. Inv => TypeOK
  BY DEF Inv
<1> QED
  BY <1>1, InvAlways, PTL

(* The store's entries are always of the worker the pool has: kill, exit    *)
(* and close clear them, and a parse that was answered is remembered in the *)
(* generation it was parsed in.                                             *)
THEOREM StoreCurrentAlways == Spec => []StoreCurrent
<1>1. Inv => StoreCurrent
  BY DEF Inv, WorkerInv
<1> QED
  BY <1>1, InvAlways, PTL

(* No call is ever answered by the reply to another request: a request that *)
(* times out or is aborted takes its worker, and the reply, with it.        *)
THEOREM ReplyMatchesAlways == Spec => []ReplyMatches
<1>1. Inv => ReplyMatches
  BY DEF Inv, OutcomeInv
<1> QED
  BY <1>1, InvAlways, PTL

(* However small the caches and however many the documents, a call is told  *)
(* that its document was lost twice only after a restart or a close.        *)
THEOREM LostTwiceMeansRestartAlways == Spec => []LostTwiceMeansRestart
<1>1. Inv => LostTwiceMeansRestart
  BY DEF Inv, OutcomeInv
<1> QED
  BY <1>1, InvAlways, PTL

-----------------------------------------------------------------------------
(* Only a call with business at the worker starts to kill it. *)
KillsOwn == \A c \in Call : mode'[c] = "killing" => mode[c] \in Active

LEMMA KillsOwnStep ==
  ASSUME CallTypes, FlagTypes, FileTypes, NameInv, BoxTypes, [Next]_vars
  PROVE  KillsOwn
<1>1. ASSUME UNCHANGED vars PROVE KillsOwn
  BY <1>1 DEF vars, callVars, slotVars, workerVars, closeVars, KillsOwn,
     Active, CallTypes
<1>2. ASSUME Stopped PROVE KillsOwn
  BY <1>2 DEF Stopped, vars, callVars, slotVars, workerVars, closeVars,
     KillsOwn, Active, CallTypes
<1>3. ASSUME NEW c \in Call, SlotsRefused(c) PROVE KillsOwn
  BY <1>3 DEF SlotsRefused, Set, callVars, slotVars, workerVars, closeVars,
     KillsOwn, Active, CallTypes
<1>4. ASSUME NEW c \in Call, SlotsFree(c) PROVE KillsOwn
  BY <1>4 DEF SlotsFree, Start, Set, callVars, slotVars, workerVars,
     closeVars, KillsOwn, Active, CallTypes
<1>5. ASSUME NEW c \in Call, SlotsWait(c) PROVE KillsOwn
  BY <1>5 DEF SlotsWait, Start, Set, callVars, slotVars, workerVars,
     closeVars, KillsOwn, Active, CallTypes
<1>6. ASSUME NEW c \in Call, Release(c) PROVE KillsOwn
  BY <1>6 DEF Release, Set, callVars, slotVars, workerVars, closeVars,
     KillsOwn, Active, CallTypes
<1>7. ASSUME NEW c \in Call, StoreLoad(c) PROVE KillsOwn
  <2>1. \E x \in {"over", "boot", "asking"} : mode' = Set(mode, c, x)
    BY <1>7, StoreLoadEffect
  <2> QED
    BY <2>1 DEF KillsOwn, Active, Set, CallTypes
<1>8. ASSUME NEW c \in Call, StaleCursor(c) PROVE KillsOwn
  BY <1>8 DEF StaleCursor, Over, Set, callVars, slotVars, workerVars,
     closeVars, KillsOwn, Active, CallTypes
<1>9. ASSUME NEW c \in Call, Boot(c) PROVE KillsOwn
  BY <1>9 DEF Boot, Submit, Over, Set, callVars, slotVars, workerVars,
     closeVars, KillsOwn, Active, CallTypes
<1>10. ASSUME NEW c \in Call, Reply(c) PROVE KillsOwn
  <2>1. mode[c] = "asking"
    BY <1>10, ReplyEffect
  <2> QED
    BY <1>10, <2>1, ReplyOthers DEF KillsOwn, Active
<1>11. ASSUME NEW c \in Call, Timeout(c) PROVE KillsOwn
  BY <1>11 DEF Timeout, Abandon, Kill, LoseWorker, Orphaned, callVars,
     slotVars, workerVars, closeVars, KillsOwn, Active, CallTypes
<1>12. ASSUME NEW c \in Call, Terminated(c) PROVE KillsOwn
  BY <1>12 DEF Terminated, Over, Set, callVars, slotVars, workerVars,
     closeVars, KillsOwn, Active, CallTypes
<1>13. ASSUME NEW c \in Call, Abort(c) PROVE KillsOwn
  BY <1>13 DEF Abort, Abandon, Kill, Set, LoseWorker, Orphaned, callVars,
     slotVars, workerVars, closeVars, KillsOwn, Active, CallTypes
<1>14. ASSUME Handle PROVE KillsOwn
  BY <1>14, HandleEffect DEF KillsOwn, Active
<1>15. ASSUME WorkerDies PROVE KillsOwn
  BY <1>15 DEF WorkerDies, LoseWorker, Orphaned, callVars, slotVars,
     workerVars, closeVars, KillsOwn, Active, CallTypes
<1>16. ASSUME Close PROVE KillsOwn
  BY <1>16 DEF Close, ReleaseRequest, callVars, slotVars, workerVars,
     closeVars, KillsOwn, Active, CallTypes
<1>17. ASSUME ReleaseReply PROVE KillsOwn
  BY <1>17 DEF ReleaseReply, callVars, slotVars, workerVars, closeVars,
     KillsOwn, Active, CallTypes
<1>18. ASSUME CloseKill PROVE KillsOwn
  BY <1>18 DEF CloseKill, LoseWorker, Orphaned, callVars, slotVars,
     workerVars, closeVars, KillsOwn, Active, CallTypes
<1>19. ASSUME ReleaseTimeout PROVE KillsOwn
  BY <1>19 DEF ReleaseTimeout, Kill, LoseWorker, Orphaned, callVars, slotVars,
     workerVars, closeVars, KillsOwn, Active, CallTypes
<1>20. ASSUME NEW p \in Path, Edit(p) PROVE KillsOwn
  BY <1>20 DEF Edit, callVars, slotVars, workerVars, closeVars, KillsOwn,
     Active, CallTypes
<1> QED
  BY <1>1, <1>2, <1>3, <1>4, <1>5, <1>6, <1>7, <1>8, <1>9, <1>10, <1>11,
     <1>12, <1>13, <1>14, <1>15, <1>16, <1>17, <1>18, <1>19, <1>20 DEF Next,
     CallStep

(* The timeout or abort of one call never takes the worker from another     *)
(* call's request: there is at most one, and it is the one that ends.       *)
THEOREM InnocentNeverKilledAlways == Spec => InnocentNeverKilled
<1> DEFINE Mine == \A c, d \in Call : /\ mode[c] # "killing" /\ mode'[c] = "killing"
                                      /\ d # c /\ mode[d] \in {"asking", "boot"}
                                      => mode'[d] = mode[d]
<1>1. Inv /\ [Next]_vars => Mine
  <2> SUFFICES ASSUME Inv, [Next]_vars PROVE Mine
    OBVIOUS
  <2>1. KillsOwn
    BY KillsOwnStep, TypeParts DEF Inv
  <2> QED
    BY <2>1 DEF Inv, ActiveInv, KillsOwn, Active
<1>2. Inv /\ [Next]_vars => [Mine]_vars
  BY <1>1
<1> QED
  BY <1>2, InvAlways, PTL DEF Spec, InnocentNeverKilled

-----------------------------------------------------------------------------
(* The slot as a limiter of one place. *)
SlotStep == closed' \/ Slot!Next \/ UNCHANGED <<Inside, waiting>>

LEMMA SlotRefines ==
  ASSUME CallTypes, CallTypes', PoolTypes, SlotInv, SlotMove
  PROVE  SlotStep
<1>1. Slot!Standing = ToSet(waiting) /\ Slot!Cardinality(Inside) = Cardinality(Inside)
  BY DEF Slot!Standing, Slot!ToSet, ToSet, Slot!Cardinality, Cardinality
<1>2. \A c \in Call : Cardinality({c}) = 1 /\ Cardinality({}) = 0
  BY FS_EmptySet, FS_Singleton
<1>3. CASE SlotQuiet
  BY <1>3 DEF SlotQuiet, Inside, CallTypes, SlotStep
<1>4. ASSUME NEW c \in Call, SlotsFree(c) PROVE SlotStep
  <2>1. pc' = Set(pc, c, "load") /\ pc[c] = "new" /\ ~closed /\ ~busy /\ waiting' = waiting
    BY <1>4 DEF SlotsFree
  <2>2. waiting = <<>> /\ Inside = {}
    BY <2>1 DEF SlotInv
  <2>3. Inside' = {c}
    BY <2>1, <2>2 DEF Inside, Set, CallTypes
  <2>4. Slot!Cardinality(Inside) = 0
    BY <1>1, <1>2, <2>2
  <2>5. Slot!Enter(c)
    BY <2>1, <2>2, <2>3, <2>4 DEF Slot!Enter
  <2> QED
    BY <2>5 DEF Slot!Next, SlotStep
<1>5. ASSUME NEW c \in Call, SlotsWait(c) PROVE SlotStep
  <2>1. pc' = Set(pc, c, "wait") /\ pc[c] = "new" /\ ~closed /\ busy /\ waiting' = Append(waiting, c)
    BY <1>5 DEF SlotsWait
  <2>2. Inside' = Inside /\ c \notin Inside /\ c \notin ToSet(waiting)
    BY <2>1 DEF Inside, Set, CallTypes, SlotInv
  <2>3. PICK d \in Call : Inside = {d}
    BY <2>1 DEF SlotInv, Inside
  <2>4. Slot!Cardinality(Inside) = 1
    BY <1>1, <1>2, <2>3
  <2>5. Slot!Wait(c)
    BY <1>1, <2>1, <2>2, <2>4 DEF Slot!Wait
  <2> QED
    BY <2>5 DEF Slot!Next, SlotStep
<1>6. ASSUME NEW c \in Call, Release(c) PROVE SlotStep
  <2>1. CASE closed
    BY <1>6, <2>1 DEF Release, closeVars, SlotStep
  <2>2. CASE ~closed
    <3>1. c \in Inside
      BY <1>6, InsideIs DEF Release, SlotInv
    <3>2. Inside = {c}
      BY <2>2, <3>1 DEF SlotInv
    <3>3. CASE waiting = <<>>
      <4>1. Inside' = {} /\ waiting' = waiting
        BY <1>6, <3>2, <3>3 DEF Release, Set, Inside, CallTypes
      <4> QED
        BY <3>2, <3>3, <4>1 DEF Slot!Leave, Slot!Next, SlotStep
    <3>4. CASE waiting # <<>>
      <4> DEFINE h == Head(waiting)
      <4>1. pc' = [pc EXCEPT ![c] = "new", ![h] = "load"] /\ waiting' = Tail(waiting)
        BY <1>6, <3>4 DEF Release
      <4>2. h \in Call /\ pc[h] = "wait"
        BY <3>4, LeaveFirst DEF SlotInv, PoolTypes
      <4> HIDE DEF h
      <4>3. h # c
        BY <3>1, <4>2 DEF Inside
      <4>4. pc'[c] = "new" /\ pc'[h] = "load" /\ \A d \in Call : d # c /\ d # h => pc'[d] = pc[d]
        BY <4>1, <4>2, <4>3 DEF CallTypes
      <4>5. Inside' = {h}
        BY <3>2, <4>2, <4>3, <4>4, InsideIs DEF Inside
      <4>6. Slot!Leave(c)
        BY <3>2, <3>4, <4>1, <4>3, <4>5 DEF Slot!Leave, h
      <4> QED
        BY <4>6 DEF Slot!Next, SlotStep
    <3> QED
      BY <3>3, <3>4
  <2> QED
    BY <2>1, <2>2
<1>7. CASE Close
  BY <1>7 DEF Close, SlotStep
<1> QED
  BY <1>3, <1>4, <1>5, <1>6, <1>7 DEF SlotMove

(* Until the pool closes, handing the slot over is what a limiter of one    *)
(* place does: the waiter at the head gets it, nobody enters beside it, and *)
(* nobody waits for a slot that is free.                                    *)
THEOREM SlotImplementsLimiterAlways == Spec => SlotImplementsLimiter
<1>1. Init => Slot!Init
  BY DEF Init, Slot!Init, Inside
<1>2. Inv /\ [Next]_vars => [SlotStep]_vars
  <2> SUFFICES ASSUME Inv, [Next]_vars PROVE SlotStep
    OBVIOUS
  <2>1. /\ CallTypes /\ CallTypes' /\ FlagTypes /\ PoolTypes /\ FileTypes /\ NameInv /\ BoxTypes
        /\ ActiveInv /\ SlotInv
    BY TypeParts, CallTypesStep DEF Inv
  <2> QED
    BY <2>1, SlotMoves, SlotRefines
<1> QED
  BY <1>1, <1>2, InvAlways, PTL DEF Spec, SlotImplementsLimiter, SlotStep
=============================================================================
