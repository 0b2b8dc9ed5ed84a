------------------------- MODULE SandboxCacheProofs -------------------------
(***************************************************************************)
(* Theorems about SandboxCache, for any sessions, attachments, callers and *)
(* budgets.                                                                *)
(*                                                                         *)
(* RowNamesObject needs StoreInv, which orders the steps of an upload and  *)
(* of a removal around the row.  UsedAccounting is inductive, given what   *)
(* Without does to a sum (QueuesProofs).  FilesReclaimable needs to know   *)
(* that only an evicting flight has a victim (FlightInv), that a file is   *)
(* in a root that exists (DiskInv), and that such a root belongs to a      *)
(* session the sweep knows, is about to remove or failed to (RootInv).     *)
(***************************************************************************)
EXTENDS SandboxCache, QueuesProofs

(* A row is live only between its insert, after the object was put, and    *)
(* its removal, before the object goes; the object of a row whose insert   *)
(* was answered with an error may go at any time.                          *)
StoreInv ==
  \A a \in Attachment :
    /\ rows[a] = "live" => removal[a] = "no" /\ (a \in objects \/ a \in doubtful)
    /\ upload[a] \in {"new", "written"} => rows[a] = "none"
    /\ upload[a] = "undo" => rows[a] # "live" \/ a \in doubtful
    /\ upload[a] = "written" => a \in objects
    /\ removal[a] # "no" => rows[a] = "deleted"

FlightInv == \A f \in Attachment : flight[f] # "evicting" => victim[f] = NoFile
CallInv == \A c \in Caller : pc[c] # "idle" => want[c] \in Attachment
RootInv == \A s \in root : s \in lastUsed \cup stranded \/ reap[s] = "unlink"
DiskInv == \A a \in disk : SessionOf[a] \in root

-----------------------------------------------------------------------------
(* What happens to the entries. *)

LEMMA HasIs == ASSUME TypeOK, NEW a PROVE Has(a) <=> a \in ToSet(entries)
<1>1. entries \in Seq(Attachment)
  BY DEF TypeOK
<1>2. DOMAIN entries = 1 .. Len(entries)
  BY <1>1
<1> QED
  BY <1>2 DEF Has, Contains, ToSet

(* A hit moves its entry to the end of the map. *)
Touch(a) == Has(a) /\ entries' = Append(Without(entries, {a}), a) /\ used' = used

(* remember: the count follows, whether the key was there or not. *)
LEMMA RememberCounts ==
  ASSUME TypeOK, UsedAccounting, NEW a \in Attachment, Remember(a) \/ Touch(a)
  PROVE  /\ entries' \in Seq(Attachment) /\ used' \in Nat
         /\ ToSet(entries') = ToSet(entries) \cup {a}
         /\ UsedAccounting'
<1> DEFINE rest == Without(entries, {a})
<1>1. entries \in Seq(Attachment) /\ Bytes \in [Attachment -> Nat]
  BY AttachmentAssumption DEF TypeOK
<1>2. rest \in Seq(Attachment) /\ ToSet(rest) = ToSet(entries) \ {a} /\ IsInjective(rest)
  BY <1>1, WithoutProperties DEF UsedAccounting
<1>3. entries' = Append(rest, a)
  BY DEF Remember, Touch
<1> HIDE DEF rest
<1>4. /\ entries' \in Seq(Attachment) /\ ToSet(entries') = ToSet(rest) \cup {a}
      /\ IsInjective(entries')
  BY <1>2, <1>3, JoinLast
<1>5. Weight(Bytes, entries') = Weight(Bytes, rest) + Bytes[a] /\ Weight(Bytes, rest) \in Nat
  BY <1>1, <1>2, <1>3, WeightJoin
<1>6. used \in Nat /\ Bytes[a] \in Nat /\ used = Weight(Bytes, entries)
  BY <1>1 DEF TypeOK, UsedAccounting
<1>7. CASE Has(a)
  <2>1. a \in ToSet(entries)
    BY <1>7, HasIs
  <2>2. Weight(Bytes, rest) + Bytes[a] = Weight(Bytes, entries)
    <3>1. Weight(Bytes, rest) + Weight(Bytes, Only(entries, {a})) = Weight(Bytes, entries)
      BY <1>1, WeightSplits DEF rest
    <3>2. Weight(Bytes, Only(entries, {a})) = Bytes[a]
      BY <1>1, <2>1, OnlyOne DEF UsedAccounting
    <3> QED
      BY <3>1, <3>2
  <2>3. used' = used
    BY <1>7 DEF Remember, Touch
  <2> QED
    BY <1>2, <1>4, <1>5, <1>6, <2>1, <2>2, <2>3 DEF UsedAccounting
<1>8. CASE ~Has(a)
  <2>1. a \notin ToSet(entries)
    BY <1>8, HasIs
  <2>2. rest = entries
    BY <1>1, <2>1, WithoutProperties DEF rest
  <2>3. used' = used + Bytes[a]
    BY <1>8 DEF Remember, Touch
  <2> QED
    BY <1>2, <1>4, <1>5, <1>6, <2>2, <2>3 DEF UsedAccounting
<1> QED
  BY <1>7, <1>8

(* forget: the clamp at zero is never needed. *)
LEMMA ForgetCounts ==
  ASSUME TypeOK, UsedAccounting, NEW R, Forget(R)
  PROVE  /\ entries' \in Seq(Attachment) /\ used' \in Nat
         /\ ToSet(entries') = ToSet(entries) \ R
         /\ UsedAccounting'
<1>1. entries \in Seq(Attachment) /\ Bytes \in [Attachment -> Nat]
  BY AttachmentAssumption DEF TypeOK
<1> DEFINE rest == Weight(Bytes, Without(entries, R))  gone == Weight(Bytes, Only(entries, R))
<1>2. rest \in Nat /\ gone \in Nat /\ used = rest + gone
  BY <1>1, WeightSplits DEF UsedAccounting
<1>3. used' = Max({0, used - gone}) /\ entries' = Without(entries, R)
  BY DEF Forget
<1>4. entries' \in Seq(Attachment) /\ ToSet(entries') = ToSet(entries) \ R /\ IsInjective(entries')
  BY <1>1, <1>3, WithoutProperties DEF UsedAccounting
<1>5. Weight(Bytes, entries') = rest
  BY <1>3
<1> HIDE DEF rest, gone
<1>6. used' = rest
  <2>1. used - gone = rest
    BY <1>2
  <2>2. rest \in {0, rest} /\ \A y \in {0, rest} : rest >= y
    BY <1>2
  <2>3. Max({0, rest}) \in {0, rest} /\ \A y \in {0, rest} : Max({0, rest}) >= y
    BY <2>2 DEF Max
  <2> QED
    BY <1>2, <1>3, <2>1, <2>3
<1> QED
  BY <1>2, <1>4, <1>5, <1>6 DEF UsedAccounting

(* What makeRoom does: room, or one victim that has an entry. *)
Staged(a) ==
  /\ flight' = [flight EXCEPT ![a] = "staging"] /\ victim' = [victim EXCEPT ![a] = NoFile]
  /\ passed' = [passed EXCEPT ![a] = {}] /\ UNCHANGED cacheVars
Evicts(a, v, q) ==
  /\ flight' = [flight EXCEPT ![a] = "evicting"] /\ victim' = [victim EXCEPT ![a] = v]
  /\ passed' = [passed EXCEPT ![a] = q] /\ Forget({v})

LEMMA MakeRoomEffect ==
  ASSUME TypeOK, NEW a \in Attachment, NEW p \in SUBSET Attachment,
         ~Refused(a, p), MakeRoom(a, p)
  PROVE  Staged(a) \/ \E v \in Attachment, q \in SUBSET Attachment : Evicts(a, v, q)
<1>1. CASE Room(a)
  BY <1>1 DEF MakeRoom, Staged
<1>2. CASE ~Room(a)
  <2> DEFINE q == Ahead(a, p)  E == Evictable(a, p)
  <2>1. entries \in Seq(Attachment)
    BY DEF TypeOK
  <2>2. q \in Seq(Attachment)
    BY <2>1, WithoutProperties DEF Ahead
  <2>3. E # {} /\ E \subseteq DOMAIN q
    BY <1>2 DEF Refused, Evictable
  <2> HIDE DEF q, E
  <2>4. E \in SUBSET Nat /\ DOMAIN q = 1 .. Len(q) /\ Len(q) \in Nat
    BY <2>2, <2>3
  <2>5. Min(E) \in E
    BY <2>3, <2>4, Least DEF Min
  <2>6. q[Min(E)] \in Attachment /\ \A j \in 1 .. Min(E) - 1 : q[j] \in Attachment
    BY <2>2, <2>3, <2>4, <2>5
  <2>7. Evicts(a, q[Min(E)], p \cup {q[j] : j \in 1 .. Min(E) - 1})
    BY <1>2 DEF MakeRoom, Evicts, q, E
  <2> QED
    BY <2>6, <2>7
<1> QED
  BY <1>1, <1>2

(* What that does to the flight and to the others. *)
LEMMA RoomShape ==
  ASSUME TypeOK, NEW a \in Attachment,
         Staged(a) \/ \E v \in Attachment, q \in SUBSET Attachment : Evicts(a, v, q)
  PROVE  /\ flight' \in [Attachment -> {"none", "evicting", "staging", "fetch", "rename"}]
         /\ victim' \in [Attachment -> Attachment \cup {NoFile}]
         /\ passed' \in [Attachment -> SUBSET Attachment]
         /\ flight'[a] = "evicting" \/ victim'[a] = NoFile
         /\ \A f \in Attachment \ {a} : flight'[f] = flight[f] /\ victim'[f] = victim[f]
<1>1. CASE Staged(a)
  BY <1>1 DEF Staged, TypeOK
<1>2. ASSUME NEW v \in Attachment, NEW q \in SUBSET Attachment, Evicts(a, v, q)
      PROVE  /\ flight' \in [Attachment -> {"none", "evicting", "staging", "fetch", "rename"}]
             /\ victim' \in [Attachment -> Attachment \cup {NoFile}]
             /\ passed' \in [Attachment -> SUBSET Attachment]
             /\ flight'[a] = "evicting"
             /\ \A f \in Attachment \ {a} : flight'[f] = flight[f] /\ victim'[f] = victim[f]
  BY <1>2 DEF Evicts, TypeOK
<1> QED
  BY <1>1, <1>2

(* Whatever a step does to the entries is one of these. *)
CacheEffect ==
  \/ UNCHANGED cacheVars
  \/ \E a \in Attachment : Remember(a) \/ Touch(a)
  \/ \E R : Forget(R)
  \/ entries' = <<>> /\ used' = 0

LEMMA EffectCounts ==
  ASSUME TypeOK, UsedAccounting, CacheEffect
  PROVE  entries' \in Seq(Attachment) /\ used' \in Nat /\ UsedAccounting'
<1>1. CASE UNCHANGED cacheVars
  BY <1>1 DEF cacheVars, TypeOK, UsedAccounting
<1>2. CASE entries' = <<>> /\ used' = 0
  BY <1>2, EmptyQueue, WeightNone DEF UsedAccounting
<1> QED
  BY <1>1, <1>2, RememberCounts, ForgetCounts DEF CacheEffect

(* Every action has such an effect. *)
LEMMA EffectStep == TypeOK /\ CallInv /\ [Next]_vars => CacheEffect
<1> SUFFICES ASSUME TypeOK, CallInv, [Next]_vars PROVE CacheEffect
  OBVIOUS
<1>1. ASSUME UNCHANGED vars PROVE CacheEffect
  BY <1>1 DEF vars, callVars, flightVars, cacheVars, dirVars, litterVars, storeVars,
     CacheEffect
<1>2. ASSUME NEW a \in Attachment, PutObject(a) PROVE CacheEffect
  BY <1>2 DEF PutObject, callVars, flightVars, cacheVars, dirVars, litterVars, storeVars,
     CacheEffect
<1>3. ASSUME NEW a \in Attachment, CreateAttachment(a) PROVE CacheEffect
  BY <1>3 DEF CreateAttachment, callVars, flightVars, cacheVars, dirVars, litterVars,
     storeVars, CacheEffect
<1>4. ASSUME NEW a \in Attachment, UndoPut(a) PROVE CacheEffect
  BY <1>4 DEF UndoPut, callVars, flightVars, cacheVars, dirVars, litterVars, storeVars,
     CacheEffect
<1>5. ASSUME NEW a \in Attachment, SoftDelete(a) PROVE CacheEffect
  BY <1>5 DEF SoftDelete, callVars, flightVars, cacheVars, dirVars, litterVars, storeVars,
     CacheEffect
<1>6. ASSUME NEW a \in Attachment, Evict(a) PROVE CacheEffect
  BY <1>6 DEF Evict, callVars, flightVars, cacheVars, dirVars, litterVars, storeVars,
     CacheEffect
<1>7. ASSUME NEW a \in Attachment, Unlink(a) PROVE CacheEffect
  BY <1>7 DEF Unlink, Removed, Left, callVars, flightVars, cacheVars, dirVars, litterVars, storeVars,
     CacheEffect
<1>8. ASSUME NEW a \in Attachment, RemoveObject(a) PROVE CacheEffect
  BY <1>8 DEF RemoveObject, callVars, flightVars, cacheVars, dirVars, litterVars,
     storeVars, CacheEffect
<1>9. ASSUME NEW a \in Attachment, VictimGone(a) PROVE CacheEffect
  <2>1. CASE UNCHANGED cacheVars
    BY <2>1 DEF CacheEffect
  <2>2. CASE ~Refused(a, passed[a]) /\ MakeRoom(a, passed[a])
    <3>1. a \in Attachment /\ passed[a] \in SUBSET Attachment
      BY <1>9 DEF TypeOK, CallInv, Materialize
    <3> QED
      BY <2>2, <3>1, MakeRoomEffect DEF Staged, Evicts, CacheEffect
  <2> QED
    BY <1>9, <2>1, <2>2 DEF VictimGone
<1>10. ASSUME NEW a \in Attachment, MakeStaging(a) PROVE CacheEffect
  BY <1>10 DEF MakeStaging, callVars, flightVars, cacheVars, dirVars, litterVars,
     storeVars, CacheEffect
<1>11. ASSUME NEW a \in Attachment, Fetch(a) PROVE CacheEffect
  BY <1>11 DEF Fetch, callVars, flightVars, cacheVars, dirVars, litterVars, storeVars,
     CacheEffect
<1>12. ASSUME NEW a \in Attachment, Rename(a) PROVE CacheEffect
  BY <1>12 DEF Rename, callVars, flightVars, cacheVars, dirVars, litterVars, storeVars,
     CacheEffect
<1>13. ASSUME NEW c \in Caller, MakeRoot(c) PROVE CacheEffect
  BY <1>13 DEF MakeRoot, UseRoot, callVars, flightVars, cacheVars, dirVars, litterVars, storeVars,
     CacheEffect
<1>14. ASSUME NEW c \in Caller, Hit(c) PROVE CacheEffect
  <2>1. want[c] \in Attachment
    BY <1>14 DEF Hit, CallInv
  <2> QED
    BY <1>14, <2>1 DEF Hit, CacheEffect, Touch, cacheVars
<1>15. ASSUME NEW c \in Caller, Join(c) PROVE CacheEffect
  BY <1>15 DEF Join, callVars, flightVars, cacheVars, dirVars, litterVars, storeVars,
     CacheEffect
<1>16. ASSUME NEW c \in Caller, Materialize(c) PROVE CacheEffect
  <2>1. CASE UNCHANGED cacheVars
    BY <2>1 DEF CacheEffect
  <2>2. CASE ~Refused(want[c], {}) /\ MakeRoom(want[c], {})
    <3>1. want[c] \in Attachment /\ {} \in SUBSET Attachment
      BY <1>16 DEF TypeOK, CallInv, Materialize
    <3> QED
      BY <2>2, <3>1, MakeRoomEffect DEF Staged, Evicts, CacheEffect
  <2> QED
    BY <1>16, <2>1, <2>2 DEF Materialize
<1>17. ASSUME NEW c \in Caller, NEW a \in Attachment, Resolve(c, a) PROVE CacheEffect
  BY <1>17 DEF Resolve, callVars, flightVars, cacheVars, dirVars, litterVars, storeVars,
     CacheEffect
<1>18. ASSUME NEW s \in Session, OpenReader(s) PROVE CacheEffect
  BY <1>18 DEF OpenReader, UseRoot, callVars, flightVars, cacheVars, dirVars, litterVars,
     storeVars, CacheEffect
<1>19. ASSUME NEW s \in Session, Release(s) PROVE CacheEffect
  BY <1>19 DEF Release, callVars, flightVars, cacheVars, dirVars, litterVars, storeVars,
     CacheEffect
<1>20. ASSUME NEW s \in Session, ForgetSession(s) PROVE CacheEffect
  BY <1>20 DEF ForgetSession, callVars, flightVars, cacheVars, dirVars, litterVars,
     storeVars, CacheEffect
<1>21. ASSUME NEW s \in Session, RemoveRoot(s) PROVE CacheEffect
  BY <1>21 DEF RemoveRoot, callVars, flightVars, cacheVars, dirVars, litterVars,
     storeVars, CacheEffect
<1>23. ASSUME NEW s \in Session, NEW a \in Attachment, RemoveFile(s, a) PROVE CacheEffect
  BY <1>23 DEF RemoveFile, Removed, callVars, flightVars, cacheVars, dirVars,
     litterVars, storeVars, CacheEffect
<1>24. ASSUME NEW s \in Session, RemoveStaging(s) PROVE CacheEffect
  BY <1>24 DEF RemoveStaging, callVars, flightVars, cacheVars, dirVars,
     litterVars, storeVars, CacheEffect
<1>25. ASSUME NEW s \in Session, RemovalEnds(s) PROVE CacheEffect
  BY <1>25 DEF RemovalEnds, Left, callVars, flightVars, cacheVars, dirVars,
     litterVars, storeVars, CacheEffect
<1>22. ASSUME Crash PROVE CacheEffect
  BY <1>22 DEF Crash, callVars, flightVars, cacheVars, dirVars, litterVars, storeVars,
     CacheEffect
<1> QED
  BY <1>1, <1>2, <1>3, <1>4, <1>5, <1>6, <1>7, <1>8, <1>9, <1>10, <1>11,
     <1>12, <1>13, <1>14, <1>15, <1>16, <1>17, <1>18, <1>19, <1>20, <1>21,
     <1>22, <1>23, <1>24, <1>25 DEF Next, FlightStep, CallerStep

(* Uploads and removals keep rows and objects together; nothing else touches *)
(* them.                                                                      *)
LEMMA StoreStep == TypeOK /\ StoreInv /\ [Next]_vars => StoreInv'
<1> SUFFICES ASSUME TypeOK, StoreInv, [Next]_vars PROVE StoreInv'
  OBVIOUS
<1>1. ASSUME UNCHANGED vars PROVE StoreInv'
  BY <1>1 DEF vars, callVars, flightVars, cacheVars, dirVars, litterVars, storeVars,
     TypeOK, StoreInv
<1>2. ASSUME NEW a \in Attachment, PutObject(a) PROVE StoreInv'
  BY <1>2 DEF PutObject, callVars, flightVars, cacheVars, dirVars, litterVars, storeVars,
     TypeOK, StoreInv
<1>3. ASSUME NEW a \in Attachment, CreateAttachment(a) PROVE StoreInv'
  BY <1>3 DEF CreateAttachment, callVars, flightVars, cacheVars, dirVars, litterVars,
     storeVars, TypeOK, StoreInv
<1>4. ASSUME NEW a \in Attachment, UndoPut(a) PROVE StoreInv'
  BY <1>4 DEF UndoPut, callVars, flightVars, cacheVars, dirVars, litterVars, storeVars,
     TypeOK, StoreInv
<1>5. ASSUME NEW a \in Attachment, SoftDelete(a) PROVE StoreInv'
  BY <1>5 DEF SoftDelete, callVars, flightVars, cacheVars, dirVars, litterVars, storeVars,
     TypeOK, StoreInv
<1>6. ASSUME NEW a \in Attachment, Evict(a) PROVE StoreInv'
  BY <1>6 DEF Evict, callVars, flightVars, cacheVars, dirVars, litterVars, storeVars,
     TypeOK, StoreInv
<1>7. ASSUME NEW a \in Attachment, Unlink(a) PROVE StoreInv'
  BY <1>7 DEF Unlink, Removed, Left, callVars, flightVars, cacheVars, dirVars, litterVars, storeVars,
     TypeOK, StoreInv
<1>8. ASSUME NEW a \in Attachment, RemoveObject(a) PROVE StoreInv'
  BY <1>8 DEF RemoveObject, callVars, flightVars, cacheVars, dirVars, litterVars,
     storeVars, TypeOK, StoreInv
<1>9. ASSUME NEW a \in Attachment, VictimGone(a) PROVE StoreInv'
  BY <1>9 DEF VictimGone, callVars, flightVars, cacheVars, dirVars, litterVars, storeVars,
     TypeOK, StoreInv
<1>10. ASSUME NEW a \in Attachment, MakeStaging(a) PROVE StoreInv'
  BY <1>10 DEF MakeStaging, callVars, flightVars, cacheVars, dirVars, litterVars,
     storeVars, TypeOK, StoreInv
<1>11. ASSUME NEW a \in Attachment, Fetch(a) PROVE StoreInv'
  BY <1>11 DEF Fetch, callVars, flightVars, cacheVars, dirVars, litterVars, storeVars,
     TypeOK, StoreInv
<1>12. ASSUME NEW a \in Attachment, Rename(a) PROVE StoreInv'
  BY <1>12 DEF Rename, callVars, flightVars, cacheVars, dirVars, litterVars, storeVars,
     TypeOK, StoreInv
<1>13. ASSUME NEW c \in Caller, MakeRoot(c) PROVE StoreInv'
  BY <1>13 DEF MakeRoot, UseRoot, callVars, flightVars, cacheVars, dirVars, litterVars, storeVars,
     TypeOK, StoreInv
<1>14. ASSUME NEW c \in Caller, Hit(c) PROVE StoreInv'
  BY <1>14 DEF Hit, callVars, flightVars, cacheVars, dirVars, litterVars, storeVars,
     TypeOK, StoreInv
<1>15. ASSUME NEW c \in Caller, Join(c) PROVE StoreInv'
  BY <1>15 DEF Join, callVars, flightVars, cacheVars, dirVars, litterVars, storeVars,
     TypeOK, StoreInv
<1>16. ASSUME NEW c \in Caller, Materialize(c) PROVE StoreInv'
  BY <1>16 DEF Materialize, callVars, flightVars, cacheVars, dirVars, litterVars,
     storeVars, TypeOK, StoreInv
<1>17. ASSUME NEW c \in Caller, NEW a \in Attachment, Resolve(c, a) PROVE StoreInv'
  BY <1>17 DEF Resolve, callVars, flightVars, cacheVars, dirVars, litterVars, storeVars,
     TypeOK, StoreInv
<1>18. ASSUME NEW s \in Session, OpenReader(s) PROVE StoreInv'
  BY <1>18 DEF OpenReader, UseRoot, callVars, flightVars, cacheVars, dirVars, litterVars,
     storeVars, TypeOK, StoreInv
<1>19. ASSUME NEW s \in Session, Release(s) PROVE StoreInv'
  BY <1>19 DEF Release, callVars, flightVars, cacheVars, dirVars, litterVars, storeVars,
     TypeOK, StoreInv
<1>20. ASSUME NEW s \in Session, ForgetSession(s) PROVE StoreInv'
  BY <1>20 DEF ForgetSession, callVars, flightVars, cacheVars, dirVars, litterVars,
     storeVars, TypeOK, StoreInv
<1>21. ASSUME NEW s \in Session, RemoveRoot(s) PROVE StoreInv'
  BY <1>21 DEF RemoveRoot, callVars, flightVars, cacheVars, dirVars, litterVars,
     storeVars, TypeOK, StoreInv
<1>23. ASSUME NEW s \in Session, NEW a \in Attachment, RemoveFile(s, a) PROVE StoreInv'
  BY <1>23 DEF RemoveFile, Removed, callVars, flightVars, cacheVars, dirVars,
     litterVars, storeVars, TypeOK, StoreInv
<1>24. ASSUME NEW s \in Session, RemoveStaging(s) PROVE StoreInv'
  BY <1>24 DEF RemoveStaging, callVars, flightVars, cacheVars, dirVars,
     litterVars, storeVars, TypeOK, StoreInv
<1>25. ASSUME NEW s \in Session, RemovalEnds(s) PROVE StoreInv'
  BY <1>25 DEF RemovalEnds, Left, callVars, flightVars, cacheVars, dirVars,
     litterVars, storeVars, TypeOK, StoreInv
<1>22. ASSUME Crash PROVE StoreInv'
  BY <1>22 DEF Crash, callVars, flightVars, cacheVars, dirVars, litterVars, storeVars,
     TypeOK, StoreInv
<1> QED
  BY <1>1, <1>2, <1>3, <1>4, <1>5, <1>6, <1>7, <1>8, <1>9, <1>10, <1>11,
     <1>12, <1>13, <1>14, <1>15, <1>16, <1>17, <1>18, <1>19, <1>20, <1>21,
     <1>22, <1>23, <1>24, <1>25 DEF Next, FlightStep, CallerStep

(* A root that exists is known to the sweep or about to go. *)
LEMMA RootStep == TypeOK /\ CallInv /\ RootInv /\ [Next]_vars => RootInv'
<1> SUFFICES ASSUME TypeOK, CallInv, RootInv, [Next]_vars PROVE RootInv'
  OBVIOUS
<1>1. ASSUME UNCHANGED vars PROVE RootInv'
  BY <1>1 DEF vars, callVars, flightVars, cacheVars, dirVars, litterVars, storeVars,
     TypeOK, RootInv
<1>2. ASSUME NEW a \in Attachment, PutObject(a) PROVE RootInv'
  BY <1>2 DEF PutObject, callVars, flightVars, cacheVars, dirVars, litterVars, storeVars,
     TypeOK, RootInv
<1>3. ASSUME NEW a \in Attachment, CreateAttachment(a) PROVE RootInv'
  BY <1>3 DEF CreateAttachment, callVars, flightVars, cacheVars, dirVars, litterVars,
     storeVars, TypeOK, RootInv
<1>4. ASSUME NEW a \in Attachment, UndoPut(a) PROVE RootInv'
  BY <1>4 DEF UndoPut, callVars, flightVars, cacheVars, dirVars, litterVars, storeVars,
     TypeOK, RootInv
<1>5. ASSUME NEW a \in Attachment, SoftDelete(a) PROVE RootInv'
  BY <1>5 DEF SoftDelete, callVars, flightVars, cacheVars, dirVars, litterVars, storeVars,
     TypeOK, RootInv
<1>6. ASSUME NEW a \in Attachment, Evict(a) PROVE RootInv'
  BY <1>6 DEF Evict, callVars, flightVars, cacheVars, dirVars, litterVars, storeVars,
     TypeOK, RootInv
<1>7. ASSUME NEW a \in Attachment, Unlink(a) PROVE RootInv'
  BY <1>7 DEF Unlink, Removed, Left, callVars, flightVars, cacheVars, dirVars, litterVars, storeVars,
     TypeOK, RootInv
<1>8. ASSUME NEW a \in Attachment, RemoveObject(a) PROVE RootInv'
  BY <1>8 DEF RemoveObject, callVars, flightVars, cacheVars, dirVars, litterVars,
     storeVars, TypeOK, RootInv
<1>9. ASSUME NEW a \in Attachment, VictimGone(a) PROVE RootInv'
  BY <1>9 DEF VictimGone, callVars, flightVars, cacheVars, dirVars, litterVars, storeVars,
     TypeOK, RootInv
<1>10. ASSUME NEW a \in Attachment, MakeStaging(a) PROVE RootInv'
  BY <1>10 DEF MakeStaging, callVars, flightVars, cacheVars, dirVars, litterVars,
     storeVars, TypeOK, RootInv
<1>11. ASSUME NEW a \in Attachment, Fetch(a) PROVE RootInv'
  BY <1>11 DEF Fetch, callVars, flightVars, cacheVars, dirVars, litterVars, storeVars,
     TypeOK, RootInv
<1>12. ASSUME NEW a \in Attachment, Rename(a) PROVE RootInv'
  BY <1>12 DEF Rename, callVars, flightVars, cacheVars, dirVars, litterVars, storeVars,
     TypeOK, RootInv
<1>13. ASSUME NEW c \in Caller, MakeRoot(c) PROVE RootInv'
  BY <1>13 DEF MakeRoot, UseRoot, callVars, flightVars, cacheVars, dirVars, litterVars, storeVars,
     TypeOK, RootInv
<1>14. ASSUME NEW c \in Caller, Hit(c) PROVE RootInv'
  BY <1>14 DEF Hit, callVars, flightVars, cacheVars, dirVars, litterVars, storeVars,
     TypeOK, RootInv
<1>15. ASSUME NEW c \in Caller, Join(c) PROVE RootInv'
  BY <1>15 DEF Join, callVars, flightVars, cacheVars, dirVars, litterVars, storeVars,
     TypeOK, RootInv
<1>16. ASSUME NEW c \in Caller, Materialize(c) PROVE RootInv'
  BY <1>16 DEF Materialize, callVars, flightVars, cacheVars, dirVars, litterVars,
     storeVars, TypeOK, RootInv
<1>17. ASSUME NEW c \in Caller, NEW a \in Attachment, Resolve(c, a) PROVE RootInv'
  BY <1>17 DEF Resolve, callVars, flightVars, cacheVars, dirVars, litterVars, storeVars,
     TypeOK, RootInv
<1>18. ASSUME NEW s \in Session, OpenReader(s) PROVE RootInv'
  BY <1>18 DEF OpenReader, UseRoot, callVars, flightVars, cacheVars, dirVars, litterVars,
     storeVars, TypeOK, RootInv
<1>19. ASSUME NEW s \in Session, Release(s) PROVE RootInv'
  BY <1>19 DEF Release, callVars, flightVars, cacheVars, dirVars, litterVars, storeVars,
     TypeOK, RootInv
<1>20. ASSUME NEW s \in Session, ForgetSession(s) PROVE RootInv'
  BY <1>20 DEF ForgetSession, callVars, flightVars, cacheVars, dirVars, litterVars,
     storeVars, TypeOK, RootInv
<1>21. ASSUME NEW s \in Session, RemoveRoot(s) PROVE RootInv'
  BY <1>21 DEF RemoveRoot, callVars, flightVars, cacheVars, dirVars, litterVars,
     storeVars, TypeOK, RootInv
<1>23. ASSUME NEW s \in Session, NEW a \in Attachment, RemoveFile(s, a) PROVE RootInv'
  BY <1>23 DEF RemoveFile, Removed, callVars, flightVars, cacheVars, dirVars,
     litterVars, storeVars, TypeOK, RootInv
<1>24. ASSUME NEW s \in Session, RemoveStaging(s) PROVE RootInv'
  BY <1>24 DEF RemoveStaging, callVars, flightVars, cacheVars, dirVars,
     litterVars, storeVars, TypeOK, RootInv
<1>25. ASSUME NEW s \in Session, RemovalEnds(s) PROVE RootInv'
  BY <1>25 DEF RemovalEnds, Left, callVars, flightVars, cacheVars, dirVars,
     litterVars, storeVars, TypeOK, RootInv
<1>22. ASSUME Crash PROVE RootInv'
  BY <1>22 DEF Crash, callVars, flightVars, cacheVars, dirVars, litterVars, storeVars,
     TypeOK, RootInv
<1> QED
  BY <1>1, <1>2, <1>3, <1>4, <1>5, <1>6, <1>7, <1>8, <1>9, <1>10, <1>11,
     <1>12, <1>13, <1>14, <1>15, <1>16, <1>17, <1>18, <1>19, <1>20, <1>21,
     <1>22, <1>23, <1>24, <1>25 DEF Next, FlightStep, CallerStep

(* A file is in a root that exists: a root is removed when it is empty. *)
LEMMA DiskStep == TypeOK /\ CallInv /\ DiskInv /\ [Next]_vars => DiskInv'
<1> SUFFICES ASSUME TypeOK, CallInv, DiskInv, [Next]_vars PROVE DiskInv'
  OBVIOUS
<1>0. SessionOf \in [Attachment -> Session] /\ disk \subseteq Attachment
  BY AttachmentAssumption DEF TypeOK
<1>1. ASSUME UNCHANGED vars PROVE DiskInv'
  BY <1>1 DEF vars, callVars, flightVars, cacheVars, dirVars, litterVars, storeVars,
     TypeOK, DiskInv
<1>2. ASSUME NEW a \in Attachment, PutObject(a) PROVE DiskInv'
  BY <1>2 DEF PutObject, callVars, flightVars, cacheVars, dirVars, litterVars, storeVars,
     TypeOK, DiskInv
<1>3. ASSUME NEW a \in Attachment, CreateAttachment(a) PROVE DiskInv'
  BY <1>3 DEF CreateAttachment, callVars, flightVars, cacheVars, dirVars, litterVars,
     storeVars, TypeOK, DiskInv
<1>4. ASSUME NEW a \in Attachment, UndoPut(a) PROVE DiskInv'
  BY <1>4 DEF UndoPut, callVars, flightVars, cacheVars, dirVars, litterVars, storeVars,
     TypeOK, DiskInv
<1>5. ASSUME NEW a \in Attachment, SoftDelete(a) PROVE DiskInv'
  BY <1>5 DEF SoftDelete, callVars, flightVars, cacheVars, dirVars, litterVars, storeVars,
     TypeOK, DiskInv
<1>6. ASSUME NEW a \in Attachment, Evict(a) PROVE DiskInv'
  BY <1>6 DEF Evict, callVars, flightVars, cacheVars, dirVars, litterVars, storeVars,
     TypeOK, DiskInv
<1>7. ASSUME NEW a \in Attachment, Unlink(a) PROVE DiskInv'
  BY <1>7 DEF Unlink, Removed, Left, callVars, flightVars, cacheVars, dirVars, litterVars, storeVars,
     TypeOK, DiskInv
<1>8. ASSUME NEW a \in Attachment, RemoveObject(a) PROVE DiskInv'
  BY <1>8 DEF RemoveObject, callVars, flightVars, cacheVars, dirVars, litterVars,
     storeVars, TypeOK, DiskInv
<1>9. ASSUME NEW a \in Attachment, VictimGone(a) PROVE DiskInv'
  BY <1>9 DEF VictimGone, Removed, Left, callVars, flightVars, cacheVars, dirVars, litterVars, storeVars,
     TypeOK, DiskInv
<1>10. ASSUME NEW a \in Attachment, MakeStaging(a) PROVE DiskInv'
  BY <1>10 DEF MakeStaging, callVars, flightVars, cacheVars, dirVars, litterVars,
     storeVars, TypeOK, DiskInv
<1>11. ASSUME NEW a \in Attachment, Fetch(a) PROVE DiskInv'
  BY <1>11 DEF Fetch, callVars, flightVars, cacheVars, dirVars, litterVars, storeVars,
     TypeOK, DiskInv
<1>12. ASSUME NEW a \in Attachment, Rename(a) PROVE DiskInv'
  BY <1>0, <1>12 DEF Rename, callVars, flightVars, cacheVars, dirVars, litterVars, storeVars,
     TypeOK, DiskInv
<1>13. ASSUME NEW c \in Caller, MakeRoot(c) PROVE DiskInv'
  BY <1>13 DEF MakeRoot, UseRoot, callVars, flightVars, cacheVars, dirVars, litterVars, storeVars,
     TypeOK, DiskInv
<1>14. ASSUME NEW c \in Caller, Hit(c) PROVE DiskInv'
  BY <1>14 DEF Hit, callVars, flightVars, cacheVars, dirVars, litterVars, storeVars,
     TypeOK, DiskInv
<1>15. ASSUME NEW c \in Caller, Join(c) PROVE DiskInv'
  BY <1>15 DEF Join, callVars, flightVars, cacheVars, dirVars, litterVars, storeVars,
     TypeOK, DiskInv
<1>16. ASSUME NEW c \in Caller, Materialize(c) PROVE DiskInv'
  BY <1>16 DEF Materialize, callVars, flightVars, cacheVars, dirVars, litterVars,
     storeVars, TypeOK, DiskInv
<1>17. ASSUME NEW c \in Caller, NEW a \in Attachment, Resolve(c, a) PROVE DiskInv'
  BY <1>17 DEF Resolve, callVars, flightVars, cacheVars, dirVars, litterVars, storeVars,
     TypeOK, DiskInv
<1>18. ASSUME NEW s \in Session, OpenReader(s) PROVE DiskInv'
  BY <1>18 DEF OpenReader, UseRoot, callVars, flightVars, cacheVars, dirVars, litterVars,
     storeVars, TypeOK, DiskInv
<1>19. ASSUME NEW s \in Session, Release(s) PROVE DiskInv'
  BY <1>19 DEF Release, callVars, flightVars, cacheVars, dirVars, litterVars, storeVars,
     TypeOK, DiskInv
<1>20. ASSUME NEW s \in Session, ForgetSession(s) PROVE DiskInv'
  BY <1>20 DEF ForgetSession, callVars, flightVars, cacheVars, dirVars, litterVars,
     storeVars, TypeOK, DiskInv
<1>21. ASSUME NEW s \in Session, RemoveRoot(s) PROVE DiskInv'
  BY <1>0, <1>21 DEF RemoveRoot, Of, callVars, flightVars, cacheVars, dirVars, litterVars,
     storeVars, TypeOK, DiskInv
<1>23. ASSUME NEW s \in Session, NEW a \in Attachment, RemoveFile(s, a) PROVE DiskInv'
  BY <1>23 DEF RemoveFile, Removed, callVars, flightVars, cacheVars, dirVars,
     litterVars, storeVars, TypeOK, DiskInv
<1>24. ASSUME NEW s \in Session, RemoveStaging(s) PROVE DiskInv'
  BY <1>24 DEF RemoveStaging, callVars, flightVars, cacheVars, dirVars,
     litterVars, storeVars, TypeOK, DiskInv
<1>25. ASSUME NEW s \in Session, RemovalEnds(s) PROVE DiskInv'
  BY <1>25 DEF RemovalEnds, Left, callVars, flightVars, cacheVars, dirVars,
     litterVars, storeVars, TypeOK, DiskInv
<1>22. ASSUME Crash PROVE DiskInv'
  BY <1>22 DEF Crash, callVars, flightVars, cacheVars, dirVars, litterVars, storeVars,
     TypeOK, DiskInv
<1> QED
  BY <1>1, <1>2, <1>3, <1>4, <1>5, <1>6, <1>7, <1>8, <1>9, <1>10, <1>11,
     <1>12, <1>13, <1>14, <1>15, <1>16, <1>17, <1>18, <1>19, <1>20, <1>21,
     <1>22, <1>23, <1>24, <1>25 DEF Next, FlightStep, CallerStep

(* A call under way names its attachment. *)
LEMMA CallStep == TypeOK /\ CallInv /\ [Next]_vars => CallInv'
<1> SUFFICES ASSUME TypeOK, CallInv, [Next]_vars PROVE CallInv'
  OBVIOUS
<1>1. ASSUME UNCHANGED vars PROVE CallInv'
  BY <1>1 DEF vars, callVars, flightVars, cacheVars, dirVars, litterVars, storeVars,
     TypeOK, CallInv, Settle, Answer
<1>2. ASSUME NEW a \in Attachment, PutObject(a) PROVE CallInv'
  BY <1>2 DEF PutObject, callVars, flightVars, cacheVars, dirVars, litterVars, storeVars,
     TypeOK, CallInv, Settle, Answer
<1>3. ASSUME NEW a \in Attachment, CreateAttachment(a) PROVE CallInv'
  BY <1>3 DEF CreateAttachment, callVars, flightVars, cacheVars, dirVars, litterVars,
     storeVars, TypeOK, CallInv, Settle, Answer
<1>4. ASSUME NEW a \in Attachment, UndoPut(a) PROVE CallInv'
  BY <1>4 DEF UndoPut, callVars, flightVars, cacheVars, dirVars, litterVars, storeVars,
     TypeOK, CallInv, Settle, Answer
<1>5. ASSUME NEW a \in Attachment, SoftDelete(a) PROVE CallInv'
  BY <1>5 DEF SoftDelete, callVars, flightVars, cacheVars, dirVars, litterVars, storeVars,
     TypeOK, CallInv, Settle, Answer
<1>6. ASSUME NEW a \in Attachment, Evict(a) PROVE CallInv'
  BY <1>6 DEF Evict, callVars, flightVars, cacheVars, dirVars, litterVars, storeVars,
     TypeOK, CallInv, Settle, Answer
<1>7. ASSUME NEW a \in Attachment, Unlink(a) PROVE CallInv'
  BY <1>7 DEF Unlink, Removed, Left, callVars, flightVars, cacheVars, dirVars, litterVars, storeVars,
     TypeOK, CallInv, Settle, Answer
<1>8. ASSUME NEW a \in Attachment, RemoveObject(a) PROVE CallInv'
  BY <1>8 DEF RemoveObject, callVars, flightVars, cacheVars, dirVars, litterVars,
     storeVars, TypeOK, CallInv, Settle, Answer
<1>9. ASSUME NEW a \in Attachment, VictimGone(a) PROVE CallInv'
  BY <1>9 DEF VictimGone, callVars, flightVars, cacheVars, dirVars, litterVars, storeVars,
     TypeOK, CallInv, Settle, Answer
<1>10. ASSUME NEW a \in Attachment, MakeStaging(a) PROVE CallInv'
  BY <1>10 DEF MakeStaging, callVars, flightVars, cacheVars, dirVars, litterVars,
     storeVars, TypeOK, CallInv, Settle, Answer
<1>11. ASSUME NEW a \in Attachment, Fetch(a) PROVE CallInv'
  BY <1>11 DEF Fetch, callVars, flightVars, cacheVars, dirVars, litterVars, storeVars,
     TypeOK, CallInv, Settle, Answer
<1>12. ASSUME NEW a \in Attachment, Rename(a) PROVE CallInv'
  BY <1>12 DEF Rename, callVars, flightVars, cacheVars, dirVars, litterVars, storeVars,
     TypeOK, CallInv, Settle, Answer
<1>13. ASSUME NEW c \in Caller, MakeRoot(c) PROVE CallInv'
  BY <1>13 DEF MakeRoot, UseRoot, callVars, flightVars, cacheVars, dirVars, litterVars, storeVars,
     TypeOK, CallInv, Settle, Answer
<1>14. ASSUME NEW c \in Caller, Hit(c) PROVE CallInv'
  BY <1>14 DEF Hit, callVars, flightVars, cacheVars, dirVars, litterVars, storeVars,
     TypeOK, CallInv, Settle, Answer
<1>15. ASSUME NEW c \in Caller, Join(c) PROVE CallInv'
  BY <1>15 DEF Join, callVars, flightVars, cacheVars, dirVars, litterVars, storeVars,
     TypeOK, CallInv, Settle, Answer
<1>16. ASSUME NEW c \in Caller, Materialize(c) PROVE CallInv'
  BY <1>16 DEF Materialize, callVars, flightVars, cacheVars, dirVars, litterVars,
     storeVars, TypeOK, CallInv, Settle, Answer
<1>17. ASSUME NEW c \in Caller, NEW a \in Attachment, Resolve(c, a) PROVE CallInv'
  BY <1>17 DEF Resolve, callVars, flightVars, cacheVars, dirVars, litterVars, storeVars,
     TypeOK, CallInv, Settle, Answer
<1>18. ASSUME NEW s \in Session, OpenReader(s) PROVE CallInv'
  BY <1>18 DEF OpenReader, UseRoot, callVars, flightVars, cacheVars, dirVars, litterVars,
     storeVars, TypeOK, CallInv, Settle, Answer
<1>19. ASSUME NEW s \in Session, Release(s) PROVE CallInv'
  BY <1>19 DEF Release, callVars, flightVars, cacheVars, dirVars, litterVars, storeVars,
     TypeOK, CallInv, Settle, Answer
<1>20. ASSUME NEW s \in Session, ForgetSession(s) PROVE CallInv'
  BY <1>20 DEF ForgetSession, callVars, flightVars, cacheVars, dirVars, litterVars,
     storeVars, TypeOK, CallInv, Settle, Answer
<1>21. ASSUME NEW s \in Session, RemoveRoot(s) PROVE CallInv'
  BY <1>21 DEF RemoveRoot, callVars, flightVars, cacheVars, dirVars, litterVars,
     storeVars, TypeOK, CallInv, Settle, Answer
<1>23. ASSUME NEW s \in Session, NEW a \in Attachment, RemoveFile(s, a) PROVE CallInv'
  BY <1>23 DEF RemoveFile, Removed, callVars, flightVars, cacheVars, dirVars,
     litterVars, storeVars, TypeOK, CallInv
<1>24. ASSUME NEW s \in Session, RemoveStaging(s) PROVE CallInv'
  BY <1>24 DEF RemoveStaging, callVars, flightVars, cacheVars, dirVars,
     litterVars, storeVars, TypeOK, CallInv
<1>25. ASSUME NEW s \in Session, RemovalEnds(s) PROVE CallInv'
  BY <1>25 DEF RemovalEnds, Left, callVars, flightVars, cacheVars, dirVars,
     litterVars, storeVars, TypeOK, CallInv
<1>22. ASSUME Crash PROVE CallInv'
  BY <1>22 DEF Crash, callVars, flightVars, cacheVars, dirVars, litterVars, storeVars,
     TypeOK, CallInv, Settle, Answer
<1> QED
  BY <1>1, <1>2, <1>3, <1>4, <1>5, <1>6, <1>7, <1>8, <1>9, <1>10, <1>11,
     <1>12, <1>13, <1>14, <1>15, <1>16, <1>17, <1>18, <1>19, <1>20, <1>21,
     <1>22, <1>23, <1>24, <1>25 DEF Next, FlightStep, CallerStep

(* Only an evicting flight has a victim. *)
LEMMA FlightsStep == TypeOK /\ CallInv /\ FlightInv /\ [Next]_vars => FlightInv'
<1> SUFFICES ASSUME TypeOK, CallInv, FlightInv, [Next]_vars PROVE FlightInv'
  OBVIOUS
<1>1. ASSUME UNCHANGED vars PROVE FlightInv'
  BY <1>1 DEF vars, callVars, flightVars, cacheVars, dirVars, litterVars, storeVars,
     TypeOK, FlightInv, Settle
<1>2. ASSUME NEW a \in Attachment, PutObject(a) PROVE FlightInv'
  BY <1>2 DEF PutObject, callVars, flightVars, cacheVars, dirVars, litterVars, storeVars,
     TypeOK, FlightInv, Settle
<1>3. ASSUME NEW a \in Attachment, CreateAttachment(a) PROVE FlightInv'
  BY <1>3 DEF CreateAttachment, callVars, flightVars, cacheVars, dirVars, litterVars,
     storeVars, TypeOK, FlightInv, Settle
<1>4. ASSUME NEW a \in Attachment, UndoPut(a) PROVE FlightInv'
  BY <1>4 DEF UndoPut, callVars, flightVars, cacheVars, dirVars, litterVars, storeVars,
     TypeOK, FlightInv, Settle
<1>5. ASSUME NEW a \in Attachment, SoftDelete(a) PROVE FlightInv'
  BY <1>5 DEF SoftDelete, callVars, flightVars, cacheVars, dirVars, litterVars, storeVars,
     TypeOK, FlightInv, Settle
<1>6. ASSUME NEW a \in Attachment, Evict(a) PROVE FlightInv'
  BY <1>6 DEF Evict, callVars, flightVars, cacheVars, dirVars, litterVars, storeVars,
     TypeOK, FlightInv, Settle
<1>7. ASSUME NEW a \in Attachment, Unlink(a) PROVE FlightInv'
  BY <1>7 DEF Unlink, Removed, Left, callVars, flightVars, cacheVars, dirVars, litterVars, storeVars,
     TypeOK, FlightInv, Settle
<1>8. ASSUME NEW a \in Attachment, RemoveObject(a) PROVE FlightInv'
  BY <1>8 DEF RemoveObject, callVars, flightVars, cacheVars, dirVars, litterVars,
     storeVars, TypeOK, FlightInv, Settle
<1>9. ASSUME NEW a \in Attachment, VictimGone(a) PROVE FlightInv'
  <2>1. CASE Settle(a)
    BY <2>1 DEF TypeOK, FlightInv, Settle
  <2>2. CASE ~Refused(a, passed[a]) /\ MakeRoom(a, passed[a])
    <3>1. passed[a] \in SUBSET Attachment
      BY DEF TypeOK
    <3>2. Staged(a) \/ \E v \in Attachment, q \in SUBSET Attachment : Evicts(a, v, q)
      BY <2>2, <3>1, MakeRoomEffect
    <3> QED
      BY <3>2, RoomShape DEF FlightInv
  <2> QED
    BY <1>9, <2>1, <2>2 DEF VictimGone
<1>10. ASSUME NEW a \in Attachment, MakeStaging(a) PROVE FlightInv'
  BY <1>10 DEF MakeStaging, callVars, flightVars, cacheVars, dirVars, litterVars,
     storeVars, TypeOK, FlightInv, Settle
<1>11. ASSUME NEW a \in Attachment, Fetch(a) PROVE FlightInv'
  BY <1>11 DEF Fetch, callVars, flightVars, cacheVars, dirVars, litterVars, storeVars,
     TypeOK, FlightInv, Settle
<1>12. ASSUME NEW a \in Attachment, Rename(a) PROVE FlightInv'
  BY <1>12 DEF Rename, callVars, flightVars, cacheVars, dirVars, litterVars, storeVars,
     TypeOK, FlightInv, Settle
<1>13. ASSUME NEW c \in Caller, MakeRoot(c) PROVE FlightInv'
  BY <1>13 DEF MakeRoot, UseRoot, callVars, flightVars, cacheVars, dirVars, litterVars, storeVars,
     TypeOK, FlightInv, Settle
<1>14. ASSUME NEW c \in Caller, Hit(c) PROVE FlightInv'
  BY <1>14 DEF Hit, callVars, flightVars, cacheVars, dirVars, litterVars, storeVars,
     TypeOK, FlightInv, Settle
<1>15. ASSUME NEW c \in Caller, Join(c) PROVE FlightInv'
  BY <1>15 DEF Join, callVars, flightVars, cacheVars, dirVars, litterVars, storeVars,
     TypeOK, FlightInv, Settle
<1>16. ASSUME NEW c \in Caller, Materialize(c) PROVE FlightInv'
  <2> DEFINE a == want[c]
  <2>0. a \in Attachment
    BY <1>16 DEF Materialize, CallInv
  <2>1. CASE UNCHANGED flightVars
    BY <2>1 DEF flightVars, FlightInv
  <2>2. CASE ~Refused(a, {}) /\ MakeRoom(a, {})
    <3>1. Staged(a) \/ \E v \in Attachment, q \in SUBSET Attachment : Evicts(a, v, q)
      BY <2>0, <2>2, MakeRoomEffect
    <3> QED
      BY <2>0, <3>1, RoomShape DEF FlightInv
  <2> QED
    BY <1>16, <2>1, <2>2 DEF Materialize
<1>17. ASSUME NEW c \in Caller, NEW a \in Attachment, Resolve(c, a) PROVE FlightInv'
  BY <1>17 DEF Resolve, callVars, flightVars, cacheVars, dirVars, litterVars, storeVars,
     TypeOK, FlightInv, Settle
<1>18. ASSUME NEW s \in Session, OpenReader(s) PROVE FlightInv'
  BY <1>18 DEF OpenReader, UseRoot, callVars, flightVars, cacheVars, dirVars, litterVars,
     storeVars, TypeOK, FlightInv, Settle
<1>19. ASSUME NEW s \in Session, Release(s) PROVE FlightInv'
  BY <1>19 DEF Release, callVars, flightVars, cacheVars, dirVars, litterVars, storeVars,
     TypeOK, FlightInv, Settle
<1>20. ASSUME NEW s \in Session, ForgetSession(s) PROVE FlightInv'
  BY <1>20 DEF ForgetSession, callVars, flightVars, cacheVars, dirVars, litterVars,
     storeVars, TypeOK, FlightInv, Settle
<1>21. ASSUME NEW s \in Session, RemoveRoot(s) PROVE FlightInv'
  BY <1>21 DEF RemoveRoot, callVars, flightVars, cacheVars, dirVars, litterVars,
     storeVars, TypeOK, FlightInv, Settle
<1>23. ASSUME NEW s \in Session, NEW a \in Attachment, RemoveFile(s, a) PROVE FlightInv'
  BY <1>23 DEF RemoveFile, Removed, callVars, flightVars, cacheVars, dirVars,
     litterVars, storeVars, TypeOK, FlightInv
<1>24. ASSUME NEW s \in Session, RemoveStaging(s) PROVE FlightInv'
  BY <1>24 DEF RemoveStaging, callVars, flightVars, cacheVars, dirVars,
     litterVars, storeVars, TypeOK, FlightInv
<1>25. ASSUME NEW s \in Session, RemovalEnds(s) PROVE FlightInv'
  BY <1>25 DEF RemovalEnds, Left, callVars, flightVars, cacheVars, dirVars,
     litterVars, storeVars, TypeOK, FlightInv
<1>22. ASSUME Crash PROVE FlightInv'
  BY <1>22 DEF Crash, callVars, flightVars, cacheVars, dirVars, litterVars, storeVars,
     TypeOK, FlightInv, Settle
<1> QED
  BY <1>1, <1>2, <1>3, <1>4, <1>5, <1>6, <1>7, <1>8, <1>9, <1>10, <1>11,
     <1>12, <1>13, <1>14, <1>15, <1>16, <1>17, <1>18, <1>19, <1>20, <1>21,
     <1>22, <1>23, <1>24, <1>25 DEF Next, FlightStep, CallerStep

(* Every action keeps the types. *)
LEMMA TypeStep == TypeOK /\ CallInv /\ UsedAccounting /\ [Next]_vars => TypeOK'
<1> SUFFICES ASSUME TypeOK, CallInv, UsedAccounting, [Next]_vars PROVE TypeOK'
  OBVIOUS
<1>0. entries' \in Seq(Attachment) /\ used' \in Nat
  BY EffectStep, EffectCounts
<1>1. ASSUME UNCHANGED vars PROVE TypeOK'
  BY <1>1, <1>0 DEF vars, callVars, flightVars, cacheVars, dirVars, litterVars, storeVars,
     TypeOK, Settle, Answer, MovedToEnd
<1>2. ASSUME NEW a \in Attachment, PutObject(a) PROVE TypeOK'
  BY <1>2, <1>0 DEF PutObject, callVars, flightVars, cacheVars, dirVars, litterVars,
     storeVars, TypeOK, Settle, Answer, MovedToEnd
<1>3. ASSUME NEW a \in Attachment, CreateAttachment(a) PROVE TypeOK'
  <2>1. /\ rows' \in [Attachment -> {"none", "live", "deleted"}]
        /\ upload' \in [Attachment -> {"new", "written", "undo", "done"}]
    <3>1. /\ rows' = rows \/ rows' = [rows EXCEPT ![a] = "live"]
          /\ \E x \in {"undo", "done"} : upload' = [upload EXCEPT ![a] = x]
      BY <1>3 DEF CreateAttachment
    <3> QED
      BY <3>1 DEF TypeOK
  <2> QED
    BY <1>3, <1>0, <2>1 DEF CreateAttachment, callVars, flightVars, dirVars, litterVars, TypeOK
<1>4. ASSUME NEW a \in Attachment, UndoPut(a) PROVE TypeOK'
  BY <1>4, <1>0 DEF UndoPut, callVars, flightVars, cacheVars, dirVars, litterVars,
     storeVars, TypeOK, Settle, Answer, MovedToEnd
<1>5. ASSUME NEW a \in Attachment, SoftDelete(a) PROVE TypeOK'
  BY <1>5, <1>0 DEF SoftDelete, callVars, flightVars, cacheVars, dirVars, litterVars,
     storeVars, TypeOK, Settle, Answer, MovedToEnd
<1>6. ASSUME NEW a \in Attachment, Evict(a) PROVE TypeOK'
  <2>1. removal' \in [Attachment -> {"no", "evict", "unlink", "object", "done"}]
    BY <1>6 DEF Evict, TypeOK
  <2> QED
    BY <1>6, <1>0, <2>1 DEF Evict, callVars, flightVars, dirVars, litterVars, TypeOK
<1>7. ASSUME NEW a \in Attachment, Unlink(a) PROVE TypeOK'
  BY <1>7, <1>0 DEF Unlink, Removed, Left, callVars, flightVars, cacheVars, dirVars, litterVars,
     storeVars, TypeOK, Settle, Answer, MovedToEnd
<1>8. ASSUME NEW a \in Attachment, RemoveObject(a) PROVE TypeOK'
  BY <1>8, <1>0 DEF RemoveObject, callVars, flightVars, cacheVars, dirVars, litterVars,
     storeVars, TypeOK, Settle, Answer, MovedToEnd
<1>9. ASSUME NEW a \in Attachment, VictimGone(a) PROVE TypeOK'
  <2>1. /\ flight' \in [Attachment -> {"none", "evicting", "staging", "fetch", "rename"}]
        /\ victim' \in [Attachment -> Attachment \cup {NoFile}]
        /\ passed' \in [Attachment -> SUBSET Attachment]
    <3>1. CASE Settle(a) /\ passed' = [passed EXCEPT ![a] = {}]
      BY <3>1 DEF Settle, TypeOK
    <3>2. CASE ~Refused(a, passed[a]) /\ MakeRoom(a, passed[a])
      <4>1. passed[a] \in SUBSET Attachment
        BY DEF TypeOK
      <4> QED
        BY <3>2, <4>1, MakeRoomEffect, RoomShape
    <3> QED
      BY <1>9, <3>1, <3>2 DEF VictimGone
  <2>2. pc' \in [Caller -> {"idle", "root", "stat", "join"}] /\ want' \in [Caller -> Attachment \cup {NoFile}]
    BY <1>9 DEF VictimGone, Settle, Answer, callVars, TypeOK
  <2> QED
    BY <1>0, <1>9, <2>1, <2>2 DEF VictimGone, Removed, Left, storeVars, TypeOK
<1>10. ASSUME NEW a \in Attachment, MakeStaging(a) PROVE TypeOK'
  BY <1>10, <1>0 DEF MakeStaging, callVars, flightVars, cacheVars, dirVars, litterVars,
     storeVars, TypeOK, Settle, Answer, MovedToEnd
<1>11. ASSUME NEW a \in Attachment, Fetch(a) PROVE TypeOK'
  <2>1. \E x \in {"none", "rename"} : flight' = [flight EXCEPT ![a] = x]
    BY <1>11 DEF Fetch, Settle
  <2>2. flight' \in [Attachment -> {"none", "evicting", "staging", "fetch", "rename"}]
    BY <2>1 DEF TypeOK
  <2>3. /\ pc' \in [Caller -> {"idle", "root", "stat", "join"}]
        /\ want' \in [Caller -> Attachment \cup {NoFile}]
        /\ victim' \in [Attachment -> Attachment \cup {NoFile}]
    BY <1>11 DEF Fetch, Settle, Answer, callVars, TypeOK
  <2> QED
    BY <1>11, <1>0, <2>2, <2>3 DEF Fetch, litterVars, storeVars, TypeOK
<1>12. ASSUME NEW a \in Attachment, Rename(a) PROVE TypeOK'
  <2>1. passed' \in [Attachment -> SUBSET Attachment]
    BY <1>12 DEF Rename, MovedToEnd, TypeOK
  <2>2. /\ flight' \in [Attachment -> {"none", "evicting", "staging", "fetch", "rename"}]
        /\ victim' \in [Attachment -> Attachment \cup {NoFile}]
        /\ pc' \in [Caller -> {"idle", "root", "stat", "join"}] /\ want' \in [Caller -> Attachment \cup {NoFile}]
    BY <1>12 DEF Rename, Settle, Answer, TypeOK
  <2>3. disk' \subseteq Attachment /\ temp' \subseteq Attachment
    BY <1>12 DEF Rename, TypeOK
  <2> QED
    BY <1>0, <1>12, <2>1, <2>2, <2>3 DEF Rename, storeVars, TypeOK
<1>13. ASSUME NEW c \in Caller, MakeRoot(c) PROVE TypeOK'
  BY <1>13, <1>0, AttachmentAssumption DEF MakeRoot, UseRoot, callVars, flightVars,
     cacheVars, dirVars, litterVars, storeVars, TypeOK, Settle, Answer, MovedToEnd,
     CallInv
<1>14. ASSUME NEW c \in Caller, Hit(c) PROVE TypeOK'
  BY <1>14, <1>0 DEF Hit, callVars, flightVars, cacheVars, dirVars, litterVars, storeVars,
     TypeOK, Settle, Answer, MovedToEnd
<1>15. ASSUME NEW c \in Caller, Join(c) PROVE TypeOK'
  BY <1>15, <1>0 DEF Join, callVars, flightVars, cacheVars, dirVars, litterVars,
     storeVars, TypeOK, Settle, Answer, MovedToEnd
<1>16. ASSUME NEW c \in Caller, Materialize(c) PROVE TypeOK'
  <2>1. /\ flight' \in [Attachment -> {"none", "evicting", "staging", "fetch", "rename"}]
        /\ victim' \in [Attachment -> Attachment \cup {NoFile}]
        /\ passed' \in [Attachment -> SUBSET Attachment]
    <3>1. CASE UNCHANGED flightVars
      BY <3>1 DEF flightVars, TypeOK
    <3>2. CASE ~Refused(want[c], {}) /\ MakeRoom(want[c], {})
      <4>1. want[c] \in Attachment
        BY <1>16 DEF Materialize, CallInv
      <4> QED
        BY <3>2, <4>1, MakeRoomEffect, RoomShape
    <3> QED
      BY <1>16, <3>1, <3>2 DEF Materialize
  <2>2. pc' \in [Caller -> {"idle", "root", "stat", "join"}] /\ want' \in [Caller -> Attachment \cup {NoFile}]
    BY <1>16 DEF Materialize, Answer, TypeOK
  <2> QED
    BY <1>0, <1>16, <2>1, <2>2 DEF Materialize, storeVars, dirVars, litterVars, TypeOK
<1>17. ASSUME NEW c \in Caller, NEW a \in Attachment, Resolve(c, a) PROVE TypeOK'
  BY <1>17, <1>0 DEF Resolve, callVars, flightVars, cacheVars, dirVars, litterVars,
     storeVars, TypeOK, Settle, Answer, MovedToEnd
<1>18. ASSUME NEW s \in Session, OpenReader(s) PROVE TypeOK'
  BY <1>18, <1>0 DEF OpenReader, UseRoot, callVars, flightVars, cacheVars, dirVars, litterVars,
     storeVars, TypeOK, Settle, Answer, MovedToEnd
<1>19. ASSUME NEW s \in Session, Release(s) PROVE TypeOK'
  BY <1>19, <1>0 DEF Release, callVars, flightVars, cacheVars, dirVars, litterVars,
     storeVars, TypeOK, Settle, Answer, MovedToEnd
<1>20. ASSUME NEW s \in Session, ForgetSession(s) PROVE TypeOK'
  BY <1>20, <1>0 DEF ForgetSession, callVars, flightVars, cacheVars, dirVars, litterVars,
     storeVars, TypeOK, Settle, Answer, MovedToEnd
<1>21. ASSUME NEW s \in Session, RemoveRoot(s) PROVE TypeOK'
  BY <1>21, <1>0 DEF RemoveRoot, callVars, flightVars, cacheVars, dirVars, litterVars,
     storeVars, TypeOK, Settle, Answer, MovedToEnd
<1>23. ASSUME NEW s \in Session, NEW a \in Attachment, RemoveFile(s, a) PROVE TypeOK'
  BY <1>23, <1>0 DEF RemoveFile, Removed, callVars, flightVars, cacheVars, dirVars,
     litterVars, storeVars, TypeOK
<1>24. ASSUME NEW s \in Session, RemoveStaging(s) PROVE TypeOK'
  BY <1>24, <1>0 DEF RemoveStaging, callVars, flightVars, cacheVars, dirVars,
     litterVars, storeVars, TypeOK
<1>25. ASSUME NEW s \in Session, RemovalEnds(s) PROVE TypeOK'
  BY <1>25, <1>0 DEF RemovalEnds, Left, callVars, flightVars, cacheVars, dirVars,
     litterVars, storeVars, TypeOK
<1>22. ASSUME Crash PROVE TypeOK'
  BY <1>22, <1>0 DEF Crash, callVars, flightVars, cacheVars, dirVars, litterVars,
     storeVars, TypeOK, Settle, Answer, MovedToEnd
<1> QED
  BY <1>1, <1>2, <1>3, <1>4, <1>5, <1>6, <1>7, <1>8, <1>9, <1>10, <1>11,
     <1>12, <1>13, <1>14, <1>15, <1>16, <1>17, <1>18, <1>19, <1>20, <1>21,
     <1>22, <1>23, <1>24, <1>25 DEF Next, FlightStep, CallerStep

(* Every file in a readable root stays reclaimable. *)
LEMMA FilesStep == TypeOK /\ CallInv /\ FlightInv /\ RootInv /\ DiskInv /\ UsedAccounting /\ FilesReclaimable /\ [Next]_vars => FilesReclaimable'
<1> SUFFICES ASSUME TypeOK, CallInv, FlightInv, RootInv, DiskInv, UsedAccounting, FilesReclaimable, [Next]_vars PROVE FilesReclaimable'
  OBVIOUS
<1>0. /\ TypeOK' /\ SessionOf \in [Attachment -> Session] /\ NoFile \notin Attachment
      /\ \A x : Has(x) <=> x \in ToSet(entries)
      /\ disk \subseteq Attachment /\ victim \in [Attachment -> Attachment \cup {NoFile}]
      /\ removal \in [Attachment -> {"no", "evict", "unlink", "object", "done"}]
      /\ reap \in [Session -> {"no", "closing", "unlink"}]
  BY TypeStep, HasIs, AttachmentAssumption DEF TypeOK
<1>00. \A x : Has(x)' <=> x \in ToSet(entries')
  <2>1. entries' \in Seq(Attachment)
    BY <1>0 DEF TypeOK
  <2>2. DOMAIN entries' = 1 .. Len(entries')
    BY <2>1
  <2> QED
    BY <2>2 DEF Has, Contains, ToSet
<1>1. ASSUME UNCHANGED vars PROVE FilesReclaimable'
  BY <1>1, <1>0 DEF vars, callVars, flightVars, cacheVars, dirVars, litterVars, storeVars,
     FilesReclaimable, Has
<1>2. ASSUME NEW a \in Attachment, PutObject(a) PROVE FilesReclaimable'
  BY <1>2, <1>0 DEF PutObject, callVars, flightVars, cacheVars, dirVars, litterVars,
     storeVars, FilesReclaimable, Has
<1>3. ASSUME NEW a \in Attachment, CreateAttachment(a) PROVE FilesReclaimable'
  BY <1>3, <1>0 DEF CreateAttachment, callVars, flightVars, cacheVars,
     dirVars, litterVars, storeVars, FilesReclaimable, Has
<1>4. ASSUME NEW a \in Attachment, UndoPut(a) PROVE FilesReclaimable'
  BY <1>4, <1>0 DEF UndoPut, callVars, flightVars, cacheVars, dirVars, litterVars,
     storeVars, FilesReclaimable, Has
<1>5. ASSUME NEW a \in Attachment, SoftDelete(a) PROVE FilesReclaimable'
  BY <1>5, <1>0 DEF SoftDelete, callVars, flightVars, cacheVars, dirVars, litterVars,
     storeVars, FilesReclaimable, Has
<1>6. ASSUME NEW a \in Attachment, Evict(a) PROVE FilesReclaimable'
  <2>1. CASE UNCHANGED cacheVars
    BY <1>0, <1>6, <2>1 DEF Evict, cacheVars, dirVars, litterVars, flightVars, FilesReclaimable, Has
  <2>2. CASE removal' = [removal EXCEPT ![a] = "unlink"] /\ Forget({a})
    <3>1. ToSet(entries') = ToSet(entries) \ {a}
      BY <2>2, ForgetCounts
    <3> QED
      BY <1>0, <1>00, <1>6, <2>2, <3>1 DEF Evict, dirVars, litterVars, flightVars, FilesReclaimable
  <2> QED
    BY <1>6, <2>1, <2>2 DEF Evict
<1>7. ASSUME NEW a \in Attachment, Unlink(a) PROVE FilesReclaimable'
  BY <1>7, <1>0 DEF Unlink, Removed, Left, callVars, flightVars, cacheVars, dirVars, litterVars,
     storeVars, FilesReclaimable, Has
<1>8. ASSUME NEW a \in Attachment, RemoveObject(a) PROVE FilesReclaimable'
  BY <1>8, <1>0 DEF RemoveObject, callVars, flightVars, cacheVars, dirVars, litterVars,
     storeVars, FilesReclaimable, Has
<1>9. ASSUME NEW a \in Attachment, VictimGone(a) PROVE FilesReclaimable'
  <2>0. a \in Attachment /\ passed[a] \in SUBSET Attachment
    BY DEF TypeOK
  <2>9. UNCHANGED <<removal, reap, lastUsed, stranded>>
    BY <1>9 DEF VictimGone, storeVars
  <2>1. CASE Settle(a) /\ UNCHANGED cacheVars
    <3>1. \A f \in Attachment \ {a} : victim'[f] = victim[f]
      BY <1>0, <2>1 DEF Settle
    <3>2. Removed({victim[a]}) \/ Left({victim[a]})
      BY <1>9 DEF VictimGone
    <3> QED
      BY <1>0, <2>1, <2>9, <3>1, <3>2 DEF Removed, Left, cacheVars, FilesReclaimable, Has
  <2>2. CASE Removed({victim[a]}) /\ ~Refused(a, passed[a]) /\ MakeRoom(a, passed[a])
    <3>0. Staged(a) \/ \E v \in Attachment, q \in SUBSET Attachment : Evicts(a, v, q)
      BY <2>0, <2>2, MakeRoomEffect
    <3>1. CASE Staged(a)
      BY <1>0, <1>9, <2>0, <2>2, <2>9, <3>1 DEF Staged, Removed, cacheVars, FilesReclaimable, Has
    <3>2. ASSUME NEW v \in Attachment, NEW q, Evicts(a, v, q) PROVE FilesReclaimable'
      <4>1. ToSet(entries') = ToSet(entries) \ {v}
        BY <3>2, ForgetCounts DEF Evicts
      <4>2. victim'[a] = v /\ \A f \in Attachment \ {a} : victim'[f] = victim[f]
        BY <1>0, <2>0, <3>2 DEF Evicts
      <4> QED
        BY <1>0, <1>00, <2>0, <2>2, <2>9, <4>1, <4>2 DEF Removed, FilesReclaimable
    <3> QED
      BY <3>0, <3>1, <3>2
  <2> QED
    BY <1>9, <2>1, <2>2 DEF VictimGone
<1>10. ASSUME NEW a \in Attachment, MakeStaging(a) PROVE FilesReclaimable'
  BY <1>10, <1>0 DEF MakeStaging, callVars, flightVars, cacheVars, dirVars, litterVars,
     storeVars, FilesReclaimable, Has
<1>11. ASSUME NEW a \in Attachment, Fetch(a) PROVE FilesReclaimable'
  <2>1. victim[a] = NoFile
    BY <1>11 DEF Fetch, FlightInv
  <2>2. \A f \in Attachment : victim'[f] = victim[f]
    BY <1>0, <1>11, <2>1 DEF Fetch, Settle
  <2> QED
    BY <1>0, <1>11, <2>2 DEF Fetch, litterVars, storeVars, cacheVars, FilesReclaimable, Has
<1>12. ASSUME NEW a \in Attachment, Rename(a) PROVE FilesReclaimable'
  <2>1. victim[a] = NoFile
    BY <1>12 DEF Rename, FlightInv
  <2>2. \A f \in Attachment : victim'[f] = victim[f]
    BY <1>0, <1>12, <2>1 DEF Rename, Settle
  <2>3. UNCHANGED <<removal, lastUsed, reap, stranded>>
    BY <1>12 DEF Rename, storeVars
  <2>4. CASE UNCHANGED <<disk, leftover, cacheVars>>
    BY <1>0, <2>2, <2>3, <2>4 DEF cacheVars, FilesReclaimable, Has
  <2>5. CASE SessionOf[a] \in root /\ disk' = disk \cup {a} /\ leftover' = leftover \ {a} /\ Remember(a)
    <3>1. ToSet(entries') = ToSet(entries) \cup {a}
      BY <2>5, RememberCounts
    <3>2. SessionOf[a] \in lastUsed \cup stranded \/ reap[SessionOf[a]] = "unlink"
      BY <2>5 DEF RootInv
    <3> QED
      BY <1>0, <1>00, <2>2, <2>3, <2>5, <3>1, <3>2 DEF FilesReclaimable
  <2> QED
    BY <1>12, <2>4, <2>5 DEF Rename
<1>13. ASSUME NEW c \in Caller, MakeRoot(c) PROVE FilesReclaimable'
  BY <1>13, <1>0 DEF MakeRoot, UseRoot, callVars, flightVars, cacheVars, dirVars, litterVars,
     storeVars, FilesReclaimable, Has
<1>14. ASSUME NEW c \in Caller, Hit(c) PROVE FilesReclaimable'
  <2>1. want[c] \in Attachment
    BY <1>14 DEF Hit, CallInv
  <2>2. ToSet(entries) \subseteq ToSet(entries')
    <3>1. CASE Has(want[c])
      <4>1. Touch(want[c])
        BY <1>14, <3>1 DEF Hit, Touch
      <4> QED
        BY <2>1, <4>1, RememberCounts
    <3>2. CASE ~Has(want[c])
      BY <1>14, <3>2 DEF Hit
    <3> QED
      BY <3>1, <3>2
  <2> QED
    BY <1>0, <1>00, <1>14, <2>2 DEF Hit, storeVars, dirVars, litterVars, FilesReclaimable
<1>15. ASSUME NEW c \in Caller, Join(c) PROVE FilesReclaimable'
  BY <1>15, <1>0 DEF Join, callVars, flightVars, cacheVars, dirVars, litterVars,
     storeVars, FilesReclaimable, Has
<1>16. ASSUME NEW c \in Caller, Materialize(c) PROVE FilesReclaimable'
  <2>0. want[c] \in Attachment /\ victim[want[c]] = NoFile
    BY <1>16 DEF Materialize, CallInv, FlightInv
  <2>9. UNCHANGED <<disk, removal, reap, lastUsed, litterVars>>
    BY <1>16 DEF Materialize, storeVars, dirVars
  <2>1. CASE UNCHANGED <<flightVars, cacheVars>>
    BY <2>1, <2>9 DEF litterVars, flightVars, cacheVars, FilesReclaimable, Has
  <2>2. CASE ~Refused(want[c], {}) /\ MakeRoom(want[c], {})
    <3>0. Staged(want[c]) \/ \E v \in Attachment, q \in SUBSET Attachment : Evicts(want[c], v, q)
      BY <2>0, <2>2, MakeRoomEffect
    <3>1. CASE Staged(want[c])
      BY <1>0, <1>16, <2>0, <2>9, <3>1 DEF Staged, litterVars, cacheVars, FilesReclaimable, Has
    <3>2. ASSUME NEW v \in Attachment, NEW q, Evicts(want[c], v, q) PROVE FilesReclaimable'
      <4>1. ToSet(entries') = ToSet(entries) \ {v}
        BY <3>2, ForgetCounts DEF Evicts
      <4>2. victim'[want[c]] = v /\ \A f \in Attachment \ {want[c]} : victim'[f] = victim[f]
        BY <1>0, <2>0, <3>2 DEF Evicts
      <4> QED
        BY <1>0, <1>00, <2>0, <2>9, <4>1, <4>2 DEF litterVars, FilesReclaimable
    <3> QED
      BY <3>0, <3>1, <3>2
  <2> QED
    BY <1>16, <2>1, <2>2 DEF Materialize
<1>17. ASSUME NEW c \in Caller, NEW a \in Attachment, Resolve(c, a) PROVE FilesReclaimable'
  BY <1>17, <1>0 DEF Resolve, callVars, flightVars, cacheVars, dirVars, litterVars,
     storeVars, FilesReclaimable, Has
<1>18. ASSUME NEW s \in Session, OpenReader(s) PROVE FilesReclaimable'
  BY <1>18, <1>0 DEF OpenReader, UseRoot, callVars, flightVars, cacheVars, dirVars, litterVars,
     storeVars, FilesReclaimable, Has
<1>19. ASSUME NEW s \in Session, Release(s) PROVE FilesReclaimable'
  BY <1>19, <1>0 DEF Release, callVars, flightVars, cacheVars, dirVars, litterVars,
     storeVars, FilesReclaimable, Has
<1>20. ASSUME NEW s \in Session, ForgetSession(s) PROVE FilesReclaimable'
  <2>1. ToSet(entries') = ToSet(entries) \ Of(s)
    BY <1>20, ForgetCounts DEF ForgetSession
  <2>2. /\ reap' = [reap EXCEPT ![s] = "unlink"] /\ lastUsed' = lastUsed \ {s}
        /\ UNCHANGED <<disk, removal, victim, litterVars>>
    BY <1>20 DEF ForgetSession, storeVars, flightVars, dirVars
  <2> QED
    BY <1>0, <1>00, <2>1, <2>2 DEF Of, litterVars, FilesReclaimable
<1>21. ASSUME NEW s \in Session, RemoveRoot(s) PROVE FilesReclaimable'
  BY <1>21, <1>0 DEF RemoveRoot, litterVars, storeVars, flightVars, cacheVars,
     FilesReclaimable, Has
<1>23. ASSUME NEW s \in Session, NEW a \in Attachment, RemoveFile(s, a) PROVE FilesReclaimable'
  BY <1>23, <1>0 DEF RemoveFile, Removed, callVars, flightVars, cacheVars, dirVars,
     litterVars, storeVars, FilesReclaimable, Has
<1>24. ASSUME NEW s \in Session, RemoveStaging(s) PROVE FilesReclaimable'
  BY <1>24, <1>0 DEF RemoveStaging, callVars, flightVars, cacheVars, dirVars,
     litterVars, storeVars, FilesReclaimable, Has
<1>25. ASSUME NEW s \in Session, RemovalEnds(s) PROVE FilesReclaimable'
  <2>1. /\ reap' = [reap EXCEPT ![s] = "no"] /\ UNCHANGED <<disk, entries, lastUsed, removal, victim>>
        /\ leftover' = leftover \cup {a \in Of(s) \cap disk : ~Has(a)}
        /\ stranded' = IF s \in root \ lastUsed THEN stranded \cup {s} ELSE stranded
    BY <1>25 DEF RemovalEnds, Left, storeVars, flightVars, cacheVars
  <2>2. \A a \in disk : SessionOf[a] \in root
    BY DEF DiskInv
  <2>3. \A a \in disk : Has(a)' <=> Has(a)
    BY <2>1 DEF Has
  <2> QED
    BY <1>0, <2>1, <2>2, <2>3 DEF Of, FilesReclaimable
<1>22. ASSUME Crash PROVE FilesReclaimable'
  BY <1>22, <1>0 DEF Crash, callVars, flightVars, cacheVars, dirVars, litterVars,
     storeVars, FilesReclaimable, Has
<1> QED
  BY <1>1, <1>2, <1>3, <1>4, <1>5, <1>6, <1>7, <1>8, <1>9, <1>10, <1>11,
     <1>12, <1>13, <1>14, <1>15, <1>16, <1>17, <1>18, <1>19, <1>20, <1>21,
     <1>22, <1>23, <1>24, <1>25 DEF Next, FlightStep, CallerStep

-----------------------------------------------------------------------------
Inv == /\ TypeOK /\ StoreInv /\ CallInv /\ FlightInv /\ RootInv /\ DiskInv
       /\ UsedAccounting /\ FilesReclaimable

LEMMA InvInit == Init => Inv
<1> SUFFICES ASSUME Init PROVE Inv
  OBVIOUS
<1>1. TypeOK
  BY AttachmentAssumption DEF Init, TypeOK
<1>2. StoreInv
  BY DEF Init, StoreInv
<1>3. CallInv /\ FlightInv /\ RootInv /\ DiskInv /\ FilesReclaimable
  BY DEF Init, CallInv, FlightInv, RootInv, DiskInv, FilesReclaimable
<1>4. UsedAccounting
  BY EmptyQueue, WeightNone DEF Init, UsedAccounting
<1> QED
  BY <1>1, <1>2, <1>3, <1>4 DEF Inv

LEMMA InvStep == Inv /\ [Next]_vars => Inv'
<1> SUFFICES ASSUME Inv, [Next]_vars PROVE Inv'
  OBVIOUS
<1>1. UsedAccounting'
  BY EffectStep, EffectCounts DEF Inv
<1> QED
  BY <1>1, TypeStep, StoreStep, CallStep, FlightsStep, RootStep, DiskStep, FilesStep DEF Inv

LEMMA InvAlways == Spec => []Inv
BY InvInit, InvStep, PTL DEF Spec

(* Every variable keeps its type: the byte count never goes below zero. *)
THEOREM TypeCorrect == Spec => []TypeOK
<1>1. Inv => TypeOK
  BY DEF Inv
<1> QED
  BY <1>1, InvAlways, PTL

(* A row that can be listed names an object that exists: uploads put before *)
(* they insert and removals delete the row first, and no failure or crash   *)
(* between two steps undoes that order, except an insert that committed and *)
(* was answered with an error (attachment-store.service.ts:277-291).        *)
THEOREM RowNamesObjectAlways == Spec => []RowNamesObject
<1>1. Inv => RowNamesObject
  BY DEF Inv, StoreInv, RowNamesObject
<1> QED
  BY <1>1, InvAlways, PTL

(* The byte count is the sum of the entries, each attachment once: the      *)
(* budget makeRoom compares it with is about what the map holds.            *)
THEOREM UsedAccountingAlways == Spec => []UsedAccounting
<1>1. Inv => UsedAccounting
  BY DEF Inv
<1> QED
  BY <1>1, InvAlways, PTL

(* No interleaving of flights, evictions, removals and releases leaves a    *)
(* file on disk that nothing would ever reclaim: what an rm that fails      *)
(* leaves is all there is.                                                  *)
THEOREM FilesReclaimableAlways == Spec => []FilesReclaimable
<1>1. Inv => FilesReclaimable
  BY DEF Inv
<1> QED
  BY <1>1, InvAlways, PTL
=============================================================================
