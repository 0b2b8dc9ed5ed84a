----------------------- MODULE CallerVisibilityProofs -----------------------
(***************************************************************************)
(* Theorems about CallerVisibility, for any requests, scopes, tags, tools, *)
(* resolver, evaluator and sizes of the cache.                             *)
(*                                                                         *)
(* The invariant has two parts.  Shape is what the cache's map, entries    *)
(* and tag index owe each other; each operation of the cache keeps it.     *)
(* Fresh is what invalidation promises of the values; it needs Shape to    *)
(* know that the index leads to every value written under a tag, since an  *)
(* entry has at least the tags of its values.                              *)
(***************************************************************************)
EXTENDS CallerVisibility, QueuesProofs

IsEntry(e) ==
  /\ e = [expires |-> e.expires, tags |-> e.tags, values |-> e.values]
  /\ e.tags \subseteq Tag
  /\ e.values = [k \in DOMAIN e.values |-> e.values[k]]
  /\ \A k \in DOMAIN e.values : e.values[k].tags \subseteq e.tags

Indexed(c) == [t \in Tag |-> {s \in DOMAIN c.entry : t \in c.entry[s].tags}]

Shape(c) ==
  /\ c = [order |-> c.order, entry |-> c.entry, tagIndex |-> c.tagIndex]
  /\ c.order \in Seq(Scope) /\ IsInjective(c.order)
  /\ ToSet(c.order) = DOMAIN c.entry
  /\ Len(c.order) <= MaxCallers
  /\ c.entry = [s \in DOMAIN c.entry |-> c.entry[s]]
  /\ \A s \in DOMAIN c.entry : IsEntry(c.entry[s])
  /\ c.tagIndex = Indexed(c)

Fresh ==
  /\ invalidations \in Nat
  /\ goneScope \in [Scope -> Nat] /\ goneTag \in [Tag -> Nat]
  /\ \A s \in Scope : goneScope[s] <= invalidations
  /\ \A t \in Tag : goneTag[t] <= invalidations
  /\ \A s \in DOMAIN cache.entry : \A k \in DOMAIN cache.entry[s].values :
       LET v == cache.entry[s].values[k] IN
       /\ v.seq \in Nat /\ v.seq >= goneScope[s]
       /\ \A t \in v.tags : v.seq >= goneTag[t]

Inv == Shape(cache) /\ Fresh

-----------------------------------------------------------------------------
(* The operations of the cache. *)

(* What is in d is in c, the same. *)
Within(d, c) ==
  DOMAIN d.entry \subseteq DOMAIN c.entry /\ \A s \in DOMAIN d.entry : d.entry[s] = c.entry[s]

(* evict takes the scopes out of the map, and out of the index of every tag *)
(* they were under.                                                         *)
LEMMA EvictShape ==
  ASSUME NEW c, Shape(c), NEW S \in SUBSET DOMAIN c.entry
  PROVE  /\ Shape(Evict(c, S)) /\ Within(Evict(c, S), c)
         /\ DOMAIN Evict(c, S).entry = DOMAIN c.entry \ S
         /\ S # {} => Len(Evict(c, S).order) < MaxCallers
<1> DEFINE d == Evict(c, S)
<1>1. /\ c = [order |-> c.order, entry |-> c.entry, tagIndex |-> c.tagIndex]
      /\ c.order \in Seq(Scope) /\ IsInjective(c.order) /\ ToSet(c.order) = DOMAIN c.entry
      /\ Len(c.order) <= MaxCallers /\ c.tagIndex = Indexed(c)
      /\ \A s \in DOMAIN c.entry : IsEntry(c.entry[s])
  BY DEF Shape
<1>2. /\ d = [order |-> d.order, entry |-> d.entry, tagIndex |-> d.tagIndex]
      /\ d.order = Without(c.order, S)
      /\ d.entry = [s \in DOMAIN c.entry \ S |-> c.entry[s]]
      /\ d.tagIndex = [t \in Tag |-> {s \in c.tagIndex[t] : s \in S => t \notin c.entry[s].tags}]
  BY <1>1 DEF Evict, Restrict
<1> HIDE DEF d
<1>3. /\ d.order \in Seq(Scope) /\ IsInjective(d.order) /\ ToSet(d.order) = DOMAIN d.entry
      /\ Len(d.order) <= Len(c.order)
      /\ S # {} => Len(d.order) < Len(c.order)
  <2>1. S # {} => ToSet(c.order) \cap S # {}
    BY <1>1
  <2> QED
    BY <1>1, <1>2, <2>1, WithoutProperties
<1>4. Len(d.order) <= MaxCallers /\ (S # {} => Len(d.order) < MaxCallers)
  <2>1. Len(d.order) \in Nat /\ Len(c.order) \in Nat /\ MaxCallers \in Nat
    BY <1>1, <1>3, CacheAssumption
  <2> QED
    BY <1>1, <1>3, <2>1
<1>5. d.tagIndex = Indexed(d)
  BY <1>1, <1>2 DEF Indexed
<1>6. Within(d, c) /\ DOMAIN d.entry = DOMAIN c.entry \ S
  BY <1>2 DEF Within
<1>7. Shape(d)
  BY <1>1, <1>2, <1>3, <1>4, <1>5, <1>6 DEF Shape, Within
<1> QED
  BY <1>4, <1>6, <1>7 DEF d

(* touch drops an expired scope and moves a live one to the end. *)
LEMMA TouchShape ==
  ASSUME NEW c, Shape(c), NEW s \in Scope
  PROVE  Shape(Touch(c, s)) /\ Within(Touch(c, s), c)
<1>1. CASE ~Has(c, s)
  BY <1>1 DEF Touch, Within
<1>2. CASE Has(c, s) /\ c.entry[s].expires <= now
  <2>1. {s} \in SUBSET DOMAIN c.entry /\ Touch(c, s) = Evict(c, {s})
    BY <1>2 DEF Has, Touch
  <2> QED
    BY <2>1, EvictShape
<1>3. CASE Has(c, s) /\ ~(c.entry[s].expires <= now)
  <2> DEFINE d == Touch(c, s)
             q == Without(c.order, {s})
  <2>1. /\ c = [order |-> c.order, entry |-> c.entry, tagIndex |-> c.tagIndex]
        /\ c.order \in Seq(Scope) /\ IsInjective(c.order) /\ ToSet(c.order) = DOMAIN c.entry
        /\ Len(c.order) <= MaxCallers /\ c.tagIndex = Indexed(c) /\ s \in DOMAIN c.entry
        /\ c.entry = [x \in DOMAIN c.entry |-> c.entry[x]]
        /\ \A x \in DOMAIN c.entry : IsEntry(c.entry[x])
    BY <1>3 DEF Shape, Has
  <2>2. /\ d = [order |-> d.order, entry |-> d.entry, tagIndex |-> d.tagIndex]
        /\ d.order = Append(q, s) /\ d.entry = c.entry /\ d.tagIndex = c.tagIndex
    BY <1>3, <2>1 DEF Touch
  <2>3. /\ q \in Seq(Scope) /\ IsInjective(q) /\ ToSet(q) = DOMAIN c.entry \ {s}
        /\ Len(q) < Len(c.order)
    <3>1. ToSet(c.order) \cap {s} # {}
      BY <2>1
    <3> QED
      BY <2>1, <3>1, WithoutProperties
  <2> HIDE DEF d, q
  <2>4. /\ d.order \in Seq(Scope) /\ IsInjective(d.order)
        /\ ToSet(d.order) = DOMAIN d.entry /\ Len(d.order) <= MaxCallers
    <3>1. s \notin ToSet(q)
      BY <2>3
    <3>2. /\ d.order \in Seq(Scope) /\ Len(d.order) = Len(q) + 1
          /\ ToSet(d.order) = ToSet(q) \cup {s} /\ IsInjective(d.order)
      BY <2>2, <2>3, <3>1, JoinLast
    <3>3. Len(q) \in Nat /\ Len(c.order) \in Nat /\ MaxCallers \in Nat
      BY <2>1, <2>3, CacheAssumption
    <3>4. Len(d.order) <= MaxCallers
      BY <2>1, <2>3, <3>2, <3>3
    <3> QED
      BY <2>1, <2>2, <2>3, <3>2, <3>4
  <2>5. d.tagIndex = Indexed(d)
    BY <2>1, <2>2 DEF Indexed
  <2>6. Shape(d)
    BY <2>1, <2>2, <2>4, <2>5 DEF Shape
  <2> QED
    BY <2>2, <2>6 DEF d, Within
<1> QED
  BY <1>1, <1>2, <1>3

(* admit makes room before it adds: the least recently used scope goes. *)
LEMMA AdmitShape ==
  ASSUME NEW c, Shape(c), NEW s \in Scope, ~Has(c, s)
  PROVE  /\ Shape(Admit(c, s))
         /\ s \in DOMAIN Admit(c, s).entry
         /\ \A k \in DOMAIN Admit(c, s).entry[s].values : FALSE
         /\ \A x \in DOMAIN Admit(c, s).entry \ {s} :
              x \in DOMAIN c.entry /\ Admit(c, s).entry[x] = c.entry[x]
<1> DEFINE room == IF Len(c.order) >= MaxCallers THEN Evict(c, {Head(c.order)}) ELSE c
           new == [expires |-> now + Lifetime, tags |-> {}, values |-> <<>>]
           d == Admit(c, s)
<1>1. c.order \in Seq(Scope) /\ ToSet(c.order) = DOMAIN c.entry
  BY DEF Shape
<1>2. Shape(room) /\ Within(room, c) /\ Len(room.order) < MaxCallers
  <2>0. Len(c.order) \in Nat /\ MaxCallers \in Nat \ {0}
    BY <1>1, CacheAssumption
  <2>1. CASE Len(c.order) >= MaxCallers
    <3>1. c.order # <<>>
      BY <2>0, <2>1
    <3>2. {Head(c.order)} \in SUBSET DOMAIN c.entry
      BY <1>1, <3>1, LeaveFirst
    <3> QED
      BY <2>1, <3>2, EvictShape
  <2>2. CASE ~(Len(c.order) >= MaxCallers)
    BY <2>0, <2>2 DEF Within
  <2> QED
    BY <2>1, <2>2
<1> HIDE DEF room
<1>3. /\ d = [order |-> d.order, entry |-> d.entry, tagIndex |-> d.tagIndex]
      /\ d.order = Append(room.order, s) /\ d.entry = Put(room.entry, s, new)
      /\ d.tagIndex = room.tagIndex
  BY DEF Admit, room
<1> HIDE DEF d
<1>4. s \notin DOMAIN room.entry
  BY <1>2 DEF Has, Within
<1>5. /\ d.entry = [x \in DOMAIN room.entry \cup {s} |-> IF x = s THEN new ELSE room.entry[x]]
      /\ DOMAIN d.entry = DOMAIN room.entry \cup {s}
      /\ d.entry[s] = new /\ \A x \in DOMAIN room.entry : d.entry[x] = room.entry[x]
  BY <1>3, <1>4 DEF Put
<1>6. IsEntry(new) /\ DOMAIN new.values = {}
  BY DEF IsEntry
<1>7. /\ d.order \in Seq(Scope) /\ IsInjective(d.order) /\ ToSet(d.order) = DOMAIN d.entry
      /\ Len(d.order) <= MaxCallers
  <2>1. room.order \in Seq(Scope) /\ IsInjective(room.order) /\ ToSet(room.order) = DOMAIN room.entry
    BY <1>2 DEF Shape
  <2>2. /\ d.order \in Seq(Scope) /\ Len(d.order) = Len(room.order) + 1
        /\ ToSet(d.order) = ToSet(room.order) \cup {s} /\ IsInjective(d.order)
    BY <1>3, <1>4, <2>1, JoinLast
  <2>3. Len(room.order) \in Nat /\ MaxCallers \in Nat
    BY <2>1, CacheAssumption
  <2> QED
    BY <1>2, <1>5, <2>1, <2>2, <2>3
<1>8. d.tagIndex = Indexed(d)
  <2>1. room.tagIndex = Indexed(room) /\ new.tags = {}
    BY <1>2 DEF Shape
  <2> HIDE DEF new
  <2> QED
    BY <1>3, <1>4, <1>5, <2>1 DEF Indexed
<1>9. Shape(d)
  <2>1. \A x \in DOMAIN d.entry : IsEntry(d.entry[x])
    BY <1>2, <1>5, <1>6 DEF Shape
  <2> HIDE DEF new
  <2>2. d.entry = [x \in DOMAIN d.entry |-> d.entry[x]]
    BY <1>5
  <2> QED
    BY <1>3, <1>7, <1>8, <2>1, <2>2 DEF Shape
<1>10. \A x \in DOMAIN d.entry \ {s} : x \in DOMAIN c.entry /\ d.entry[x] = c.entry[x]
  BY <1>2, <1>5 DEF Within
<1> QED
  BY <1>5, <1>6, <1>9, <1>10 DEF d

(* set adds one value, and leads every tag it is written under to it. *)
LEMMA SetShape ==
  ASSUME NEW c, Shape(c), NEW s \in Scope, NEW tags \in SUBSET Tag, NEW k, NEW v, v.tags = tags
  PROVE  /\ Shape(Set(c, s, tags, k, v))
         /\ \A x \in DOMAIN Set(c, s, tags, k, v).entry :
              \A j \in DOMAIN Set(c, s, tags, k, v).entry[x].values :
                \/ x = s /\ j = k /\ Set(c, s, tags, k, v).entry[x].values[j] = v
                \/ /\ x \in DOMAIN c.entry /\ j \in DOMAIN c.entry[x].values
                   /\ Set(c, s, tags, k, v).entry[x].values[j] = c.entry[x].values[j]
<1> DEFINE t == Touch(c, s)
           e == IF Has(t, s) THEN t ELSE Admit(t, s)
           old == e.entry[s]
           new == [expires |-> old.expires, tags |-> old.tags \cup tags,
                   values |-> Put(old.values, k, v)]
           d == Set(c, s, tags, k, v)
<1>1. Shape(t) /\ Within(t, c)
  BY TouchShape
<1> HIDE DEF t
<1>2. /\ Shape(e) /\ s \in DOMAIN e.entry
      /\ \A x \in DOMAIN e.entry : \A j \in DOMAIN e.entry[x].values :
           x \in DOMAIN t.entry /\ e.entry[x] = t.entry[x]
  <2>1. CASE Has(t, s)
    BY <1>1, <2>1 DEF Has
  <2>2. CASE ~Has(t, s)
    BY <1>1, <2>2, AdmitShape
  <2> QED
    BY <2>1, <2>2
<1>3. /\ d = [order |-> d.order, entry |-> d.entry, tagIndex |-> d.tagIndex]
      /\ d.order = e.order /\ d.entry = Put(e.entry, s, new)
      /\ d.tagIndex = [x \in Tag |-> e.tagIndex[x] \cup (IF x \in tags \ old.tags THEN {s} ELSE {})]
  BY DEF Set, t
<1> HIDE DEF d, e
<1>4. /\ e.order \in Seq(Scope) /\ IsInjective(e.order) /\ ToSet(e.order) = DOMAIN e.entry
      /\ Len(e.order) <= MaxCallers /\ e.tagIndex = Indexed(e)
      /\ e.entry = [x \in DOMAIN e.entry |-> e.entry[x]]
      /\ \A x \in DOMAIN e.entry : IsEntry(e.entry[x])
  BY <1>2 DEF Shape
<1>5. IsEntry(old)
  BY <1>2, <1>4
<1> HIDE DEF old
<1>6. /\ new.values = [j \in DOMAIN old.values \cup {k} |-> IF j = k THEN v ELSE old.values[j]]
      /\ new.tags = old.tags \cup tags /\ new.expires = old.expires
      /\ new = [expires |-> new.expires, tags |-> new.tags, values |-> new.values]
  BY DEF Put
<1> HIDE DEF new
<1>7. IsEntry(new)
  <2>1. new.tags \subseteq Tag
    BY <1>5, <1>6 DEF IsEntry
  <2>2. \A j \in DOMAIN new.values : new.values[j].tags \subseteq new.tags
    BY <1>5, <1>6 DEF IsEntry
  <2> QED
    BY <1>6, <2>1, <2>2 DEF IsEntry
<1>8. /\ DOMAIN d.entry = DOMAIN e.entry /\ d.entry[s] = new
      /\ \A x \in DOMAIN e.entry \ {s} : d.entry[x] = e.entry[x]
      /\ d.entry = [x \in DOMAIN d.entry |-> d.entry[x]]
  BY <1>2, <1>3, <1>4 DEF Put
<1>9. d.tagIndex = Indexed(d)
  <2>1. e.tagIndex = Indexed(e) /\ old = e.entry[s]
    BY <1>4 DEF old
  <2> QED
    BY <1>2, <1>3, <1>6, <1>8, <2>1 DEF Indexed
<1>10. Shape(d)
  BY <1>3, <1>4, <1>7, <1>8, <1>9 DEF Shape
<1>11. ASSUME NEW x \in DOMAIN d.entry, NEW j \in DOMAIN d.entry[x].values
       PROVE  \/ x = s /\ j = k /\ d.entry[x].values[j] = v
              \/ /\ x \in DOMAIN c.entry /\ j \in DOMAIN c.entry[x].values
                 /\ d.entry[x].values[j] = c.entry[x].values[j]
  <2>1. ASSUME j \in DOMAIN e.entry[x].values, d.entry[x].values[j] = e.entry[x].values[j]
        PROVE  /\ x \in DOMAIN c.entry /\ j \in DOMAIN c.entry[x].values
               /\ d.entry[x].values[j] = c.entry[x].values[j]
    BY <1>1, <1>2, <1>8, <2>1 DEF Within
  <2>2. CASE x # s
    BY <1>8, <2>1, <2>2
  <2>3. CASE x = s /\ j # k
    BY <1>6, <1>8, <2>1, <2>3 DEF old
  <2>4. CASE x = s /\ j = k
    BY <1>6, <1>8, <2>4
  <2> QED
    BY <2>2, <2>3, <2>4
<1> QED
  BY <1>10, <1>11 DEF d

(* removeTag drops every scope the index has under the tag. *)
LEMMA RemoveTagShape ==
  ASSUME NEW c, Shape(c), NEW t \in Tag
  PROVE  /\ Shape(RemoveTag(c, t)) /\ Within(RemoveTag(c, t), c)
         /\ DOMAIN RemoveTag(c, t).entry = DOMAIN c.entry \ c.tagIndex[t]
<1> DEFINE S == {s \in c.tagIndex[t] : Has(c, s)}
           d == Evict(c, S)
<1>1. S = c.tagIndex[t] /\ S \in SUBSET DOMAIN c.entry
  BY DEF Shape, Indexed, Has
<1> HIDE DEF S
<1>2. Shape(d) /\ Within(d, c) /\ DOMAIN d.entry = DOMAIN c.entry \ S
  BY <1>1, EvictShape
<1>3. d.tagIndex = [d.tagIndex EXCEPT ![t] = {}]
  <2>1. d.tagIndex = Indexed(d) /\ c.tagIndex = Indexed(c)
    BY <1>2 DEF Shape
  <2> HIDE DEF d
  <2>2. d.tagIndex[t] = {}
    <3>1. /\ d.tagIndex[t] = {s \in DOMAIN d.entry : t \in d.entry[s].tags}
          /\ c.tagIndex[t] = {s \in DOMAIN c.entry : t \in c.entry[s].tags}
      BY <2>1 DEF Indexed
    <3> QED
      BY <1>1, <1>2, <3>1 DEF Within
  <2>3. d.tagIndex = [x \in Tag |-> d.tagIndex[x]]
    BY <2>1 DEF Indexed
  <2> QED
    BY <2>2, <2>3
<1>4. RemoveTag(c, t) = d
  <2>1. d = [order |-> d.order, entry |-> d.entry, tagIndex |-> d.tagIndex]
    BY <1>2 DEF Shape
  <2>2. RemoveTag(c, t)
        = [order |-> d.order, entry |-> d.entry, tagIndex |-> [d.tagIndex EXCEPT ![t] = {}]]
    BY DEF RemoveTag, S
  <2> HIDE DEF d
  <2> QED
    BY <1>3, <2>1, <2>2
<1> QED
  BY <1>1, <1>2, <1>4

-----------------------------------------------------------------------------
(* Values leave the cache, and the bounds they must keep stay: the rest is  *)
(* as fresh as before.                                                      *)
LEMMA FreshWithin ==
  ASSUME Shape(cache), Fresh, Within(cache', cache), UNCHANGED auxVars
  PROVE  Fresh'
BY DEF Fresh, Within, auxVars

(* An invalidation of the scopes S. *)
LEMMA FreshNoted ==
  ASSUME NEW S \in SUBSET Scope, Shape(cache), Fresh, Noted(S), UNCHANGED goneTag,
         Within(cache', cache), DOMAIN cache'.entry \cap S = {}
  PROVE  Fresh'
<1>1. /\ invalidations' = invalidations + 1
      /\ goneScope' = [s \in Scope |-> IF s \in S THEN invalidations + 1 ELSE goneScope[s]]
  BY DEF Noted
<1>2. /\ invalidations \in Nat /\ goneScope \in [Scope -> Nat] /\ goneTag \in [Tag -> Nat]
      /\ \A s \in Scope : goneScope[s] <= invalidations
      /\ \A t \in Tag : goneTag[t] <= invalidations
  BY DEF Fresh
<1>3. /\ invalidations' \in Nat /\ goneScope' \in [Scope -> Nat] /\ goneTag' \in [Tag -> Nat]
      /\ \A s \in Scope : goneScope'[s] <= invalidations'
      /\ \A t \in Tag : goneTag'[t] <= invalidations'
  BY <1>1, <1>2
<1>4. ASSUME NEW s \in DOMAIN cache'.entry
      PROVE  s \in DOMAIN cache.entry /\ cache'.entry[s] = cache.entry[s] /\ goneScope'[s] = goneScope[s]
  <2>1. DOMAIN cache.entry \subseteq Scope
    BY DEF Shape, ToSet
  <2> QED
    BY <1>1, <2>1 DEF Within
<1> QED
  BY <1>3, <1>4 DEF Fresh

(* Every action keeps Inv. *)
LEMMA InvStep == Inv /\ [Next]_vars => Inv'
<1> SUFFICES ASSUME Inv, [Next]_vars PROVE Inv'
  OBVIOUS
<1>0. Shape(cache) /\ Fresh /\ DOMAIN cache.entry \subseteq Scope
  BY DEF Inv, Shape, ToSet
<1>1. ASSUME UNCHANGED <<cache, auxVars>> PROVE Inv'
  BY <1>0, <1>1 DEF Inv, Fresh, auxVars
<1>2. ASSUME NEW r \in Request, Read(r) PROVE Inv'
  <2>1. cache' = Touch(cache, ScopeOf[r]) /\ UNCHANGED auxVars /\ ScopeOf[r] \in Scope
    BY <1>2, CacheAssumption DEF Read
  <2>2. Shape(cache') /\ Within(cache', cache)
    BY <1>0, <2>1, TouchShape
  <2> QED
    BY <1>0, <2>1, <2>2, FreshWithin DEF Inv
<1>3. ASSUME NEW r \in Request, Store(r) PROVE Inv'
  <2>1. CASE cache' = cache
    BY <1>1, <1>3, <2>1 DEF Store
  <2>2. CASE cache' # cache
    <3> DEFINE s == ScopeOf[r]
               k == Looking(r)
               v == [code |-> IF Looking(r) = "facts" THEN EncodeFacts(got[r].answer)
                              ELSE Letter(got[r].answer),
                     began |-> got[r].began, seq |-> invalidations, tags |-> TagsOf[r]]
    <3>1. cache' = Set(cache, s, TagsOf[r], k, v) /\ UNCHANGED auxVars
      BY <1>3, <2>2 DEF Store
    <3>2. s \in Scope /\ TagsOf[r] \in SUBSET Tag /\ v.tags = TagsOf[r] /\ v.seq = invalidations
      BY CacheAssumption
    <3> HIDE DEF s, k, v
    <3>3. /\ Shape(cache')
          /\ \A x \in DOMAIN cache'.entry : \A j \in DOMAIN cache'.entry[x].values :
                \/ x = s /\ j = k /\ cache'.entry[x].values[j] = v
                \/ /\ x \in DOMAIN cache.entry /\ j \in DOMAIN cache.entry[x].values
                   /\ cache'.entry[x].values[j] = cache.entry[x].values[j]
      BY <1>0, <3>1, <3>2, SetShape
    <3>4. Fresh'
      <4>1. UNCHANGED <<invalidations, goneScope, goneTag>>
        BY <3>1 DEF auxVars
      <4>2. v.seq \in Nat /\ v.seq >= goneScope[s] /\ \A t \in v.tags : v.seq >= goneTag[t]
        BY <1>0, <3>2 DEF Fresh
      <4> QED
        BY <1>0, <3>3, <4>1, <4>2 DEF Fresh
    <3> QED
      BY <3>3, <3>4 DEF Inv
  <2> QED
    BY <2>1, <2>2
<1>4. ASSUME NEW s \in Scope, InvalidateCaller(s) PROVE Inv'
  <2>1. Noted({s}) /\ UNCHANGED goneTag /\ cache' = RemoveScope(cache, s)
    BY <1>4 DEF InvalidateCaller
  <2>2. Shape(cache') /\ Within(cache', cache) /\ DOMAIN cache'.entry \cap {s} = {}
    <3>1. CASE Has(cache, s)
      <4>1. {s} \in SUBSET DOMAIN cache.entry /\ cache' = Evict(cache, {s})
        BY <2>1, <3>1 DEF Has, RemoveScope
      <4> QED
        BY <1>0, <4>1, EvictShape
    <3>2. CASE ~Has(cache, s)
      BY <1>0, <2>1, <3>2 DEF Has, RemoveScope, Within
    <3> QED
      BY <3>1, <3>2
  <2> QED
    BY <1>0, <2>1, <2>2, FreshNoted DEF Inv
<1>5. ASSUME NEW t \in Tag, InvalidateTag(t) PROVE Inv'
  <2> DEFINE S == cache.tagIndex[t]
  <2>1. Noted(S) /\ goneTag' = [goneTag EXCEPT ![t] = invalidations + 1] /\ cache' = RemoveTag(cache, t)
    BY <1>5 DEF InvalidateTag
  <2>2. Shape(cache') /\ Within(cache', cache) /\ DOMAIN cache'.entry = DOMAIN cache.entry \ S
    BY <1>0, <2>1, RemoveTagShape
  <2>3. S = {s \in DOMAIN cache.entry : t \in cache.entry[s].tags}
    BY <1>0 DEF Shape, Indexed
  <2> HIDE DEF S
  <2>4. ASSUME NEW s \in DOMAIN cache'.entry
        PROVE  /\ s \in DOMAIN cache.entry /\ cache'.entry[s] = cache.entry[s] /\ s \notin S
               /\ \A k \in DOMAIN cache'.entry[s].values : t \notin cache'.entry[s].values[k].tags
    <3>1. s \in DOMAIN cache.entry /\ cache'.entry[s] = cache.entry[s] /\ s \notin S
      BY <2>2 DEF Within
    <3>2. t \notin cache.entry[s].tags /\ IsEntry(cache.entry[s])
      BY <1>0, <2>3, <3>1 DEF Shape
    <3> QED
      BY <3>1, <3>2 DEF IsEntry
  <2>5. /\ invalidations \in Nat /\ goneScope \in [Scope -> Nat] /\ goneTag \in [Tag -> Nat]
        /\ \A s \in Scope : goneScope[s] <= invalidations
        /\ \A x \in Tag : goneTag[x] <= invalidations
    BY <1>0 DEF Fresh
  <2>6. /\ invalidations' = invalidations + 1
        /\ goneScope' = [s \in Scope |-> IF s \in S THEN invalidations + 1 ELSE goneScope[s]]
    BY <2>1 DEF Noted
  <2>7. /\ invalidations' \in Nat /\ goneScope' \in [Scope -> Nat] /\ goneTag' \in [Tag -> Nat]
        /\ \A s \in Scope : goneScope'[s] <= invalidations'
        /\ \A x \in Tag : goneTag'[x] <= invalidations'
    BY <2>1, <2>5, <2>6
  <2>8. ASSUME NEW s \in DOMAIN cache'.entry, NEW k \in DOMAIN cache'.entry[s].values
        PROVE  LET v == cache'.entry[s].values[k] IN
               /\ v.seq \in Nat /\ v.seq >= goneScope'[s]
               /\ \A x \in v.tags : v.seq >= goneTag'[x]
    <3> DEFINE v == cache.entry[s].values[k]
    <3>1. /\ k \in DOMAIN cache.entry[s].values /\ v = cache'.entry[s].values[k]
          /\ t \notin v.tags /\ s \in DOMAIN cache.entry /\ s \notin S
      BY <2>4
    <3>2. v.seq \in Nat /\ v.seq >= goneScope[s] /\ \A x \in v.tags : v.seq >= goneTag[x]
      BY <1>0, <3>1 DEF Fresh
    <3>3. v.tags \subseteq Tag
      BY <1>0, <3>1 DEF Shape, IsEntry
    <3>4. goneScope'[s] = goneScope[s] /\ \A x \in v.tags : goneTag'[x] = goneTag[x]
      BY <1>0, <2>1, <2>5, <2>6, <3>1, <3>3
    <3> QED
      BY <3>1, <3>2, <3>4
  <2> QED
    BY <2>2, <2>7, <2>8 DEF Inv, Fresh
<1>6. ASSUME InvalidateAll PROVE Inv'
  <2>1. Noted(Scope) /\ UNCHANGED goneTag /\ cache' = Clear(cache)
    BY <1>6 DEF InvalidateAll
  <2>2. /\ cache'.entry = <<>> /\ cache'.order = <<>> /\ cache'.tagIndex = [t \in Tag |-> {}]
        /\ cache' = [order |-> cache'.order, entry |-> cache'.entry, tagIndex |-> cache'.tagIndex]
    BY <2>1 DEF Clear
  <2>3. Shape(cache')
    BY <2>2, EmptyQueue, CacheAssumption DEF Shape, Indexed
  <2>4. Within(cache', cache) /\ DOMAIN cache'.entry \cap Scope = {}
    BY <2>2 DEF Within
  <2> QED
    BY <1>0, <2>1, <2>3, <2>4, FreshNoted DEF Inv
<1>7. ASSUME NEW r \in Request, Hit(r) \/ Miss(r) PROVE Inv'
  BY <1>1, <1>7 DEF Hit, Miss
<1>8. ASSUME NEW k \in Scope \X Lookup, Evaluate(k) \/ Settle(k) \/ Fail(k) PROVE Inv'
  BY <1>1, <1>8 DEF Evaluate, Settle, Fail
<1>9. ASSUME Bump \/ Reload \/ Tick \/ UNCHANGED vars PROVE Inv'
  BY <1>1, <1>9 DEF Bump, Reload, Tick, vars
<1> QED
  BY <1>2, <1>3, <1>4, <1>5, <1>6, <1>7, <1>8, <1>9 DEF Next

(* The cache starts empty. *)
LEMMA InvInit == Init => Inv
<1> SUFFICES ASSUME Init PROVE Inv
  OBVIOUS
<1>1. /\ cache.entry = <<>> /\ cache.order = <<>> /\ cache.tagIndex = [t \in Tag |-> {}]
      /\ cache = [order |-> cache.order, entry |-> cache.entry, tagIndex |-> cache.tagIndex]
  BY DEF Init
<1>2. Shape(cache)
  BY <1>1, EmptyQueue, CacheAssumption DEF Shape, Indexed
<1>3. Fresh
  BY <1>1 DEF Fresh, Init
<1> QED
  BY <1>2, <1>3 DEF Inv

(* Inv holds in every reachable state. *)
LEMMA InvAlways == Spec => []Inv
BY InvInit, InvStep, PTL DEF Spec

(* The scopes of the map, the entries and the tag index agree and stay      *)
(* within maxCallers, whatever is evicted, expires or is admitted again.    *)
THEOREM IndexAgreesAlways == Spec => []IndexAgrees
<1>1. Inv => IndexAgrees
  BY DEF Inv, Shape, Indexed, IndexAgrees
<1> QED
  BY <1>1, InvAlways, PTL

(* For any number of callers, tags and requests: after an invalidation no   *)
(* value written before it is found for the scopes or under the tag it      *)
(* names, even under a tag the scope was given only later.                  *)
THEOREM InvalidatedGoneAlways == Spec => []InvalidatedGone
<1>1. Inv => InvalidatedGone
  <2> SUFFICES ASSUME Inv, NEW e \in Cached
               PROVE  e[3].seq >= goneScope[e[1]] /\ \A t \in e[3].tags : e[3].seq >= goneTag[t]
    BY DEF InvalidatedGone
  <2>1. PICK s \in DOMAIN cache.entry : \E k \in DOMAIN cache.entry[s].values :
                e = <<s, k, cache.entry[s].values[k]>>
    BY DEF Cached
  <2>2. PICK k \in DOMAIN cache.entry[s].values : e = <<s, k, cache.entry[s].values[k]>>
    BY <2>1
  <2>3. e[1] = s /\ e[3] = cache.entry[s].values[k]
    BY <2>2
  <2> QED
    BY <2>3 DEF Inv, Fresh
<1> QED
  BY <1>1, InvAlways, PTL
=============================================================================
