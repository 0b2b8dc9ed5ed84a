-------------------------- MODULE CallerVisibility --------------------------
(***************************************************************************)
(* What search_tools and load_tool know of a caller in the NestJS SDK: the *)
(* per-caller cache (core/src/cache/memory-cache.ts), the computations     *)
(* overlapping requests share (single-flight.ts), the cache-aside reads    *)
(* with their epoch guard (visibility/provider.ts), the probes             *)
(* (visibility/probe.ts), invalidation (nestjs/src/cache.ts) and reload    *)
(* (catalog.ts).  packages/http/spec/caching.md is what it promises.       *)
(*                                                                         *)
(* A step is what runs between two awaits.  The evaluator and the          *)
(* backend's pipeline are the host's: they answer anything, from what the  *)
(* caller is allowed at the moment they look.  The host changes that at    *)
(* any time and then invalidates; a value carries the number of            *)
(* invalidations there had been when it was computed and when written.     *)
(***************************************************************************)
EXTENDS Integers, Sequences, Queues

CONSTANTS
  Request, Scope, Tag, Tool,
  ScopeOf, TagsOf,     \* what the scope resolver answers for a request
  Ranked,              \* the tools a request is about, best first
  Auth,                \* descriptor.auth of a tool
  Facts,               \* what the host's evaluator may answer
  MaxCallers, Lifetime, ProbeTopK,   \* options.cache and options.visibility
  MaxTime, MaxHostCalls,  \* bounds
  NoValue

ASSUME CacheAssumption ==
  /\ ScopeOf \in [Request -> Scope] /\ TagsOf \in [Request -> SUBSET Tag]
  /\ Ranked \in [Request -> Seq(Tool)]
  /\ MaxCallers \in Nat \ {0} /\ Lifetime \in Nat \ {0} /\ ProbeTopK \in Nat

VARIABLES
  cache,      \* scopes in the order of the map, the entries, tagIndex
  now,
  epoch,
  disabled,   \* tools the probe gave up on
  generation, \* currentGeneration of the catalog
  flight,     \* inFlight: the computation of a scope's lookup
  phase, observed, got, dec, todo,   \* of a request
  invalidations, goneScope, goneTag  \* auxiliary: what was invalidated, and when

reqVars == <<phase, observed, got, dec, todo>>
auxVars == <<invalidations, goneScope, goneTag>>
vars == <<cache, now, epoch, disabled, generation, flight, reqVars, auxVars>>

Decision == {"allow", "deny", "unknown"}
Lookup == {"facts"} \cup Tool
Idle == [open |-> FALSE]

Init ==
  /\ cache = [order |-> <<>>,
              entry |-> <<>>,
              tagIndex |-> [t \in Tag |-> {}]]
  /\ now = 0 /\ epoch = 0 /\ disabled = {} /\ generation = 0
  /\ flight = [k \in Scope \X Lookup |-> Idle]
  /\ phase = [r \in Request |-> "ask"]
  /\ observed = [r \in Request |-> 0]
  /\ got = [r \in Request |-> NoValue]
  /\ dec = [r \in Request |-> NoValue]
  /\ todo = [r \in Request |-> <<>>]
  /\ invalidations = 0
  /\ goneScope = [s \in Scope |-> 0] /\ goneTag = [t \in Tag |-> 0]

-----------------------------------------------------------------------------
(* MemoryLiaisoCache, as functions of its state c. *)

(* Mutant: an evicted scope stays in the tag index. *)
EvictKeepsIndex(c, S) ==
  [order |-> Without(c.order, S),
   entry |-> Restrict(c.entry, DOMAIN c.entry \ S),
   tagIndex |-> c.tagIndex]

Evict(c, S) ==
  [order |-> Without(c.order, S),
   entry |-> Restrict(c.entry, DOMAIN c.entry \ S),
   tagIndex |-> [t \in Tag |-> {s \in c.tagIndex[t] : s \in S => t \notin c.entry[s].tags}]]

Has(c, s) == s \in DOMAIN c.entry

(* Map.set. *)
Put(f, x, y) == [z \in DOMAIN f \cup {x} |-> IF z = x THEN y ELSE f[z]]

(* An expired scope goes; a live one becomes the most recently used. *)
Touch(c, s) ==
  IF ~Has(c, s) THEN c
  ELSE IF c.entry[s].expires <= now THEN Evict(c, {s})
  ELSE [c EXCEPT !.order = Append(Without(@, {s}), s)]

(* The least recently used scope makes room; the lifetime starts here. *)
Admit(c, s) ==
  LET room == IF Len(c.order) >= MaxCallers THEN Evict(c, {Head(c.order)}) ELSE c IN
  [order |-> Append(room.order, s),
   entry |-> Put(room.entry, s, [expires |-> now + Lifetime, tags |-> {}, values |-> <<>>]),
   tagIndex |-> room.tagIndex]

(* Mutant: tags are indexed when the scope is admitted and not later. *)
SetIndexesOnAdmit(c, s, tags, k, v) ==
  LET t == Touch(c, s)
      e == IF Has(t, s) THEN t ELSE Admit(t, s)
      old == e.entry[s] IN
  [order |-> e.order,
   entry |-> Put(e.entry, s, [expires |-> old.expires,
                                tags |-> IF Has(t, s) THEN old.tags ELSE tags,
                                values |-> Put(old.values, k, v)]),
   tagIndex |-> [x \in Tag |-> e.tagIndex[x] \cup
                               (IF x \in tags /\ ~Has(t, s) THEN {s} ELSE {})]]

Set(c, s, tags, k, v) ==
  LET t == Touch(c, s)
      e == IF Has(t, s) THEN t ELSE Admit(t, s)
      old == e.entry[s] IN
  [order |-> e.order,
   entry |-> Put(e.entry, s, [expires |-> old.expires,
                                tags |-> old.tags \cup tags,
                                values |-> Put(old.values, k, v)]),
   tagIndex |-> [x \in Tag |-> e.tagIndex[x] \cup (IF x \in tags \ old.tags THEN {s} ELSE {})]]

RemoveScope(c, s) == IF Has(c, s) THEN Evict(c, {s}) ELSE c

RemoveTag(c, t) ==
  LET d == Evict(c, {s \in c.tagIndex[t] : Has(c, s)}) IN
  [order |-> d.order, entry |-> d.entry, tagIndex |-> [d.tagIndex EXCEPT ![t] = {}]]

Clear(c) == [order |-> <<>>,
             entry |-> <<>>,
             tagIndex |-> [t \in Tag |-> {}]]

-----------------------------------------------------------------------------
(* The values cached: facts as letters, a verdict as one letter. *)

Letter(d) == CASE d = "allow" -> "A" [] d = "deny" -> "D" [] OTHER -> "U"
FromLetter(l) == CASE l = "A" -> "allow" [] l = "D" -> "deny" [] OTHER -> "unknown"

EncodeFacts(f) ==
  [identity |-> CASE f.identity = "present" -> "P" [] f.identity = "absent" -> "A" [] OTHER -> "U",
   policyResults |-> [p \in DOMAIN f.policyResults |-> Letter(f.policyResults[p])]]

DecodeFacts(e) ==
  [identity |-> CASE e.identity = "P" -> "present" [] e.identity = "A" -> "absent" [] OTHER -> "unknown",
   policyResults |-> [p \in DOMAIN e.policyResults |-> FromLetter(e.policyResults[p])]]

(* evaluateVisibility: a known refusal first, then every reason to doubt. *)
EvaluateVisibility(a, f) ==
  LET result == [p \in a.policies |-> IF p \in DOMAIN f.policyResults
                                        THEN f.policyResults[p] ELSE "unknown"] IN
  IF \/ a.anonymous = "no" /\ f.identity = "absent"
     \/ \E p \in a.policies : result[p] = "deny"
    THEN "deny"
  ELSE IF \/ a.imperative
          \/ a.anonymous = "unknown"
          \/ a.anonymous = "no" /\ f.identity = "unknown"
          \/ \E p \in a.policies : result[p] # "allow"
    THEN "unknown"
  ELSE "allow"

-----------------------------------------------------------------------------
(* A request: the facts, then the probes that ranking and budget leave. *)

Looking(r) == IF dec[r] = NoValue THEN "facts" ELSE Head(todo[r])

KeyOf(r) == <<ScopeOf[r], Looking(r)>>

(* The lookup's locals go; the request goes on with the queue q, or has its *)
(* answer, the decisions d.                                                *)
Proceed(r, d, q) ==
  /\ dec' = [dec EXCEPT ![r] = IF q = <<>> THEN NoValue ELSE d]
  /\ todo' = [todo EXCEPT ![r] = q]
  /\ phase' = [phase EXCEPT ![r] = IF q = <<>> THEN "done" ELSE "ask"]
  /\ got' = [got EXCEPT ![r] = NoValue]
  /\ observed' = [observed EXCEPT ![r] = 0]

(* The facts are known: decide every tool, and queue those to probe. *)
Decided(r, f) ==
  LET d == [t \in ToSet(Ranked[r]) |-> EvaluateVisibility(Auth[t], f)]
      open == SelectSeq(Ranked[r], LAMBDA t : d[t] = "unknown" /\ t \notin disabled) IN
  Proceed(r, d, SubSeq(open, 1, IF ProbeTopK < Len(open) THEN ProbeTopK ELSE Len(open)))

(* A verdict is known: on to the next tool of the queue. *)
Judged(r, d) == Proceed(r, [dec[r] EXCEPT ![Looking(r)] = d], Tail(todo[r]))

(* provider.read: the epoch is observed before the cache is asked. *)
Read(r) ==
  LET s == ScopeOf[r]
      c == Touch(cache, s) IN
  /\ phase[r] = "ask"
  /\ cache' = c
  /\ observed' = [observed EXCEPT ![r] = epoch]
  /\ got' = [got EXCEPT ![r] = IF Has(c, s) /\ Looking(r) \in DOMAIN c.entry[s].values
                                 THEN c.entry[s].values[Looking(r)] ELSE NoValue]
  /\ phase' = [phase EXCEPT ![r] = "read"]
  /\ UNCHANGED <<now, epoch, disabled, generation, flight, dec, todo, auxVars>>

Hit(r) ==
  /\ phase[r] = "read" /\ got[r] # NoValue
  /\ IF Looking(r) = "facts" THEN Decided(r, DecodeFacts(got[r].code))
     ELSE Judged(r, FromLetter(got[r].code))
  /\ UNCHANGED <<cache, now, epoch, disabled, generation, flight, auxVars>>

(* SingleFlight.run: join the computation under way, or start one. *)
Miss(r) ==
  /\ phase[r] = "read" /\ got[r] = NoValue
  /\ flight' = IF flight[KeyOf(r)].open THEN flight
               ELSE [flight EXCEPT ![KeyOf(r)] = [open |-> TRUE, val |-> NoValue]]
  /\ phase' = [phase EXCEPT ![r] = "waiting"]
  /\ UNCHANGED <<cache, now, epoch, disabled, generation, observed, got, dec, todo, auxVars>>

(* The host looks at its authorization: the evaluator, or the pipeline on  *)
(* a probe, which may also answer without the marker or be abandoned.      *)
Evaluate(k) ==
  /\ flight[k].open /\ flight[k].val = NoValue
  /\ \E a \in IF k[2] = "facts" THEN Facts ELSE Decision :
       flight' = [flight EXCEPT ![k].val = [began |-> invalidations, answer |-> a]]
  /\ UNCHANGED <<cache, now, epoch, disabled, generation, reqVars, auxVars>>

Waiters(k) == {r \in Request : phase[r] = "waiting" /\ KeyOf(r) = k}

(* The computation settles, for everyone who shares it.  A probe without a *)
(* verdict disables its tool.                                              *)
Settle(k) ==
  /\ flight[k].open /\ flight[k].val # NoValue
  /\ flight' = [flight EXCEPT ![k] = Idle]
  /\ disabled' = IF k[2] # "facts" /\ flight[k].val.answer = "unknown"
                   THEN disabled \cup {k[2]} ELSE disabled
  /\ phase' = [r \in Request |-> IF r \in Waiters(k) THEN "settled" ELSE phase[r]]
  /\ got' = [r \in Request |-> IF r \in Waiters(k) THEN flight[k].val ELSE got[r]]
  /\ UNCHANGED <<cache, now, epoch, generation, observed, dec, todo, auxVars>>

(* The evaluator or the dispatcher throws: every sharer's request fails.   *)
Fail(k) ==
  /\ flight[k].open
  /\ flight' = [flight EXCEPT ![k] = Idle]
  /\ phase' = [r \in Request |-> IF r \in Waiters(k) THEN "failed" ELSE phase[r]]
  /\ UNCHANGED <<cache, now, epoch, disabled, generation, observed, got, dec, todo, auxVars>>

(* The result is written back if the epoch observed is still current.      *)
Store(r) ==
  LET facts == Looking(r) = "facts"
      v == [code |-> IF facts THEN EncodeFacts(got[r].answer) ELSE Letter(got[r].answer),
            began |-> got[r].began, seq |-> invalidations, tags |-> TagsOf[r]] IN
  /\ phase[r] = "settled"
  /\ cache' = IF observed[r] = epoch /\ (facts \/ got[r].answer # "unknown")
                THEN Set(cache, ScopeOf[r], TagsOf[r], Looking(r), v) ELSE cache
  /\ IF facts THEN Decided(r, got[r].answer) ELSE Judged(r, got[r].answer)
  /\ UNCHANGED <<now, epoch, disabled, generation, flight, auxVars>>

-----------------------------------------------------------------------------
(* The host. *)

(* Bound: invalidations, bumps and reloads together. *)
MayCall == invalidations + epoch + generation < MaxHostCalls

(* The auxiliary variables note an invalidation of the scopes S.           *)
Noted(S) ==
  /\ MayCall
  /\ invalidations' = invalidations + 1
  /\ goneScope' = [s \in Scope |-> IF s \in S THEN invalidations + 1 ELSE goneScope[s]]

InvalidateCaller(s) ==
  /\ Noted({s})
  /\ cache' = RemoveScope(cache, s)
  /\ UNCHANGED <<now, epoch, disabled, generation, flight, reqVars, goneTag>>

InvalidateTag(t) ==
  /\ Noted(cache.tagIndex[t])
  /\ cache' = RemoveTag(cache, t)
  /\ goneTag' = [goneTag EXCEPT ![t] = invalidations + 1]
  /\ UNCHANGED <<now, epoch, disabled, generation, flight, reqVars>>

InvalidateAll ==
  /\ Noted(Scope)
  /\ cache' = Clear(cache)
  /\ UNCHANGED <<now, epoch, disabled, generation, flight, reqVars, goneTag>>

(* provider.bump, which only a host can call. *)
Bump ==
  /\ MayCall
  /\ epoch' = epoch + 1
  /\ UNCHANGED <<cache, now, disabled, generation, flight, reqVars, auxVars>>

(* catalog.reload with the listeners the module registers. *)
Reload ==
  /\ MayCall
  /\ generation' = generation + 1
  /\ disabled' = {}
  /\ UNCHANGED <<cache, now, epoch, flight, reqVars, auxVars>>

Tick ==
  /\ now < MaxTime
  /\ now' = now + 1
  /\ UNCHANGED <<cache, epoch, disabled, generation, flight, reqVars, auxVars>>

Next ==
  \/ \E r \in Request : Read(r) \/ Hit(r) \/ Miss(r) \/ Store(r)
  \/ \E k \in Scope \X Lookup : Evaluate(k) \/ Settle(k) \/ Fail(k)
  \/ \E s \in Scope : InvalidateCaller(s)
  \/ \E t \in Tag : InvalidateTag(t)
  \/ InvalidateAll \/ Bump \/ Reload \/ Tick

Spec == Init /\ [][Next]_vars

-----------------------------------------------------------------------------
(* What is cached: values with the scope and lookup they are stored under. *)
Cached == UNION {{<<s, k, cache.entry[s].values[k]>> : k \in DOMAIN cache.entry[s].values}
                   : s \in DOMAIN cache.entry}

(* "No entry written before the call is ever observed again for the        *)
(* affected scopes": whatever evictions, expiries and re-admissions came    *)
(* between, the tag index finds every value written under a tag.           *)
InvalidatedGone ==
  \A e \in Cached : /\ e[3].seq >= goneScope[e[1]]
                    /\ \A t \in e[3].tags : e[3].seq >= goneTag[t]

(* The map, the entries and the tag index of the cache agree, and the      *)
(* number of callers is bounded: nothing evicted stays reachable by a tag. *)
IndexAgrees ==
  /\ ToSet(cache.order) = DOMAIN cache.entry
  /\ IsInjective(cache.order) /\ Len(cache.order) <= MaxCallers
  /\ \A t \in Tag : cache.tagIndex[t] = {s \in DOMAIN cache.entry : t \in cache.entry[s].tags}

(* The in-flight rule of caching.md: a computation in flight during an     *)
(* invalidation may complete, but is not written back.                     *)
InFlightRule == \A e \in Cached : e[3].began >= goneScope[e[1]]
=============================================================================
