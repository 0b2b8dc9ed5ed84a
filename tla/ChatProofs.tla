----------------------------- MODULE ChatProofs -----------------------------
(***************************************************************************)
(* Theorems about three components of the chat application: the refreshes  *)
(* of a browser's session (AuthSessions), the settings that say which      *)
(* tools run unasked (ToolApprovals), and agent turns (AgentTurn).  They   *)
(* hold for any tabs, calls, tools, conversations and turns.               *)
(*                                                                         *)
(* The components share no state: a theorem about one says nothing of the  *)
(* others, and rests on what its module assumes of its constants.          *)
(*                                                                         *)
(* Each part proves one inductive invariant:                               *)
(*   - AuthInv orders the generations of the refresh token: what the jar   *)
(*     holds, what is presented and what the server stored are never more  *)
(*     than one rotation apart while no answer is lost, so that none of    *)
(*     them is taken for a replay (HealthInv);                             *)
(*   - ApprovalInv ties each override, each grant and what a turn has read *)
(*     of them to a consent that stood (ConsentInv, ReadInv), the digest   *)
(*     a request stores to what its reader was shown (ShownInv), and a     *)
(*     promise made to the reader to the row that will keep it (KeptInv);  *)
(*   - AgentInv says what a turn's queue can hold: nothing of an earlier   *)
(*     turn runs on the thread once it was unsubscribed (QuietInv), so an  *)
(*     end that follows the status of the thread in the queue is the       *)
(*     turn's own (QueueInv).                                              *)
(***************************************************************************)
EXTENDS AuthSessions, ToolApprovals, AgentTurn, TLAPS

-----------------------------------------------------------------------------
(* Sessions in the browser: the refreshes of tabs and calls (AuthSessions). *)

(* The types, without the bound that AuthTypeOK puts on the generations of  *)
(* the refresh token.                                                       *)
AuthTypes ==
  /\ locks \in BOOLEAN /\ lost \in BOOLEAN /\ overtaken \in BOOLEAN /\ access \in BOOLEAN
  /\ cookie \in Nat \cup {None} /\ young \subseteq Call
  /\ pc \in [Call -> {"new", "wait", "sent", "flight", "again", "done"}]
  /\ since \in [Call -> Nat] /\ carried \subseteq Call
  /\ status \in [Call -> {"none", "ok", "401"}] /\ refused \subseteq Call
  /\ flight \in [Tab -> Call \cup {NoCall}] /\ epoch \in [Tab -> Nat]
  /\ exhausted \subseteq Tab /\ lock \in Call \cup {NoCall}
  /\ stage \in [Call -> {"none", "lock", "fetch"}] /\ skip \subseteq Call
  /\ presented \in [Call -> Nat \cup {None}]
  /\ srv \in [Call -> RefreshOutcome \cup {"none", "sent", "found", "revoking"}]
  /\ late \subseteq Call
  /\ top \in Nat /\ consumed = 0 .. top - 1 /\ graceOver \subseteq consumed
  /\ session \in {"live", "revoked", "expired"} /\ logout \in {"no", "served", "landed"}
  /\ refusals \subseteq Refusal

(* No cookie and no presented token is of a generation that was not issued, *)
(* and a rotation that has been stored is ahead of the token it answered.   *)
GenInv ==
  /\ cookie <= top
  /\ \A c \in Call : /\ presented[c] <= top
                     /\ srv[c] = "found" => presented[c] # None
                     /\ srv[c] = "rotated" => presented[c] < top

(* A tab's flight is led by a call of the tab that is under way; calls that *)
(* wait have a flight to wait for; the browser's lock is held by a fetch,   *)
(* and where tabs lock, nobody else fetches.                                *)
FlightInv ==
  /\ \A t \in Tab : flight[t] # NoCall => TabOf[flight[t]] = t /\ stage[flight[t]] # "none"
  /\ \A c \in Call : stage[c] # "none" => flight[TabOf[c]] = c /\ pc[c] = "flight"
  /\ \A c \in Call : pc[c] \in {"wait", "flight"} => flight[TabOf[c]] # NoCall
  /\ \A c \in skip : stage[c] = "lock"
  /\ lock # NoCall => stage[lock] = "fetch"
  /\ locks => \A c \in Call : stage[c] = "fetch" => lock = c

(* The browser has lost its session: it is over, or an error other than a   *)
(* 429 took it from a tab.                                                  *)
SignedOut == Gone \/ refusals \ {"limited"} # {}

(* A cookie that was cleared, a logout and a latch that was set each show   *)
(* that the browser has lost the session, and so does an answer of 401,     *)
(* which will set the latch.                                                *)
LatchInv ==
  /\ cookie = None \/ logout # "no" \/ exhausted # {} => SignedOut
  /\ \A c \in Call : /\ srv[c] = "sent" /\ presented[c] = None => SignedOut
                     /\ srv[c] \in {"replayed", "invalid"} => SignedOut

(* Refreshes whose rotation is stored and whose answer, which may be a 500, *)
(* has not reached the browser, and refreshes the server has not decided.   *)
Landing == {c \in Call : srv[c] \in {"rotated", "unsaid"}}
Pending == {c \in Call : srv[c] \in {"sent", "found"}}

(* As long as no answer was lost, at most one rotation is on its way, the   *)
(* cookie is the newest token but for it, and no refresh under way          *)
(* presented a later one.                                                   *)
RotationInv ==
  /\ \A c \in Call : srv[c] # "none" => stage[c] = "fetch"
  /\ \A c \in Landing : presented[c] = top - 1 /\ presented[c] \notin graceOver
  /\ \A c, d \in Landing : c = d
  /\ cookie = None \/ cookie = IF Landing = {} THEN top ELSE top - 1
  /\ \A c \in Pending : presented[c] <= IF Landing = {} THEN top ELSE top - 1
  /\ \A c \in Call : srv[c] = "found" => presented[c] # None
  /\ \A c \in late : srv[c] = "found"

(* While no rotation overtook a refresh that was still to be decided, each  *)
(* of these presented the newest token or the one before, within its grace. *)
TwinInv ==
  /\ \A c \in Pending : presented[c] # None =>
       presented[c] >= top - 1 /\ presented[c] \notin graceOver /\ c \notin late
  /\ \A c \in Call : srv[c] \notin {"revoking", "replayed"}

(* Where tabs lock, a refresh presents the newest token. *)
AloneInv ==
  \A c \in Call : /\ srv[c] \notin {"superseded", "revoking", "replayed"}
                  /\ c \in Pending => presented[c] \in {None, top}

(* The three of them, each where it applies, and that the session is kept. *)
HealthInv ==
  /\ ~lost => RotationInv /\ (~overtaken => TwinInv) /\ (locks => AloneInv)
  /\ HealthyKept

(* With locks, a call that is dispatched after a refresh carries an access  *)
(* token that is young, and only such calls retry or skip their own         *)
(* refresh.                                                                 *)
RetryInv ==
  /\ refused = {}
  /\ young \cap ActiveCalls # {} => access
  /\ \A c \in Call : pc[c] = "again" =>
       c \in young /\ (status[c] = "ok" \/ (status[c] = "none" /\ c \in carried))
  /\ \A c \in Call : pc[c] = "sent" /\ since[c] # epoch[TabOf[c]] => c \in young
  /\ \A f \in skip :
       /\ f \in young
       /\ \A c \in Call : /\ TabOf[c] = TabOf[f]
                          /\ pc[c] = "sent" \/ (pc[c] = "flight" /\ c \notin Probes)
                          => c \in young

(* A young call was dispatched; and the rest, while no answer was lost, no  *)
(* flight failed otherwise and the session lives.                           *)
YoungInv ==
  /\ \A c \in young : pc[c] # "new"
  /\ locks /\ ~lost /\ refusals = {} /\ ~Gone => RetryInv

(* The end of a flight keeps the types of what it settles. *)
LEMMA ConcludeTypes ==
  ASSUME AuthWellFormed, AuthTypes, NEW t \in Tab, NEW ok, NEW terminal, NEW acc,
         Concludes(t, ok, terminal, acc)
  PROVE  /\ pc' \in [Call -> {"new", "wait", "sent", "flight", "again", "done"}]
         /\ since' \in [Call -> Nat] /\ carried' \subseteq Call /\ refused' \subseteq Call
         /\ status' \in [Call -> {"none", "ok", "401"}]
         /\ flight' \in [Tab -> Call \cup {NoCall}] /\ epoch' \in [Tab -> Nat]
         /\ exhausted' \subseteq Tab /\ stage' \in [Call -> {"none", "lock", "fetch"}]
<1>1. epoch' \in [Tab -> Nat] /\ epoch'[t] \in Nat
  BY DEF Concludes, AuthTypes
<1>2. pc' \in [Call -> {"new", "wait", "sent", "flight", "again", "done"}]
  BY DEF Concludes, AuthTypes
<1>3. since' \in [Call -> Nat]
  BY <1>1 DEF Concludes, AuthTypes
<1>4. carried' \subseteq Call /\ status' \in [Call -> {"none", "ok", "401"}]
  BY DEF Concludes, Dispatched, Of, AuthTypes
<1>5. flight' \in [Tab -> Call \cup {NoCall}] /\ stage' \in [Call -> {"none", "lock", "fetch"}]
  BY DEF Concludes, AuthTypes
<1>6. refused' \subseteq Call /\ exhausted' \subseteq Tab
  BY DEF Concludes, Of, AuthTypes
<1> QED
  BY <1>1, <1>2, <1>3, <1>4, <1>5, <1>6

(* So does the start of a fetch, *)
LEMMA FetchTypes ==
  ASSUME AuthTypes, NEW c \in Call, Fetch(c)
  PROVE  /\ stage' \in [Call -> {"none", "lock", "fetch"}]
         /\ presented' \in [Call -> Nat \cup {None}]
         /\ srv' \in [Call -> RefreshOutcome \cup {"none", "sent", "found", "revoking"}]
<1>1. stage' \in [Call -> {"none", "lock", "fetch"}]
  BY DEF Fetch, AuthTypes
<1>2. presented' \in [Call -> Nat \cup {None}]
  BY DEF Fetch, AuthTypes
<1>3. srv' \in [Call -> RefreshOutcome \cup {"none", "sent", "found", "revoking"}]
  BY DEF Fetch, AuthTypes
<1> QED
  BY <1>1, <1>2, <1>3

(* and a call that joins or starts a flight. *)
LEMMA JoinTypes ==
  ASSUME AuthWellFormed, AuthTypes, NEW c \in Call, JoinFlight(c)
  PROVE  /\ pc' \in [Call -> {"new", "wait", "sent", "flight", "again", "done"}]
         /\ flight' \in [Tab -> Call \cup {NoCall}]
         /\ stage' \in [Call -> {"none", "lock", "fetch"}]
         /\ presented' \in [Call -> Nat \cup {None}]
         /\ srv' \in [Call -> RefreshOutcome \cup {"none", "sent", "found", "revoking"}]
<1>1. pc' \in [Call -> {"new", "wait", "sent", "flight", "again", "done"}]
  BY DEF JoinFlight, AuthTypes
<1>2. flight' \in [Tab -> Call \cup {NoCall}]
  <2>1. flight' = flight \/ flight' = [flight EXCEPT ![TabOf[c]] = c]
    BY DEF JoinFlight
  <2> QED
    BY <2>1 DEF AuthTypes
<1>3. CASE flight[TabOf[c]] # NoCall
  BY <1>1, <1>2, <1>3 DEF JoinFlight, AuthTypes
<1>4. CASE flight[TabOf[c]] = NoCall /\ locks
  <2>1. stage' = [stage EXCEPT ![c] = "lock"] /\ UNCHANGED <<presented, srv>>
    BY <1>4 DEF JoinFlight
  <2>2. stage' \in [Call -> {"none", "lock", "fetch"}]
    BY <2>1 DEF AuthTypes
  <2> QED
    BY <1>1, <1>2, <2>1, <2>2 DEF AuthTypes
<1>5. CASE flight[TabOf[c]] = NoCall /\ ~locks
  <2>1. Fetch(c)
    BY <1>5 DEF JoinFlight
  <2> QED
    BY <1>1, <1>2, <2>1, FetchTypes
<1> QED
  BY <1>3, <1>4, <1>5

(* Every action keeps the types. *)
LEMMA AuthTypesStep == AuthWellFormed /\ AuthTypes /\ GenInv /\ [AuthNext]_authVars => AuthTypes'
<1> SUFFICES ASSUME AuthWellFormed, AuthTypes, GenInv, [AuthNext]_authVars PROVE AuthTypes'
  OBVIOUS
<1> USE DEF flightHistory
<1>1. ASSUME NEW c \in Call, BeginCall(c) PROVE AuthTypes'
  <2>1. CASE flight[TabOf[c]] # NoCall
    BY <1>1, <2>1 DEF BeginCall, jarVars, tabVars, dbVars, timeVars, AuthTypes
  <2>2. CASE flight[TabOf[c]] = NoCall
    <3>1. epoch[TabOf[c]] \in Nat
      BY DEF AuthTypes, AuthWellFormed
    <3>2. carried' \subseteq Call /\ status' \in [Call -> {"none", "ok", "401"}]
      <4>1. Dispatched({c}, access)
        BY <1>1, <2>2 DEF BeginCall
      <4> QED
        BY <4>1 DEF Dispatched, AuthTypes
    <3> QED
      BY <1>1, <2>2, <3>1, <3>2 DEF BeginCall, jarVars, tabVars, dbVars, timeVars, AuthTypes
  <2> QED
    BY <2>1, <2>2
<1>2. ASSUME NEW c \in Call, Probe(c) PROVE AuthTypes'
  <2>1. JoinFlight(c)
    BY <1>2 DEF Probe
  <2> QED
    BY <1>2, <2>1, JoinTypes DEF Probe, jarVars, dbVars, timeVars, AuthTypes
<1>3. ASSUME NEW c \in Call, Serve(c) PROVE AuthTypes'
  BY <1>3 DEF Serve, jarVars, callVars, tabVars, dbVars, timeVars, AuthTypes, AuthWellFormed
<1>4. ASSUME NEW c \in Call, Arrive(c) PROVE AuthTypes'
  <2>1. CASE Return(c, status[c]) /\ UNCHANGED <<flight, stage, presented, srv>>
    BY <1>4, <2>1 DEF Arrive, Return, jarVars, dbVars, timeVars, AuthTypes
  <2>2. CASE /\ pc' = [pc EXCEPT ![c] = "again"] /\ Dispatched({c}, access)
             /\ UNCHANGED <<since, refused, flight, stage, presented, srv>>
    BY <1>4, <2>2 DEF Arrive, Dispatched, jarVars, dbVars, timeVars, AuthTypes
  <2>3. CASE JoinFlight(c) /\ UNCHANGED <<since, refused, carried, status>>
    BY <1>4, <2>3, JoinTypes DEF Arrive, jarVars, dbVars, timeVars, AuthTypes
  <2> QED
    BY <1>4, <2>1, <2>2, <2>3 DEF Arrive
<1>5. ASSUME NEW c \in Call, CallFails(c) PROVE AuthTypes'
  BY <1>5 DEF CallFails, Return, jarVars, callVars, tabVars, dbVars, timeVars, AuthTypes,
     AuthWellFormed
<1>6. ASSUME NEW c \in Call, LockGranted(c) PROVE AuthTypes'
  <2>1. CASE c \notin skip
    <3>1. Fetch(c)
      BY <1>6, <2>1 DEF LockGranted
    <3> QED
      BY <1>6, <2>1, <3>1, FetchTypes DEF LockGranted, jarVars, callVars, dbVars, timeVars,
         AuthTypes
  <2>2. CASE c \in skip
    <3>1. TabOf[c] \in Tab /\ Concludes(TabOf[c], TRUE, FALSE, access)
      BY <1>6, <2>2 DEF LockGranted, AuthWellFormed
    <3> QED
      BY <1>6, <2>2, <3>1, ConcludeTypes DEF LockGranted, jarVars, dbVars, timeVars, AuthTypes
  <2> QED
    BY <2>1, <2>2
<1>7. ASSUME NEW c \in Call, LockTimeout(c) PROVE AuthTypes'
  <2>1. TabOf[c] \in Tab /\ Concludes(TabOf[c], FALSE, FALSE, access)
    BY <1>7 DEF LockTimeout, AuthWellFormed
  <2> QED
    BY <1>7, <2>1, ConcludeTypes DEF LockTimeout, jarVars, dbVars, timeVars, AuthTypes
<1>8. ASSUME NEW c \in Call, Land(c) PROVE AuthTypes'
  <2>1. PICK ok, terminal, acc : TabOf[c] \in Tab /\ Concludes(TabOf[c], ok, terminal, acc)
    BY <1>8 DEF Land, AuthWellFormed
  <2>2. cookie' \in Nat \cup {None} /\ access' \in BOOLEAN /\ young' \subseteq Call
    <3>1. cookie' \in {presented[c] + 1, None, cookie} /\ young' \in {ActiveCalls, young}
      BY <1>8 DEF Land
    <3>2. access' = (Issued(srv[c]) \/ (~Cleared(srv[c]) /\ access))
      BY <1>8 DEF Land
    <3>3. presented[c] + 1 \in Nat
      <4>1. presented[c] \in Nat \/ presented[c] = -1
        BY DEF AuthTypes, None
      <4> QED
        BY <4>1
    <3> QED
      BY <3>1, <3>2, <3>3 DEF ActiveCalls, AuthTypes
  <2>3. lock' \in Call \cup {NoCall} /\ skip' \subseteq Call /\ presented' \in [Call -> Nat \cup {None}]
        /\ srv' \in [Call -> RefreshOutcome \cup {"none", "sent", "found", "revoking"}]
    BY <1>8 DEF Land, Unlocked, AuthTypes
  <2> QED
    BY <1>8, <2>1, <2>2, <2>3, ConcludeTypes DEF Land, dbVars, timeVars, AuthTypes
<1>9. ASSUME NEW c \in Call, FetchFails(c) PROVE AuthTypes'
  <2>1. TabOf[c] \in Tab /\ Concludes(TabOf[c], FALSE, FALSE, access)
    BY <1>9 DEF FetchFails, AuthWellFormed
  <2>2. lock' \in Call \cup {NoCall}
          /\ srv' \in [Call -> RefreshOutcome \cup {"none", "sent", "found", "revoking"}]
    BY <1>9 DEF FetchFails, Unlocked, AuthTypes
  <2> QED
    BY <1>9, <2>1, <2>2, ConcludeTypes DEF FetchFails, jarVars, dbVars, timeVars, AuthTypes
<1>10. ASSUME NEW c \in Call, Find(c) PROVE AuthTypes'
  <2>1. srv' \in [Call -> RefreshOutcome \cup {"none", "sent", "found", "revoking"}]
    BY <1>10 DEF Find, Answers, RefreshOutcome, AuthTypes
  <2> QED
    BY <1>10, <2>1 DEF Find, jarVars, callVars, tabVars, dbVars, timeVars, AuthTypes
<1>11. ASSUME NEW c \in Call, Settle(c) PROVE AuthTypes'
  <2>1. srv' \in [Call -> RefreshOutcome \cup {"none", "sent", "found", "revoking"}]
    <3>1. \E o \in {"rotated", "unsaid", "superseded", "revoking", "none"} :
            srv' = [srv EXCEPT ![c] = o]
      BY <1>11 DEF Settle, Answers
    <3>2. {"rotated", "unsaid", "superseded", "revoking", "none"}
            \subseteq RefreshOutcome \cup {"none", "sent", "found", "revoking"}
      BY DEF RefreshOutcome, Refusal, Broken
    <3> QED
      BY <3>1, <3>2 DEF AuthTypes
  <2>2. CASE presented[c] \notin consumed
    <3>1. presented[c] = top
      BY <1>11, <2>2 DEF Settle, None, AuthTypes, GenInv
    <3>2. consumed' = 0 .. top /\ top' = top + 1 /\ overtaken' \in BOOLEAN
      <4>1. consumed' = consumed \cup {top} /\ top' = top + 1
        BY <1>11, <2>2, <3>1 DEF Settle
      <4>2. overtaken' \in BOOLEAN
        BY <1>11, <2>2 DEF Settle
      <4> QED
        BY <4>1, <4>2 DEF AuthTypes
    <3> QED
      BY <1>11, <2>1, <3>2 DEF Settle, jarVars, callVars, tabVars, AuthTypes
  <2>3. CASE presented[c] \in consumed
    BY <1>11, <2>1, <2>3 DEF Settle, jarVars, callVars, tabVars, AuthTypes
  <2> QED
    BY <2>2, <2>3
<1>12. ASSUME NEW c \in Call, Revoke(c) PROVE AuthTypes'
  <2>1. srv' \in [Call -> RefreshOutcome \cup {"none", "sent", "found", "revoking"}]
    BY <1>12 DEF Revoke, Answers, RefreshOutcome, Refusal, Broken, AuthTypes
  <2> QED
    BY <1>12, <2>1 DEF Revoke, jarVars, callVars, tabVars, timeVars, AuthTypes
<1>13. ASSUME NEW t \in Tab, Reload(t) PROVE AuthTypes'
  BY <1>13 DEF Reload, Dispatched, Unlocked, RefreshOutcome, jarVars, callVars, tabVars, dbVars,
     timeVars, AuthTypes, AuthWellFormed
<1>14. ASSUME Logout PROVE AuthTypes'
  BY <1>14 DEF Logout, jarVars, callVars, tabVars, dbVars, timeVars, AuthTypes, AuthWellFormed
<1>15. ASSUME LogoutLands PROVE AuthTypes'
  BY <1>15 DEF LogoutLands, jarVars, callVars, tabVars, dbVars, timeVars, AuthTypes, AuthWellFormed
<1>16. ASSUME AccessLapses PROVE AuthTypes'
  BY <1>16 DEF AccessLapses, jarVars, callVars, tabVars, dbVars, timeVars, AuthTypes, AuthWellFormed
<1>17. ASSUME Expire PROVE AuthTypes'
  BY <1>17 DEF Expire, jarVars, callVars, tabVars, dbVars, timeVars, AuthTypes, AuthWellFormed
<1>18. ASSUME NEW g \in Generation, GraceEnds(g) PROVE AuthTypes'
  BY <1>18 DEF GraceEnds, Unsettled, jarVars, callVars, tabVars, dbVars, timeVars, AuthTypes,
     AuthWellFormed
<1>19. ASSUME UNCHANGED authVars PROVE AuthTypes'
  BY <1>19 DEF authVars, jarVars, callVars, tabVars, dbVars, timeVars, AuthTypes, AuthWellFormed
<1>20. ASSUME NEW c \in Call, GuardRefuses(c) PROVE AuthTypes'
  <2>1. srv' \in [Call -> RefreshOutcome \cup {"none", "sent", "found", "revoking"}]
    BY <1>20 DEF GuardRefuses, Answers, RefreshOutcome, Refusal, AuthTypes
  <2> QED
    BY <1>20, <2>1 DEF GuardRefuses, jarVars, callVars, tabVars, dbVars, timeVars, AuthTypes
<1>21. ASSUME NEW c \in Call, StatementFails(c) PROVE AuthTypes'
  <2>1. srv' \in [Call -> RefreshOutcome \cup {"none", "sent", "found", "revoking"}]
    BY <1>21 DEF StatementFails, Answers, RefreshOutcome, Refusal, Broken, AuthTypes
  <2> QED
    BY <1>21, <2>1 DEF StatementFails, jarVars, callVars, tabVars, dbVars, timeVars, AuthTypes
<1> QED
  BY <1>1, <1>2, <1>3, <1>4, <1>5, <1>6, <1>7, <1>8, <1>9, <1>10, <1>11, <1>12, <1>13, <1>14,
     <1>15, <1>16, <1>17, <1>18, <1>19, <1>20, <1>21 DEF AuthNext, CallStep, ServerStep

(* A fetch presents a token that was issued. *)
LEMMA FetchGen ==
  ASSUME AuthTypes, GenInv, NEW c \in Call, Fetch(c), UNCHANGED <<cookie, top>>
  PROVE  GenInv'
BY DEF Fetch, AuthTypes, GenInv

(* An answer other than a rotation leaves the generations alone. *)
LEMMA AnswerGen ==
  ASSUME AuthTypes, GenInv, NEW c \in Call, UNCHANGED <<cookie, top, presented>>,
         \A d \in Call : srv'[d] \in {"found", "rotated"} => srv'[d] = srv[d]
  PROVE  GenInv'
BY DEF AuthTypes, GenInv

(* No token is known before it is issued: the jar and every request carry   *)
(* a generation up to the last one.                                         *)
LEMMA GenStep == AuthTypes /\ GenInv /\ [AuthNext]_authVars => GenInv'
<1> SUFFICES ASSUME AuthTypes, GenInv, [AuthNext]_authVars PROVE GenInv'
  OBVIOUS
<1> USE DEF flightHistory
<1>1. ASSUME NEW c \in Call, BeginCall(c) PROVE GenInv'
  BY <1>1 DEF BeginCall, Dispatched, jarVars, callVars, tabVars, dbVars, timeVars, GenInv
<1>2. ASSUME NEW c \in Call, Probe(c) PROVE GenInv'
  <2>1. UNCHANGED <<cookie, top>>
    BY <1>2 DEF Probe, jarVars, dbVars
  <2>2. UNCHANGED <<presented, srv>> \/ Fetch(c)
    BY <1>2 DEF Probe, JoinFlight
  <2> QED
    BY <2>1, <2>2, FetchGen DEF GenInv
<1>3. ASSUME NEW c \in Call, Serve(c) PROVE GenInv'
  BY <1>3 DEF Serve, jarVars, callVars, tabVars, dbVars, timeVars, GenInv
<1>4. ASSUME NEW c \in Call, Arrive(c) PROVE GenInv'
  <2>1. UNCHANGED <<cookie, top>>
    BY <1>4 DEF Arrive, jarVars, dbVars
  <2>2. UNCHANGED <<presented, srv>> \/ Fetch(c)
    BY <1>4 DEF Arrive, JoinFlight
  <2> QED
    BY <2>1, <2>2, FetchGen DEF GenInv
<1>5. ASSUME NEW c \in Call, CallFails(c) PROVE GenInv'
  BY <1>5 DEF CallFails, Return, jarVars, callVars, tabVars, dbVars, timeVars, GenInv
<1>6. ASSUME NEW c \in Call, LockGranted(c) PROVE GenInv'
  <2>1. UNCHANGED <<cookie, top>>
    BY <1>6 DEF LockGranted, jarVars, dbVars
  <2>2. UNCHANGED <<presented, srv>> \/ Fetch(c)
    BY <1>6 DEF LockGranted
  <2> QED
    BY <2>1, <2>2, FetchGen DEF GenInv
<1>7. ASSUME NEW c \in Call, LockTimeout(c) PROVE GenInv'
  BY <1>7 DEF LockTimeout, jarVars, callVars, tabVars, dbVars, timeVars, GenInv
<1>8. ASSUME NEW c \in Call, Land(c) PROVE GenInv'
  <2>1. /\ top' = top /\ srv' = [srv EXCEPT ![c] = "none"]
        /\ presented' = [presented EXCEPT ![c] = None]
        /\ \/ srv[c] = "rotated" /\ cookie' = presented[c] + 1
           \/ cookie' \in {cookie, None}
    BY <1>8 DEF Land, Issued, dbVars
  <2> QED
    BY <2>1 DEF AuthTypes, GenInv, None
<1>9. ASSUME NEW c \in Call, FetchFails(c) PROVE GenInv'
  <2>1. /\ UNCHANGED <<cookie, top, presented>>
        /\ srv' = srv \/ srv' = [srv EXCEPT ![c] = "none"]
    BY <1>9 DEF FetchFails, jarVars, dbVars
  <2> QED
    BY <2>1, AnswerGen DEF AuthTypes
<1>10. ASSUME NEW c \in Call, Find(c) PROVE GenInv'
  <2>1. UNCHANGED <<cookie, top, presented>>
    BY <1>10 DEF Find, jarVars, dbVars, tabVars
  <2>2. \/ srv' = [srv EXCEPT ![c] = "found"] /\ presented[c] # None
        \/ srv' = [srv EXCEPT ![c] = "invalid"] \/ srv' = [srv EXCEPT ![c] = "none"]
    BY <1>10 DEF Find, Answers
  <2> QED
    BY <2>1, <2>2 DEF AuthTypes, GenInv
<1>11. ASSUME NEW c \in Call, Settle(c) PROVE GenInv'
  <2>1. UNCHANGED <<cookie, presented>>
    BY <1>11 DEF Settle, jarVars, tabVars
  <2>2. CASE presented[c] \notin consumed
    <3>1. presented[c] = top
      BY <1>11, <2>2 DEF Settle, None, AuthTypes, GenInv
    <3>2. /\ top' = top + 1
          /\ \E o \in {"rotated", "unsaid", "none"} : srv' = [srv EXCEPT ![c] = o]
      BY <1>11, <2>2, <3>1 DEF Settle, Answers
    <3> QED
      BY <2>1, <3>1, <3>2 DEF AuthTypes, GenInv, None
  <2>3. CASE presented[c] \in consumed
    <3>1. /\ top' = top
          /\ \E o \in {"superseded", "none", "revoking"} : srv' = [srv EXCEPT ![c] = o]
      BY <1>11, <2>3 DEF Settle, Answers
    <3> QED
      BY <2>1, <3>1 DEF AuthTypes, GenInv
  <2> QED
    BY <2>2, <2>3
<1>12. ASSUME NEW c \in Call, Revoke(c) PROVE GenInv'
  <2>1. /\ UNCHANGED <<cookie, top, presented>>
        /\ \E o \in {"replayed", "broken", "none"} : srv' = [srv EXCEPT ![c] = o]
    BY <1>12 DEF Revoke, Answers, jarVars, tabVars
  <2> QED
    BY <2>1 DEF AuthTypes, GenInv
<1>13. ASSUME NEW t \in Tab, Reload(t) PROVE GenInv'
  <2>1. /\ UNCHANGED <<cookie, top, presented>>
        /\ \A d \in Call : srv'[d] \in {srv[d], "none"}
    BY <1>13 DEF Reload, jarVars, dbVars
  <2> QED
    BY <2>1 DEF GenInv
<1>14. ASSUME Logout PROVE GenInv'
  BY <1>14 DEF Logout, jarVars, callVars, tabVars, dbVars, timeVars, GenInv
<1>15. ASSUME LogoutLands PROVE GenInv'
  BY <1>15 DEF LogoutLands, jarVars, callVars, tabVars, dbVars, timeVars, GenInv, AuthTypes,
     None
<1>16. ASSUME AccessLapses PROVE GenInv'
  BY <1>16 DEF AccessLapses, jarVars, callVars, tabVars, dbVars, timeVars, GenInv
<1>17. ASSUME Expire PROVE GenInv'
  BY <1>17 DEF Expire, jarVars, callVars, tabVars, dbVars, timeVars, GenInv
<1>18. ASSUME NEW g \in Generation, GraceEnds(g) PROVE GenInv'
  BY <1>18 DEF GraceEnds, Unsettled, jarVars, callVars, tabVars, dbVars, timeVars, GenInv
<1>19. ASSUME UNCHANGED authVars PROVE GenInv'
  BY <1>19 DEF authVars, jarVars, callVars, tabVars, dbVars, timeVars, GenInv
<1>20. ASSUME NEW c \in Call, GuardRefuses(c) PROVE GenInv'
  <2>1. /\ UNCHANGED <<cookie, top, presented>>
        /\ \E o \in {"limited", "forbidden", "none"} : srv' = [srv EXCEPT ![c] = o]
    BY <1>20 DEF GuardRefuses, Answers, jarVars, tabVars, dbVars
  <2> QED
    BY <2>1 DEF AuthTypes, GenInv
<1>21. ASSUME NEW c \in Call, StatementFails(c) PROVE GenInv'
  <2>1. /\ UNCHANGED <<cookie, top, presented>>
        /\ \E o \in {"broken", "none"} : srv' = [srv EXCEPT ![c] = o]
    BY <1>21 DEF StatementFails, Answers, jarVars, tabVars, dbVars
  <2> QED
    BY <2>1 DEF AuthTypes, GenInv
<1> QED
  BY <1>1, <1>2, <1>3, <1>4, <1>5, <1>6, <1>7, <1>8, <1>9, <1>10, <1>11, <1>12, <1>13, <1>14,
     <1>15, <1>16, <1>17, <1>18, <1>19, <1>20, <1>21 DEF AuthNext, CallStep, ServerStep

(* The end of a flight frees its tab and lets go of everyone who waited for *)
(* it.                                                                      *)
LEMMA ConcludeFlights ==
  ASSUME AuthWellFormed, AuthTypes, FlightInv, NEW c \in Call, stage[c] # "none",
         NEW ok, NEW terminal, NEW acc, Concludes(TabOf[c], ok, terminal, acc)
  PROVE  /\ flight' = [flight EXCEPT ![TabOf[c]] = NoCall]
         /\ stage' = [stage EXCEPT ![c] = "none"]
         /\ \A d \in Call : TabOf[d] # TabOf[c] => pc'[d] = pc[d]
         /\ \A d \in Call : TabOf[d] = TabOf[c] =>
              pc'[d] \notin {"wait", "flight"} /\ (pc'[d] = "new" <=> pc[d] = "new")
<1>1. TabOf[c] \in Tab /\ flight[TabOf[c]] = c
  BY DEF AuthWellFormed, FlightInv
<1>2. flight' = [flight EXCEPT ![TabOf[c]] = NoCall] /\ stage' = [stage EXCEPT ![c] = "none"]
  BY <1>1 DEF Concludes
<1>3. \A d \in Call : pc'[d] = IF d \in (IF ok THEN Of(TabOf[c], "flight") \cap Probes
        ELSE Of(TabOf[c], "flight"))
                               THEN "done"
                               ELSE IF d \in Of(TabOf[c], "flight") THEN "again"
                               ELSE IF d \in Of(TabOf[c], "wait") THEN "sent" ELSE pc[d]
  BY DEF Concludes
<1> QED
  BY <1>2, <1>3 DEF Of

(* A flight that ends keeps FlightInv, *)
LEMMA FlightEnds ==
  ASSUME AuthWellFormed, AuthTypes, FlightInv, NEW c \in Call, stage[c] # "none",
         NEW ok, NEW terminal, NEW acc, Concludes(TabOf[c], ok, terminal, acc),
         locks' = locks, lock' = IF lock = c THEN NoCall ELSE lock,
         \A d \in skip' : d # c /\ stage[d] = "lock" /\ d \in Call
  PROVE  FlightInv'
<1>1. /\ flight' = [flight EXCEPT ![TabOf[c]] = NoCall]
      /\ stage' = [stage EXCEPT ![c] = "none"]
      /\ \A d \in Call : TabOf[d] # TabOf[c] => pc'[d] = pc[d]
      /\ \A d \in Call : TabOf[d] = TabOf[c] => pc'[d] \notin {"wait", "flight"}
  BY ConcludeFlights
<1>2. \A d \in Call : TabOf[d] = TabOf[c] => stage'[d] = "none"
  BY <1>1 DEF FlightInv, AuthTypes
<1>3. \A t \in Tab : flight'[t] # NoCall => t # TabOf[c] /\ flight'[t] = flight[t]
  BY <1>1 DEF AuthTypes, AuthWellFormed
<1>4. \A t \in Tab : flight'[t] # NoCall => TabOf[flight'[t]] = t /\ stage'[flight'[t]] # "none"
  BY <1>1, <1>3 DEF FlightInv, AuthTypes, AuthWellFormed
<1>5. \A d \in Call : stage'[d] # "none" => flight'[TabOf[d]] = d /\ pc'[d] = "flight"
  BY <1>1, <1>2 DEF FlightInv, AuthTypes, AuthWellFormed
<1>6. \A d \in Call : pc'[d] \in {"wait", "flight"} => flight'[TabOf[d]] # NoCall
  BY <1>1 DEF FlightInv, AuthTypes, AuthWellFormed
<1>7. \A d \in skip' : stage'[d] = "lock"
  BY <1>1 DEF AuthTypes
<1>8. lock' # NoCall => stage'[lock'] = "fetch"
  BY <1>1 DEF FlightInv, AuthTypes
<1>9. locks' => \A d \in Call : stage'[d] = "fetch" => lock' = d
  BY <1>1 DEF FlightInv, AuthTypes
<1> QED
  BY <1>4, <1>5, <1>6, <1>7, <1>8, <1>9 DEF FlightInv

(* a call that joins or starts one does, *)
LEMMA FlightJoined ==
  ASSUME AuthWellFormed, AuthTypes, FlightInv, NEW c \in Call, pc[c] \notin {"flight", "wait"},
         JoinFlight(c),
         UNCHANGED <<locks, lock, skip>>
  PROVE  FlightInv'
<1>1. TabOf[c] \in Tab /\ stage[c] = "none" /\ pc' = [pc EXCEPT ![c] = "flight"]
  BY DEF AuthWellFormed, FlightInv, AuthTypes, JoinFlight
<1>2. CASE flight[TabOf[c]] # NoCall /\ UNCHANGED <<flight, stage>>
  BY <1>1, <1>2 DEF FlightInv, AuthTypes
<1>3. CASE /\ flight[TabOf[c]] = NoCall /\ flight' = [flight EXCEPT ![TabOf[c]] = c]
           /\ \/ locks /\ stage' = [stage EXCEPT ![c] = "lock"]
              \/ ~locks /\ stage' = [stage EXCEPT ![c] = "fetch"]
  <2>1. \A t \in Tab : flight'[t] # NoCall => TabOf[flight'[t]] = t /\ stage'[flight'[t]] # "none"
    BY <1>1, <1>3 DEF FlightInv, AuthTypes, AuthWellFormed
  <2>2. \A d \in Call : stage'[d] # "none" => flight'[TabOf[d]] = d /\ pc'[d] = "flight"
    BY <1>1, <1>3 DEF FlightInv, AuthTypes, AuthWellFormed
  <2>3. \A d \in Call : pc'[d] \in {"wait", "flight"} => flight'[TabOf[d]] # NoCall
    BY <1>1, <1>3 DEF FlightInv, AuthTypes, AuthWellFormed
  <2>4. \A d \in skip' : stage'[d] = "lock"
    BY <1>1, <1>3 DEF FlightInv, AuthTypes
  <2>5. /\ lock' # NoCall => stage'[lock'] = "fetch"
        /\ locks' => \A d \in Call : stage'[d] = "fetch" => lock' = d
    BY <1>1, <1>3 DEF FlightInv, AuthTypes
  <2> QED
    BY <2>1, <2>2, <2>3, <2>4, <2>5 DEF FlightInv
<1> QED
  BY <1>2, <1>3 DEF JoinFlight, Fetch

(* and so does a call that moves without being part of one. *)
LEMMA FlightKept ==
  ASSUME AuthWellFormed, AuthTypes, FlightInv, UNCHANGED <<locks, flight, stage, lock, skip>>,
         \A d \in Call : pc'[d] = pc[d] \/ (stage[d] = "none" /\ pc'[d] \notin {"wait", "flight"})
                         \/ (stage[d] = "none" /\ flight[TabOf[d]] # NoCall)
  PROVE  FlightInv'
BY DEF FlightInv, AuthTypes

(* A tab has at most one flight, its owner is in it, and whoever waits for  *)
(* a flight has one to wait for.                                            *)
LEMMA FlightStep == AuthWellFormed /\ AuthTypes /\ FlightInv /\ [AuthNext]_authVars => FlightInv'
<1> SUFFICES ASSUME AuthWellFormed, AuthTypes, FlightInv, [AuthNext]_authVars PROVE FlightInv'
  OBVIOUS
<1> USE DEF flightHistory
<1>1. ASSUME NEW c \in Call, BeginCall(c) PROVE FlightInv'
  <2>1. UNCHANGED <<locks, flight, stage, lock, skip>>
    BY <1>1 DEF BeginCall, tabVars
  <2>2. /\ pc[c] = "new"
        /\ \/ pc' = [pc EXCEPT ![c] = "wait"] /\ flight[TabOf[c]] # NoCall
           \/ pc' = [pc EXCEPT ![c] = "sent"]
    BY <1>1 DEF BeginCall
  <2>3. stage[c] = "none"
    BY <2>2 DEF FlightInv, AuthTypes
  <2> QED
    BY <2>1, <2>2, <2>3, FlightKept DEF AuthTypes
<1>2. ASSUME NEW c \in Call, Probe(c) PROVE FlightInv'
  <2>1. pc[c] = "new" /\ JoinFlight(c) /\ UNCHANGED <<locks, lock, skip>>
    BY <1>2 DEF Probe
  <2> QED
    BY <2>1, FlightJoined
<1>3. ASSUME NEW c \in Call, Serve(c) PROVE FlightInv'
  <2>1. UNCHANGED <<locks, flight, stage, lock, skip, pc>>
    BY <1>3 DEF Serve, tabVars, callVars
  <2> QED
    BY <2>1 DEF FlightInv
<1>4. ASSUME NEW c \in Call, Arrive(c) PROVE FlightInv'
  <2>1. pc[c] \in {"sent", "again"} /\ UNCHANGED <<locks, lock, skip>>
    BY <1>4 DEF Arrive
  <2>2. stage[c] = "none"
    BY <2>1 DEF FlightInv, AuthTypes
  <2>3. CASE UNCHANGED <<flight, stage>> /\ pc' \in {[pc EXCEPT ![c] = "done"], [pc EXCEPT ![c] = "again"]}
    BY <2>1, <2>2, <2>3, FlightKept DEF AuthTypes
  <2>4. CASE JoinFlight(c)
    BY <2>1, <2>4, FlightJoined
  <2> QED
    BY <1>4, <2>3, <2>4 DEF Arrive, Return
<1>5. ASSUME NEW c \in Call, CallFails(c) PROVE FlightInv'
  <2>1. UNCHANGED <<locks, flight, stage, lock, skip>> /\ pc' = [pc EXCEPT ![c] = "done"]
        /\ pc[c] \in {"sent", "again"}
    BY <1>5 DEF CallFails, Return, tabVars
  <2>2. stage[c] = "none"
    BY <2>1 DEF FlightInv, AuthTypes
  <2> QED
    BY <2>1, <2>2, FlightKept DEF AuthTypes
<1>6. ASSUME NEW c \in Call, LockGranted(c) PROVE FlightInv'
  <2>1. CASE c \notin skip
    <3>1. /\ stage[c] = "lock" /\ lock = NoCall /\ lock' = c
          /\ stage' = [stage EXCEPT ![c] = "fetch"]
          /\ UNCHANGED <<locks, pc, flight, skip>>
      BY <1>6, <2>1 DEF LockGranted, Fetch, callVars
    <3> QED
      BY <2>1, <3>1 DEF FlightInv, AuthTypes, AuthWellFormed
  <2>2. CASE c \in skip
    <3>1. /\ stage[c] = "lock" /\ lock = NoCall /\ lock' = lock /\ skip' = skip \ {c}
          /\ locks' = locks
          /\ Concludes(TabOf[c], TRUE, FALSE, access)
      BY <1>6, <2>2 DEF LockGranted
    <3>2. lock' = IF lock = c THEN NoCall ELSE lock
      BY <3>1
    <3>3. \A d \in skip' : d # c /\ stage[d] = "lock" /\ d \in Call
      BY <3>1 DEF FlightInv, AuthTypes
    <3> QED
      BY <3>1, <3>2, <3>3, FlightEnds
  <2> QED
    BY <2>1, <2>2
<1>7. ASSUME NEW c \in Call, LockTimeout(c) PROVE FlightInv'
  <2>1. /\ stage[c] = "lock" /\ lock' = lock /\ skip' = skip \ {c} /\ locks' = locks
        /\ Concludes(TabOf[c], FALSE, FALSE, access)
    BY <1>7 DEF LockTimeout
  <2>2. lock' = IF lock = c THEN NoCall ELSE lock
    BY <2>1 DEF FlightInv, AuthTypes, AuthWellFormed
  <2>3. \A d \in skip' : d # c /\ stage[d] = "lock" /\ d \in Call
    BY <2>1 DEF FlightInv, AuthTypes
  <2> QED
    BY <2>1, <2>2, <2>3, FlightEnds
<1>8. ASSUME NEW c \in Call, Land(c) PROVE FlightInv'
  <2>1. PICK ok, terminal, acc : Concludes(TabOf[c], ok, terminal, acc)
    BY <1>8 DEF Land
  <2>2. /\ stage[c] = "fetch" /\ lock' = (IF lock = c THEN NoCall ELSE lock) /\ locks' = locks
        /\ \A d \in skip' : d \in skip \/ (d \in Call /\ stage[d] = "lock")
    BY <1>8 DEF Land, Unlocked
  <2>3. \A d \in skip' : d # c /\ stage[d] = "lock" /\ d \in Call
    BY <2>2 DEF FlightInv, AuthTypes
  <2> QED
    BY <2>1, <2>2, <2>3, FlightEnds
<1>9. ASSUME NEW c \in Call, FetchFails(c) PROVE FlightInv'
  <2>1. /\ stage[c] = "fetch" /\ lock' = (IF lock = c THEN NoCall
             ELSE lock) /\ skip' = skip /\ locks' = locks
        /\ Concludes(TabOf[c], FALSE, FALSE, access)
    BY <1>9 DEF FetchFails, Unlocked
  <2>2. \A d \in skip' : d # c /\ stage[d] = "lock" /\ d \in Call
    BY <2>1 DEF FlightInv, AuthTypes
  <2> QED
    BY <2>1, <2>2, FlightEnds
<1>10. ASSUME NEW c \in Call, Find(c) PROVE FlightInv'
  <2>1. UNCHANGED <<locks, flight, stage, lock, skip, pc>>
    BY <1>10 DEF Find, tabVars, callVars
  <2> QED
    BY <2>1 DEF FlightInv
<1>11. ASSUME NEW c \in Call, Settle(c) PROVE FlightInv'
  <2>1. UNCHANGED <<locks, flight, stage, lock, skip, pc>>
    BY <1>11 DEF Settle, tabVars, callVars
  <2> QED
    BY <2>1 DEF FlightInv
<1>12. ASSUME NEW c \in Call, Revoke(c) PROVE FlightInv'
  <2>1. UNCHANGED <<locks, flight, stage, lock, skip, pc>>
    BY <1>12 DEF Revoke, tabVars, callVars
  <2> QED
    BY <2>1 DEF FlightInv
<1>13. ASSUME NEW t \in Tab, Reload(t) PROVE FlightInv'
  <2> DEFINE f == flight[t]
  <2>1. /\ locks' = locks /\ flight' = [flight EXCEPT ![t] = NoCall]
        /\ lock' = (IF lock = f THEN NoCall ELSE lock) /\ skip' = skip \ {f}
        /\ stage' = [c \in Call |-> IF c = f THEN "none" ELSE stage[c]]
        /\ pc' = [c \in Call |-> IF c \in ActiveCalls /\ TabOf[c] = t THEN "done" ELSE pc[c]]
    BY <1>13 DEF Reload, Unlocked
  <2>2. \A c \in Call : stage'[c] # "none" => TabOf[c] # t /\ stage'[c] = stage[c]
    BY <2>1 DEF FlightInv, AuthTypes
  <2>3. \A c \in Call : TabOf[c] # t => pc'[c] = pc[c] /\ stage'[c] = stage[c]
    BY <2>1 DEF FlightInv, AuthTypes, AuthWellFormed
  <2>4. \A c \in Call : TabOf[c] = t => pc'[c] \in {"new", "done"}
    BY <2>1 DEF ActiveCalls, AuthTypes
  <2>5. \A s \in Tab : flight'[s] # NoCall => s # t /\ flight'[s] = flight[s] /\ flight[s] \in Call
    BY <2>1 DEF AuthTypes
  <2>6. \A s \in Tab : flight'[s] # NoCall => TabOf[flight'[s]] = s /\ stage'[flight'[s]] # "none"
    BY <2>3, <2>5 DEF FlightInv, AuthTypes
  <2>7. \A c \in Call : stage'[c] # "none" => flight'[TabOf[c]] = c /\ pc'[c] = "flight"
    BY <2>1, <2>2, <2>3 DEF FlightInv, AuthTypes, AuthWellFormed
  <2>8. \A c \in Call : pc'[c] \in {"wait", "flight"} => flight'[TabOf[c]] # NoCall
    BY <2>1, <2>3, <2>4 DEF FlightInv, AuthTypes, AuthWellFormed
  <2>9. \A c \in skip' : stage'[c] = "lock"
    BY <2>1 DEF FlightInv, AuthTypes
  <2>10. lock' # NoCall => stage'[lock'] = "fetch"
    BY <2>1 DEF FlightInv, AuthTypes
  <2>11. locks' => \A c \in Call : stage'[c] = "fetch" => lock' = c
    BY <2>1 DEF FlightInv, AuthTypes
  <2> QED
    BY <2>6, <2>7, <2>8, <2>9, <2>10, <2>11 DEF FlightInv
<1>14. ASSUME Logout PROVE FlightInv'
  <2>1. UNCHANGED <<locks, flight, stage, lock, skip, pc>>
    BY <1>14 DEF Logout, tabVars, callVars
  <2> QED
    BY <2>1 DEF FlightInv
<1>15. ASSUME LogoutLands PROVE FlightInv'
  <2>1. UNCHANGED <<locks, flight, stage, lock, skip, pc>>
    BY <1>15 DEF LogoutLands, tabVars, callVars
  <2> QED
    BY <2>1 DEF FlightInv
<1>16. ASSUME AccessLapses PROVE FlightInv'
  <2>1. UNCHANGED <<locks, flight, stage, lock, skip, pc>>
    BY <1>16 DEF AccessLapses, tabVars, callVars
  <2> QED
    BY <2>1 DEF FlightInv
<1>17. ASSUME Expire PROVE FlightInv'
  <2>1. UNCHANGED <<locks, flight, stage, lock, skip, pc>>
    BY <1>17 DEF Expire, tabVars, callVars
  <2> QED
    BY <2>1 DEF FlightInv
<1>18. ASSUME NEW g \in Generation, GraceEnds(g) PROVE FlightInv'
  <2>1. UNCHANGED <<locks, flight, stage, lock, skip, pc>>
    BY <1>18 DEF GraceEnds, tabVars, callVars
  <2> QED
    BY <2>1 DEF FlightInv
<1>19. ASSUME UNCHANGED authVars PROVE FlightInv'
  BY <1>19 DEF authVars, jarVars, callVars, tabVars, dbVars, timeVars, FlightInv
<1>20. ASSUME NEW c \in Call, GuardRefuses(c) PROVE FlightInv'
  <2>1. UNCHANGED <<locks, flight, stage, lock, skip, pc>>
    BY <1>20 DEF GuardRefuses, tabVars, callVars
  <2> QED
    BY <2>1 DEF FlightInv
<1>21. ASSUME NEW c \in Call, StatementFails(c) PROVE FlightInv'
  <2>1. UNCHANGED <<locks, flight, stage, lock, skip, pc>>
    BY <1>21 DEF StatementFails, tabVars, callVars
  <2> QED
    BY <2>1 DEF FlightInv
<1> QED
  BY <1>1, <1>2, <1>3, <1>4, <1>5, <1>6, <1>7, <1>8, <1>9, <1>10, <1>11, <1>12, <1>13, <1>14,
     <1>15, <1>16, <1>17, <1>18, <1>19, <1>20, <1>21 DEF AuthNext, CallStep, ServerStep

(* A fetch without a cookie is of a browser that has lost its session. *)
LEMMA FetchLatch ==
  ASSUME AuthTypes, LatchInv, NEW c \in Call, Fetch(c),
         UNCHANGED <<cookie, logout, exhausted, session, refusals>>
  PROVE  LatchInv'
BY DEF Fetch, AuthTypes, LatchInv, SignedOut, Gone

(* The cookies are cleared, and a refresh is refused, only for a session    *)
(* that is over or after an error, and neither is undone.                   *)
LEMMA LatchStep == AuthTypes /\ LatchInv /\ [AuthNext]_authVars => LatchInv'
<1> SUFFICES ASSUME AuthTypes, LatchInv, [AuthNext]_authVars PROVE LatchInv'
  OBVIOUS
<1> USE DEF flightHistory
<1>1. ASSUME NEW c \in Call, BeginCall(c) PROVE LatchInv'
  <2>1. UNCHANGED <<cookie, logout, exhausted, session, refusals, srv, presented>>
    BY <1>1 DEF BeginCall, jarVars, tabVars, dbVars, timeVars
  <2> QED
    BY <2>1 DEF LatchInv, SignedOut, Gone
<1>2. ASSUME NEW c \in Call, Probe(c) PROVE LatchInv'
  <2>1. UNCHANGED <<cookie, logout, exhausted, session, refusals>>
    BY <1>2 DEF Probe, jarVars, tabVars, dbVars, timeVars
  <2>2. UNCHANGED <<srv, presented>> \/ Fetch(c)
    BY <1>2 DEF Probe, JoinFlight
  <2> QED
    BY <2>1, <2>2, FetchLatch DEF LatchInv, SignedOut, Gone
<1>3. ASSUME NEW c \in Call, Serve(c) PROVE LatchInv'
  <2>1. UNCHANGED <<cookie, logout, exhausted, session, refusals, srv, presented>>
    BY <1>3 DEF Serve, jarVars, tabVars, dbVars, timeVars
  <2> QED
    BY <2>1 DEF LatchInv, SignedOut, Gone
<1>4. ASSUME NEW c \in Call, Arrive(c) PROVE LatchInv'
  <2>1. UNCHANGED <<cookie, logout, exhausted, session, refusals>>
    BY <1>4 DEF Arrive, jarVars, tabVars, dbVars, timeVars
  <2>2. UNCHANGED <<srv, presented>> \/ Fetch(c)
    BY <1>4 DEF Arrive, JoinFlight
  <2> QED
    BY <2>1, <2>2, FetchLatch DEF LatchInv, SignedOut, Gone
<1>5. ASSUME NEW c \in Call, CallFails(c) PROVE LatchInv'
  <2>1. UNCHANGED <<cookie, logout, exhausted, session, refusals, srv, presented>>
    BY <1>5 DEF CallFails, jarVars, tabVars, dbVars, timeVars
  <2> QED
    BY <2>1 DEF LatchInv, SignedOut, Gone
<1>6. ASSUME NEW c \in Call, LockGranted(c) PROVE LatchInv'
  <2>1. UNCHANGED <<cookie, logout, session, refusals>> /\ exhausted' = exhausted
    BY <1>6 DEF LockGranted, Concludes, jarVars, dbVars, timeVars
  <2>2. UNCHANGED <<srv, presented>> \/ Fetch(c)
    BY <1>6 DEF LockGranted
  <2> QED
    BY <2>1, <2>2, FetchLatch DEF LatchInv, SignedOut, Gone
<1>7. ASSUME NEW c \in Call, LockTimeout(c) PROVE LatchInv'
  <2>1. UNCHANGED <<cookie, logout, exhausted, session, refusals, srv, presented>>
    BY <1>7 DEF LockTimeout, jarVars, tabVars, dbVars, timeVars, Concludes
  <2> QED
    BY <2>1 DEF LatchInv, SignedOut, Gone
<1>8. ASSUME NEW c \in Call, Land(c) PROVE LatchInv'
  <2>1. /\ UNCHANGED <<logout, session>> /\ srv' = [srv EXCEPT ![c] = "none"]
        /\ presented' = [presented EXCEPT ![c] = None]
        /\ refusals' = refusals \cup ({srv[c]} \cap Refusal) /\ srv[c] \in RefreshOutcome
    BY <1>8 DEF Land, dbVars, timeVars
  <2>2. SignedOut => SignedOut'
    BY <2>1 DEF SignedOut, Gone
  <2>3. srv[c] \in {"replayed", "invalid"} => SignedOut
    BY DEF LatchInv
  <2>4. srv[c] \in {"forbidden", "broken", "unsaid"} => SignedOut'
    BY <2>1 DEF SignedOut, Refusal, Broken
  <2>5. exhausted' # {} => SignedOut'
    <3>1. Terminal(srv[c]) => SignedOut'
      BY <2>2, <2>3, <2>4 DEF Terminal
    <3>2. ~Terminal(srv[c]) => exhausted' = exhausted
      BY <1>8 DEF Land, Concludes
    <3> QED
      BY <2>2, <3>1, <3>2 DEF LatchInv
  <2>6. cookie' = None => SignedOut'
    <3>1. Cleared(srv[c]) => SignedOut'
      BY <2>2, <2>3, <2>4 DEF Cleared, Broken
    <3>2. presented[c] + 1 # None
      <4>1. presented[c] \in Nat \/ presented[c] = -1
        BY DEF AuthTypes, None
      <4> QED
        BY <4>1 DEF None
    <3>3. ~Cleared(srv[c]) => cookie' \in {presented[c] + 1, cookie}
      BY <1>8 DEF Land
    <3> QED
      BY <2>2, <3>1, <3>2, <3>3 DEF LatchInv
  <2> QED
    BY <2>1, <2>2, <2>5, <2>6 DEF LatchInv, AuthTypes
<1>9. ASSUME NEW c \in Call, FetchFails(c) PROVE LatchInv'
  <2>1. /\ UNCHANGED <<cookie, logout, exhausted, session, refusals, presented>>
        /\ srv' = srv \/ srv' = [srv EXCEPT ![c] = "none"]
    BY <1>9 DEF FetchFails, Concludes, jarVars, dbVars, timeVars
  <2> QED
    BY <2>1 DEF LatchInv, SignedOut, Gone, AuthTypes
<1>10. ASSUME NEW c \in Call, Find(c) PROVE LatchInv'
  <2>1. UNCHANGED <<cookie, logout, exhausted, session, refusals, presented>>
    BY <1>10 DEF Find, jarVars, tabVars, dbVars, timeVars
  <2>2. \/ SignedOut /\ srv' \in {[srv EXCEPT ![c] = "invalid"], [srv EXCEPT ![c] = "none"]}
        \/ srv' = [srv EXCEPT ![c] = "found"]
    BY <1>10 DEF Find, Answers, LatchInv, SignedOut
  <2> QED
    BY <2>1, <2>2 DEF LatchInv, SignedOut, Gone, AuthTypes
<1>11. ASSUME NEW c \in Call, Settle(c) PROVE LatchInv'
  <2>1. /\ UNCHANGED <<cookie, logout, exhausted, session, refusals, presented>>
        /\ \E o \in {"rotated", "unsaid", "superseded", "revoking", "none"} : srv' = [srv EXCEPT ![c] = o]
    BY <1>11 DEF Settle, Answers, jarVars, tabVars
  <2> QED
    BY <2>1 DEF LatchInv, SignedOut, Gone, AuthTypes
<1>12. ASSUME NEW c \in Call, Revoke(c) PROVE LatchInv'
  <2>1. session' = "revoked"
    BY <1>12 DEF Revoke
  <2> QED
    BY <2>1 DEF LatchInv, SignedOut, Gone
<1>13. ASSUME NEW t \in Tab, Reload(t) PROVE LatchInv'
  <2>1. /\ UNCHANGED <<cookie, logout, session, refusals, presented>> /\ exhausted' = exhausted \ {t}
        /\ \A c \in Call : srv'[c] \in {srv[c], "none"}
    BY <1>13 DEF Reload, jarVars, dbVars, timeVars
  <2> QED
    BY <2>1 DEF LatchInv, SignedOut, Gone
<1>14. ASSUME Logout PROVE LatchInv'
  <2>1. UNCHANGED <<cookie, exhausted, refusals, srv, presented>>
          /\ session' = IF access \/ cookie # None THEN "revoked" ELSE session
    BY <1>14 DEF Logout, jarVars, tabVars
  <2> QED
    BY <2>1 DEF LatchInv, SignedOut, Gone
<1>15. ASSUME LogoutLands PROVE LatchInv'
  <2>1. UNCHANGED <<exhausted, refusals, srv, presented, session>> /\ logout = "served"
    BY <1>15 DEF LogoutLands, tabVars, dbVars
  <2> QED
    BY <2>1 DEF LatchInv, SignedOut, Gone
<1>16. ASSUME AccessLapses PROVE LatchInv'
  <2>1. UNCHANGED <<cookie, logout, exhausted, session, refusals, srv, presented>>
    BY <1>16 DEF AccessLapses, jarVars, tabVars, dbVars, timeVars
  <2> QED
    BY <2>1 DEF LatchInv, SignedOut, Gone
<1>17. ASSUME Expire PROVE LatchInv'
  <2>1. session' = "expired"
    BY <1>17 DEF Expire
  <2> QED
    BY <2>1 DEF LatchInv, SignedOut, Gone
<1>18. ASSUME NEW g \in Generation, GraceEnds(g) PROVE LatchInv'
  <2>1. UNCHANGED <<cookie, logout, exhausted, session, refusals, srv, presented>>
    BY <1>18 DEF GraceEnds, jarVars, tabVars, dbVars, timeVars
  <2> QED
    BY <2>1 DEF LatchInv, SignedOut, Gone
<1>19. ASSUME UNCHANGED authVars PROVE LatchInv'
  BY <1>19 DEF authVars, jarVars, tabVars, dbVars, timeVars, LatchInv, SignedOut, Gone
<1>20. ASSUME NEW c \in Call, GuardRefuses(c) PROVE LatchInv'
  <2>1. /\ UNCHANGED <<cookie, logout, exhausted, session, refusals, presented>>
        /\ \E o \in {"limited", "forbidden", "none"} : srv' = [srv EXCEPT ![c] = o]
    BY <1>20 DEF GuardRefuses, Answers, jarVars, tabVars, dbVars, timeVars
  <2> QED
    BY <2>1 DEF LatchInv, SignedOut, Gone, AuthTypes
<1>21. ASSUME NEW c \in Call, StatementFails(c) PROVE LatchInv'
  <2>1. /\ UNCHANGED <<cookie, logout, exhausted, session, refusals, presented>>
        /\ \E o \in {"broken", "none"} : srv' = [srv EXCEPT ![c] = o]
    BY <1>21 DEF StatementFails, Answers, jarVars, tabVars, dbVars, timeVars
  <2> QED
    BY <2>1 DEF LatchInv, SignedOut, Gone, AuthTypes
<1> QED
  BY <1>1, <1>2, <1>3, <1>4, <1>5, <1>6, <1>7, <1>8, <1>9, <1>10, <1>11, <1>12, <1>13, <1>14,
     <1>15, <1>16, <1>17, <1>18, <1>19, <1>20, <1>21 DEF AuthNext, CallStep, ServerStep

(* A step that leaves the tokens alone keeps HealthInv. *)
LEMMA HealthKept ==
  ASSUME HealthInv,
         UNCHANGED <<locks, cookie, presented, srv, late, graceOver, top, lost, overtaken>>,
         \A c \in Call : stage[c] = "fetch" => stage'[c] = "fetch",
         session' = "revoked" /\ session # "revoked" => logout' # "no",
         logout # "no" => logout' # "no"
  PROVE  HealthInv'
<1>1. Landing' = Landing /\ Pending' = Pending
  BY DEF Landing, Pending
<1>2. RotationInv => RotationInv'
  BY <1>1 DEF RotationInv
<1>3. (TwinInv => TwinInv') /\ (AloneInv => AloneInv')
  BY <1>1 DEF TwinInv, AloneInv
<1> QED
  BY <1>2, <1>3 DEF HealthInv, HealthyKept

(* A fetch presents the cookie, which is the newest token but for the       *)
(* rotation on its way.                                                     *)
LEMMA HealthFetch ==
  ASSUME AuthTypes, HealthInv, NEW c \in Call, Fetch(c), stage[c] # "fetch",
         locks => \A d \in Call : stage[d] # "fetch",
         UNCHANGED <<locks, cookie, late, graceOver, top, lost, overtaken, session, logout>>
  PROVE  HealthInv'
<1> SUFFICES ASSUME ~lost PROVE HealthInv'
  BY DEF HealthInv, HealthyKept
<1>1. RotationInv /\ srv[c] = "none"
  BY DEF HealthInv, RotationInv
<1>2. /\ srv' = [srv EXCEPT ![c] = "sent"] /\ presented' = [presented EXCEPT ![c] = cookie]
      /\ stage' = [stage EXCEPT ![c] = "fetch"]
  BY DEF Fetch
<1>3. Landing' = Landing /\ Pending' = Pending \cup {c} /\ c \notin Landing /\ c \notin Pending
  BY <1>1, <1>2 DEF Landing, Pending, AuthTypes
<1>4. \A d \in Call : d # c => srv'[d] = srv[d] /\ presented'[d] = presented[d] /\ stage'[d] = stage[d]
  BY <1>2 DEF AuthTypes
<1>5. presented'[c] = cookie /\ srv'[c] = "sent" /\ stage'[c] = "fetch"
  BY <1>2 DEF AuthTypes
<1>6. RotationInv'
  <2>1. \A d \in Call : srv'[d] # "none" => stage'[d] = "fetch"
    BY <1>1, <1>4, <1>5 DEF RotationInv
  <2>2. \A d \in Landing' : presented'[d] = top - 1 /\ presented'[d] \notin graceOver
    BY <1>1, <1>3, <1>4 DEF RotationInv, Landing
  <2>3. \A d \in Pending' : presented'[d] <= IF Landing' = {} THEN top ELSE top - 1
    <3>1. presented'[c] <= IF Landing = {} THEN top ELSE top - 1
      <4>1. cookie <= IF Landing = {} THEN top ELSE top - 1
        BY <1>1 DEF RotationInv, AuthTypes, None
      <4> QED
        BY <1>5, <4>1
    <3> QED
      BY <1>1, <1>3, <1>4, <3>1 DEF RotationInv, Pending
  <2>4. /\ \A d \in Call : srv'[d] = "found" => presented'[d] # None
        /\ \A d \in late : srv'[d] = "found"
    BY <1>1, <1>4, <1>5 DEF RotationInv, AuthTypes
  <2> QED
    BY <1>1, <1>3, <2>1, <2>2, <2>3, <2>4 DEF RotationInv
<1>7. TwinInv => TwinInv'
  <2>1. cookie # None => cookie >= top - 1 /\ cookie \notin graceOver /\ c \notin late
    BY <1>1 DEF RotationInv, AuthTypes, Landing
  <2> QED
    BY <1>3, <1>4, <1>5, <2>1 DEF TwinInv, Pending
<1>8. locks /\ AloneInv => AloneInv'
  <2>1. locks => Landing = {}
    BY <1>1 DEF RotationInv, Landing
  <2>2. locks => cookie \in {None, top}
    BY <1>1, <2>1 DEF RotationInv
  <2> QED
    BY <1>3, <1>4, <1>5, <2>2 DEF AloneInv
<1> QED
  BY <1>6, <1>7, <1>8 DEF HealthInv, HealthyKept

(* A refresh that is answered with an error before it is settled is out of  *)
(* the race.                                                                *)
LEMMA HealthAnswered ==
  ASSUME AuthTypes, HealthInv, NEW c \in Call,
         UNCHANGED <<locks, cookie, graceOver, top, lost, overtaken, session, logout,
                     presented, stage>>,
         srv[c] \in {"sent", "found", "revoking"}, late' = late \ {c} \/ (late' = late /\ srv[c] = "sent"),
         NEW o \in {"limited", "forbidden", "broken", "none"}, srv' = [srv EXCEPT ![c] = o]
  PROVE  HealthInv'
<1> SUFFICES ASSUME ~lost PROVE HealthInv'
  BY DEF HealthInv, HealthyKept
<1>1. (\A d \in Call : d # c => srv'[d] = srv[d]) /\ srv'[c] = o
  BY DEF AuthTypes
<1>2. RotationInv /\ stage[c] = "fetch" /\ c \notin late'
  BY DEF HealthInv, RotationInv
<1>3. Landing' = Landing /\ Pending' = Pending \ {c}
  BY <1>1 DEF Landing, Pending
<1>4. RotationInv'
  BY <1>1, <1>2, <1>3 DEF RotationInv, AuthTypes
<1>5. (TwinInv => TwinInv') /\ (AloneInv => AloneInv')
  BY <1>1, <1>3 DEF TwinInv, AloneInv
<1> QED
  BY <1>4, <1>5 DEF HealthInv, HealthyKept

(* Until an answer is lost, the jar holds the last generation, or the one   *)
(* before it while the rotation is landing; a token presented twice is then *)
(* one of a twin's, unless the api was overtaken.                           *)
LEMMA HealthStep ==
  AuthWellFormed /\ AuthTypes /\ GenInv /\ FlightInv /\ HealthInv /\ [AuthNext]_authVars
  => HealthInv'
<1> SUFFICES ASSUME AuthWellFormed, AuthTypes, GenInv, FlightInv, HealthInv, [AuthNext]_authVars
             PROVE  HealthInv'
  OBVIOUS
<1> USE DEF flightHistory
<1>1. ASSUME NEW c \in Call, BeginCall(c) PROVE HealthInv'
  <2>1. /\ UNCHANGED <<locks, cookie, presented, srv, late, graceOver, top, lost, overtaken, stage>>
        /\ UNCHANGED <<session, logout>>
    BY <1>1 DEF BeginCall, jarVars, tabVars, dbVars, timeVars
  <2> QED
    BY <2>1, HealthKept
<1>2. ASSUME NEW c \in Call, Probe(c) PROVE HealthInv'
  <2>1. UNCHANGED <<locks, cookie, late, graceOver, top, lost, overtaken, session, logout>>
    BY <1>2 DEF Probe, jarVars, dbVars, timeVars
  <2>2. stage[c] = "none"
    BY <1>2 DEF Probe, FlightInv, AuthTypes
  <2>3. \/ UNCHANGED <<presented, srv, stage>>
        \/ UNCHANGED <<presented, srv>> /\ stage' = [stage EXCEPT ![c] = "lock"]
        \/ ~locks /\ Fetch(c)
    BY <1>2 DEF Probe, JoinFlight
  <2>4. CASE ~locks /\ Fetch(c)
    BY <2>1, <2>2, <2>4, HealthFetch
  <2>5. CASE UNCHANGED <<presented, srv>> /\ (stage' = stage \/ stage' = [stage EXCEPT ![c] = "lock"])
    <3>1. \A d \in Call : stage[d] = "fetch" => stage'[d] = "fetch"
      BY <2>2, <2>5 DEF AuthTypes
    <3> QED
      BY <2>1, <2>5, <3>1, HealthKept
  <2> QED
    BY <2>3, <2>4, <2>5
<1>3. ASSUME NEW c \in Call, Serve(c) PROVE HealthInv'
  <2>1. /\ UNCHANGED <<locks, cookie, presented, srv, late, graceOver, top, lost, overtaken, stage>>
        /\ UNCHANGED <<session, logout>>
    BY <1>3 DEF Serve, jarVars, tabVars, dbVars, timeVars
  <2> QED
    BY <2>1, HealthKept
<1>4. ASSUME NEW c \in Call, Arrive(c) PROVE HealthInv'
  <2>1. UNCHANGED <<locks, cookie, late, graceOver, top, lost, overtaken, session, logout>>
    BY <1>4 DEF Arrive, jarVars, dbVars, timeVars
  <2>2. stage[c] = "none"
    BY <1>4 DEF Arrive, FlightInv, AuthTypes
  <2>3. \/ UNCHANGED <<presented, srv, stage>>
        \/ UNCHANGED <<presented, srv>> /\ stage' = [stage EXCEPT ![c] = "lock"]
        \/ ~locks /\ Fetch(c)
    BY <1>4 DEF Arrive, JoinFlight
  <2>4. CASE ~locks /\ Fetch(c)
    BY <2>1, <2>2, <2>4, HealthFetch
  <2>5. CASE UNCHANGED <<presented, srv>> /\ (stage' = stage \/ stage' = [stage EXCEPT ![c] = "lock"])
    <3>1. \A d \in Call : stage[d] = "fetch" => stage'[d] = "fetch"
      BY <2>2, <2>5 DEF AuthTypes
    <3> QED
      BY <2>1, <2>5, <3>1, HealthKept
  <2> QED
    BY <2>3, <2>4, <2>5
<1>5. ASSUME NEW c \in Call, CallFails(c) PROVE HealthInv'
  <2>1. /\ UNCHANGED <<locks, cookie, presented, srv, late, graceOver, top, lost, overtaken, stage>>
        /\ UNCHANGED <<session, logout>>
    BY <1>5 DEF CallFails, jarVars, tabVars, dbVars, timeVars
  <2> QED
    BY <2>1, HealthKept
<1>6. ASSUME NEW c \in Call, LockGranted(c) PROVE HealthInv'
  <2>1. /\ UNCHANGED <<locks, cookie, late, graceOver, top, lost, overtaken, session, logout>>
        /\ stage[c] = "lock" /\ lock = NoCall
    BY <1>6 DEF LockGranted, jarVars, dbVars, timeVars
  <2>2. CASE c \notin skip
    <3>1. Fetch(c)
      BY <1>6, <2>2 DEF LockGranted
    <3>2. locks => \A d \in Call : stage[d] # "fetch"
      BY <2>1 DEF FlightInv, AuthWellFormed
    <3> QED
      BY <2>1, <3>1, <3>2, HealthFetch
  <2>3. CASE c \in skip
    <3>1. UNCHANGED <<presented, srv>> /\ Concludes(TabOf[c], TRUE, FALSE, access)
      BY <1>6, <2>3 DEF LockGranted
    <3>2. stage' = [stage EXCEPT ![c] = "none"]
      BY <2>1, <3>1, ConcludeFlights
    <3>3. \A d \in Call : stage[d] = "fetch" => stage'[d] = "fetch"
      BY <2>1, <3>2 DEF AuthTypes
    <3> QED
      BY <2>1, <3>1, <3>3, HealthKept
  <2> QED
    BY <2>2, <2>3
<1>7. ASSUME NEW c \in Call, LockTimeout(c) PROVE HealthInv'
  <2>1. lost'
    BY <1>7 DEF LockTimeout
  <2> QED
    BY <2>1 DEF HealthInv, HealthyKept
<1>8. ASSUME NEW c \in Call, Land(c) PROVE HealthInv'
  <2> SUFFICES ASSUME ~lost PROVE HealthInv'
    BY <1>8 DEF Land, HealthInv, HealthyKept
  <2>1. /\ UNCHANGED <<locks, late, graceOver, top, lost, overtaken, session, logout>>
        /\ srv' = [srv EXCEPT ![c] = "none"] /\ presented' = [presented EXCEPT ![c] = None]
        /\ cookie' = (IF srv[c] = "rotated" THEN presented[c] + 1
                      ELSE IF Cleared(srv[c]) THEN None ELSE cookie)
        /\ stage[c] = "fetch" /\ srv[c] \in RefreshOutcome
    BY <1>8 DEF Land, Issued, dbVars, timeVars
  <2>2. PICK ok, terminal, acc : Concludes(TabOf[c], ok, terminal, acc)
    BY <1>8 DEF Land
  <2>3. stage' = [stage EXCEPT ![c] = "none"]
    BY <2>1, <2>2, ConcludeFlights
  <2>4. \A d \in Call : d # c => srv'[d] = srv[d] /\ presented'[d] = presented[d] /\ stage'[d] = stage[d]
    BY <2>1, <2>3 DEF AuthTypes
  <2>5. srv'[c] = "none" /\ presented'[c] = None
    BY <2>1 DEF AuthTypes
  <2>6. RotationInv /\ Pending' = Pending /\ c \notin Pending /\ Landing' = Landing \ {c} /\ c \notin late
    <3>1. RotationInv
      BY DEF HealthInv
    <3> QED
      BY <2>1, <2>4, <2>5, <3>1 DEF RotationInv, Pending, Landing, RefreshOutcome, Refusal, Broken
  <2>7. cookie' = None \/ cookie' = IF Landing' = {} THEN top ELSE top - 1
    <3>1. CASE srv[c] = "rotated"
      <4>1. c \in Landing /\ cookie' = presented[c] + 1
        BY <2>1, <3>1 DEF Landing
      <4>2. Landing' = {} /\ presented[c] = top - 1
        BY <2>6, <4>1 DEF RotationInv
      <4> QED
        BY <4>1, <4>2 DEF AuthTypes
    <3>2. CASE srv[c] = "unsaid"
      BY <2>1, <3>2 DEF Cleared, Broken
    <3>3. CASE srv[c] \notin {"rotated", "unsaid"}
      BY <2>1, <2>6, <3>3 DEF RotationInv, Landing
    <3> QED
      BY <3>1, <3>2, <3>3
  <2>8. \A d \in Pending : presented[d] <= IF Landing' = {} THEN top ELSE top - 1
    <3>1. \A d \in Pending : presented[d] \in Int
      BY DEF AuthTypes, None, Pending
    <3> QED
      BY <2>6, <3>1 DEF RotationInv, AuthTypes
  <2>9. RotationInv'
    <3>1. \A d \in Call : srv'[d] # "none" => stage'[d] = "fetch"
      BY <2>4, <2>5, <2>6 DEF RotationInv
    <3>2. \A d \in Landing' : presented'[d] = top - 1 /\ presented'[d] \notin graceOver
      BY <2>4, <2>6 DEF RotationInv, Landing
    <3>3. \A d \in Pending' : presented'[d] <= IF Landing' = {} THEN top ELSE top - 1
      BY <2>4, <2>6, <2>8 DEF Pending
    <3>4. \A d \in Call : srv'[d] = "found" => presented'[d] # None
      BY <2>4, <2>5, <2>6 DEF RotationInv
    <3>5. \A d \in late : srv'[d] = "found"
      <4>1. \A d \in late : d \in Call /\ d # c
        BY <2>6 DEF AuthTypes
      <4> QED
        BY <2>4, <2>6, <4>1 DEF RotationInv
    <3> QED
      BY <2>1, <2>6, <2>7, <3>1, <3>2, <3>3, <3>4, <3>5 DEF RotationInv
  <2>10. TwinInv => TwinInv'
    BY <2>1, <2>4, <2>5, <2>6 DEF TwinInv, Pending
  <2>11. AloneInv => AloneInv'
    BY <2>1, <2>4, <2>5, <2>6 DEF AloneInv, Pending
  <2> QED
    BY <2>1, <2>9, <2>10, <2>11 DEF HealthInv, HealthyKept
<1>9. ASSUME NEW c \in Call, FetchFails(c) PROVE HealthInv'
  <2>1. lost'
    BY <1>9 DEF FetchFails
  <2> QED
    BY <2>1 DEF HealthInv, HealthyKept
<1>10. ASSUME NEW c \in Call, Find(c) PROVE HealthInv'
  <2> SUFFICES ASSUME ~lost PROVE HealthInv'
    BY <1>10 DEF Find, HealthInv, HealthyKept
  <2>1. /\ UNCHANGED <<locks, cookie, graceOver, top, lost, overtaken, session, logout, presented, stage>>
        /\ srv[c] = "sent"
    BY <1>10 DEF Find, jarVars, tabVars, dbVars, timeVars
  <2>2. RotationInv /\ c \in Pending /\ c \notin Landing
    BY <2>1 DEF HealthInv, Pending, Landing
  <2>3. CASE /\ srv' = [srv EXCEPT ![c] = "invalid"] \/ srv' = [srv EXCEPT ![c] = "none"]
             /\ late' = late
    <3>1. \A d \in Call : d # c => srv'[d] = srv[d]
      BY <2>3 DEF AuthTypes
    <3>2. srv'[c] \in {"invalid", "none"}
      BY <2>3 DEF AuthTypes
    <3>3. Landing' = Landing /\ Pending' = Pending \ {c} /\ c \notin late
      BY <2>1, <2>2, <3>1, <3>2 DEF Landing, Pending, RotationInv
    <3>4. stage[c] = "fetch"
      BY <2>1, <2>2 DEF RotationInv
    <3>5. RotationInv'
      BY <2>1, <2>2, <2>3, <3>1, <3>2, <3>3, <3>4 DEF RotationInv, AuthTypes
    <3>6. (TwinInv => TwinInv') /\ (AloneInv => AloneInv')
      BY <2>1, <2>3, <3>1, <3>2, <3>3 DEF TwinInv, AloneInv
    <3> QED
      BY <2>1, <3>5, <3>6 DEF HealthInv, HealthyKept
  <2>4. CASE /\ srv' = [srv EXCEPT ![c] = "found"] /\ presented[c] # None
             /\ late' = IF presented[c] \in graceOver THEN late \cup {c} ELSE late
    <3>1. \A d \in Call : d # c => srv'[d] = srv[d]
      BY <2>4 DEF AuthTypes
    <3>2. srv'[c] = "found"
      BY <2>4 DEF AuthTypes
    <3>3. Landing' = Landing /\ Pending' = Pending
      BY <2>1, <3>1, <3>2 DEF Landing, Pending
    <3>4. stage[c] = "fetch"
      BY <2>1, <2>2 DEF RotationInv
    <3>5. RotationInv'
      BY <2>1, <2>2, <2>4, <3>1, <3>2, <3>3, <3>4 DEF RotationInv, AuthTypes
    <3>6. TwinInv => TwinInv'
      BY <2>1, <2>2, <2>4, <3>1, <3>2, <3>3 DEF TwinInv
    <3>7. AloneInv => AloneInv'
      BY <2>1, <3>1, <3>2, <3>3 DEF AloneInv
    <3> QED
      BY <2>1, <3>5, <3>6, <3>7 DEF HealthInv, HealthyKept
  <2> QED
    BY <1>10, <2>3, <2>4 DEF Find, Answers
<1>11. ASSUME NEW c \in Call, Settle(c) PROVE HealthInv'
  <2> SUFFICES ASSUME ~lost PROVE HealthInv'
    BY <1>11 DEF Settle, HealthInv, HealthyKept
  <2> DEFINE g == presented[c]
  <2>1. /\ UNCHANGED <<locks, cookie, graceOver, lost, session, logout, presented, stage>>
        /\ srv[c] = "found" /\ late' = late \ {c}
    BY <1>11 DEF Settle, jarVars, tabVars
  <2>2. RotationInv /\ c \in Pending /\ c \notin Landing /\ stage[c] = "fetch"
    BY <2>1 DEF HealthInv, Pending, Landing, RotationInv
  <2>3. g \in Nat /\ g <= top
    BY <2>1, <2>2 DEF RotationInv, AuthTypes, GenInv, None
  <2>4. CASE g \notin consumed
    <3>1. /\ g = top /\ top' = top + 1
          /\ \E o \in {"rotated", "unsaid"} : srv' = [srv EXCEPT ![c] = o]
          /\ overtaken' = (overtaken \/ Unsettled(top - 1))
      <4>1. g = top
        BY <2>3, <2>4 DEF AuthTypes
      <4>2. /\ top' = g + 1
            /\ Answers(c, "rotated") \/ Answers(c, "unsaid")
            /\ overtaken' = (overtaken \/ Unsettled(g - 1))
        BY <1>11, <2>4 DEF Settle
      <4> QED
        BY <2>2, <4>1, <4>2 DEF Answers
    <3>2. Landing = {}
      BY <2>2, <3>1 DEF RotationInv, AuthTypes
    <3>3. \A d \in Call : d # c => srv'[d] = srv[d]
      BY <3>1 DEF AuthTypes
    <3>4. srv'[c] \in {"rotated", "unsaid"}
      BY <3>1 DEF AuthTypes
    <3>5. Landing' = {c} /\ Pending' = Pending \ {c}
      BY <3>2, <3>3, <3>4 DEF Landing, Pending
    <3>6. \A d \in Pending : presented[d] \in Int /\ presented[d] <= top
      BY <2>2, <3>2 DEF RotationInv, AuthTypes, Pending, None
    <3>7. RotationInv'
      <4>1. \A d \in Call : srv'[d] # "none" => stage[d] = "fetch"
        BY <2>2, <3>3, <3>4 DEF RotationInv
      <4>2. cookie = None \/ cookie = top
        BY <2>2, <3>2 DEF RotationInv
      <4>3. top \notin graceOver
        BY DEF AuthTypes
      <4>4. top' - 1 = top
        BY <3>1 DEF AuthTypes
      <4>5. \A d \in late' : srv'[d] = "found"
        BY <2>1, <2>2, <3>3 DEF RotationInv, AuthTypes
      <4>6. \A d \in Call : srv'[d] = "found" => presented[d] # None
        BY <2>2, <3>3, <3>4 DEF RotationInv
      <4> QED
        BY <2>1, <3>1, <3>5, <3>6, <4>1, <4>2, <4>3, <4>4, <4>5, <4>6 DEF RotationInv
    <3>8. ~overtaken' => TwinInv'
      <4> SUFFICES ASSUME ~overtaken' PROVE TwinInv'
        OBVIOUS
      <4>1. ~overtaken /\ ~Unsettled(top - 1)
        BY <3>1
      <4>2. TwinInv /\ \A d \in Pending : presented[d] # top - 1
        BY <4>1 DEF HealthInv, Unsettled, Pending
      <4>3. \A d \in Pending' : presented[d] # None =>
              presented[d] >= top' - 1 /\ presented[d] \notin graceOver /\ d \notin late'
        BY <2>1, <3>1, <3>5, <3>6, <4>2 DEF TwinInv, AuthTypes
      <4> QED
        BY <2>1, <3>3, <3>4, <4>2, <4>3 DEF TwinInv
    <3>9. locks => AloneInv'
      <4> SUFFICES ASSUME locks PROVE AloneInv'
        OBVIOUS
      <4>1. AloneInv
        BY DEF HealthInv
      <4>2. Pending' = {}
        BY <2>2, <3>5 DEF FlightInv, RotationInv, Pending
      <4> QED
        BY <3>3, <3>4, <4>1, <4>2 DEF AloneInv
    <3> QED
      BY <2>1, <3>1, <3>7, <3>8, <3>9 DEF HealthInv, HealthyKept
  <2>5. CASE g \in consumed
    <3>1. UNCHANGED <<top, overtaken>>
      BY <1>11, <2>5 DEF Settle
    <3>2. \/ IsConcurrentRotation(c) /\ srv' = [srv EXCEPT ![c] = "superseded"]
          \/ ~IsConcurrentRotation(c) /\ srv' = [srv EXCEPT ![c] = "revoking"]
      BY <1>11, <2>2, <2>5 DEF Settle, Answers
    <3>3. \A d \in Call : d # c => srv'[d] = srv[d]
      BY <3>2 DEF AuthTypes
    <3>4. srv'[c] \in {"superseded", "revoking"}
      BY <3>2 DEF AuthTypes
    <3>5. Landing' = Landing /\ Pending' = Pending \ {c}
      BY <2>2, <3>3, <3>4 DEF Landing, Pending
    <3>6. RotationInv'
      BY <2>1, <2>2, <3>1, <3>3, <3>4, <3>5 DEF RotationInv, AuthTypes
    <3>7. ~overtaken => TwinInv'
      <4> SUFFICES ASSUME ~overtaken PROVE TwinInv'
        OBVIOUS
      <4>1. TwinInv
        BY DEF HealthInv
      <4>2. g >= top - 1 /\ c \notin late
        BY <2>2, <2>3, <4>1 DEF TwinInv, None
      <4>3. IsConcurrentRotation(c)
        BY <2>3, <4>2 DEF IsConcurrentRotation, AuthTypes
      <4>4. srv'[c] = "superseded"
        BY <3>2, <4>3 DEF AuthTypes
      <4> QED
        BY <2>1, <3>1, <3>3, <3>5, <4>1, <4>4 DEF TwinInv
    <3>8. ~locks
      <4>1. g # top /\ g # None
        BY <2>3, <2>5 DEF AuthTypes, None
      <4> QED
        BY <2>2, <4>1 DEF HealthInv, AloneInv, Pending
    <3> QED
      BY <2>1, <3>1, <3>6, <3>7, <3>8 DEF HealthInv, HealthyKept
  <2> QED
    BY <2>4, <2>5
<1>12. ASSUME NEW c \in Call, Revoke(c) PROVE HealthInv'
  <2> SUFFICES ASSUME ~lost PROVE HealthInv'
    BY <1>12 DEF Revoke, HealthInv, HealthyKept
  <2>1. /\ UNCHANGED <<locks, cookie, late, graceOver, top, lost, overtaken, logout, presented, stage>>
        /\ srv[c] = "revoking"
        /\ \E o \in {"replayed", "broken", "none"} : srv' = [srv EXCEPT ![c] = o]
    BY <1>12 DEF Revoke, Answers, jarVars, tabVars, timeVars
  <2>2. overtaken /\ ~locks /\ RotationInv
    BY <2>1 DEF HealthInv, TwinInv, AloneInv
  <2>3. \A d \in Call : d # c => srv'[d] = srv[d]
    BY <2>1 DEF AuthTypes
  <2>4. srv'[c] \in {"replayed", "broken", "none"}
    BY <2>1 DEF AuthTypes
  <2>5. Landing' = Landing /\ Pending' = Pending
    BY <2>1, <2>3, <2>4 DEF Landing, Pending
  <2>6. RotationInv'
    BY <2>1, <2>2, <2>3, <2>4, <2>5 DEF RotationInv, AuthTypes
  <2> QED
    BY <2>1, <2>2, <2>6 DEF HealthInv, HealthyKept
<1>13. ASSUME NEW t \in Tab, Reload(t) PROVE HealthInv'
  <2>1. CASE flight[t] # NoCall
    BY <1>13, <2>1 DEF Reload, HealthInv, HealthyKept
  <2>2. CASE flight[t] = NoCall
    <3>1. UNCHANGED <<locks, cookie, late, graceOver, top, overtaken, session, logout, presented>>
      BY <1>13 DEF Reload, jarVars, dbVars, timeVars
    <3>2. /\ stage' = [c \in Call |-> IF c = flight[t] THEN "none" ELSE stage[c]]
          /\ srv' = [c \in Call |-> IF c = flight[t] /\ srv[c] \in RefreshOutcome THEN "none" ELSE srv[c]]
          /\ lost' = (lost \/ flight[t] # NoCall)
      BY <1>13 DEF Reload
    <3>3. stage' = stage /\ srv' = srv
      BY <2>2, <3>2 DEF AuthTypes, AuthWellFormed
    <3>4. lost' = lost
      BY <2>2, <3>2 DEF AuthTypes
    <3> QED
      BY <3>1, <3>3, <3>4, HealthKept
  <2> QED
    BY <2>1, <2>2
<1>14. ASSUME Logout PROVE HealthInv'
  <2>1. /\ UNCHANGED <<locks, cookie, presented, srv, late, graceOver, top, lost, overtaken, stage>>
        /\ logout' = "served"
    BY <1>14 DEF Logout, jarVars, tabVars
  <2> QED
    BY <2>1, HealthKept
<1>15. ASSUME LogoutLands PROVE HealthInv'
  <2>1. /\ UNCHANGED <<locks, late, graceOver, top, lost, overtaken, session, presented, stage, srv>>
        /\ cookie' = None /\ logout' = "landed"
    BY <1>15 DEF LogoutLands, tabVars, dbVars
  <2>2. Landing' = Landing /\ Pending' = Pending
    BY <2>1 DEF Landing, Pending
  <2>3. (RotationInv => RotationInv') /\ (TwinInv => TwinInv') /\ (AloneInv => AloneInv')
    BY <2>1, <2>2 DEF RotationInv, TwinInv, AloneInv
  <2> QED
    BY <2>1, <2>3 DEF HealthInv, HealthyKept
<1>16. ASSUME AccessLapses PROVE HealthInv'
  <2>1. /\ UNCHANGED <<locks, cookie, presented, srv, late, graceOver, top, lost, overtaken, stage>>
        /\ UNCHANGED <<session, logout>>
    BY <1>16 DEF AccessLapses, jarVars, tabVars, dbVars, timeVars
  <2> QED
    BY <2>1, HealthKept
<1>17. ASSUME Expire PROVE HealthInv'
  <2>1. /\ UNCHANGED <<locks, cookie, presented, srv, late, graceOver, top, lost, overtaken,
                       stage, logout>>
        /\ session' = "expired"
    BY <1>17 DEF Expire, jarVars, tabVars, timeVars
  <2> QED
    BY <2>1, HealthKept
<1>18. ASSUME NEW g \in Generation, GraceEnds(g) PROVE HealthInv'
  <2>1. /\ UNCHANGED <<locks, cookie, late, top, lost, session, logout, presented, stage, srv>>
        /\ graceOver' = graceOver \cup {g} /\ overtaken' = (overtaken \/ Unsettled(g))
        /\ \A c \in Call : presented[c] = g /\ srv[c] \in {"rotated", "unsaid"} => stage[c] # "fetch"
    BY <1>18 DEF GraceEnds, jarVars, tabVars, dbVars
  <2>2. Landing' = Landing /\ Pending' = Pending
    BY <2>1 DEF Landing, Pending
  <2>3. RotationInv => RotationInv'
    <3> SUFFICES ASSUME RotationInv PROVE RotationInv'
      OBVIOUS
    <3>1. \A c \in Landing : presented[c] # g
      BY <2>1 DEF RotationInv, Landing
    <3> QED
      BY <2>1, <2>2, <3>1 DEF RotationInv
  <2>4. ~overtaken' /\ TwinInv => TwinInv'
    BY <2>1, <2>2 DEF TwinInv, Unsettled, Pending
  <2>5. AloneInv => AloneInv'
    BY <2>1, <2>2 DEF AloneInv
  <2> QED
    BY <2>1, <2>3, <2>4, <2>5 DEF HealthInv, HealthyKept
<1>19. ASSUME UNCHANGED authVars PROVE HealthInv'
  <2>1. UNCHANGED <<locks, cookie, presented, srv, late, graceOver, top, lost, overtaken, stage,
                    session, logout>>
    BY <1>19 DEF authVars, jarVars, tabVars, dbVars, timeVars
  <2> QED
    BY <2>1, HealthKept
<1>20. ASSUME NEW c \in Call, GuardRefuses(c) PROVE HealthInv'
  <2>1. /\ UNCHANGED <<locks, cookie, late, graceOver, top, lost, overtaken, session, logout,
                       presented, stage>>
        /\ srv[c] = "sent" /\ srv' \in {[srv EXCEPT ![c] = o] : o \in {"limited", "forbidden", "none"}}
    BY <1>20 DEF GuardRefuses, Answers, jarVars, tabVars, dbVars, timeVars
  <2> QED
    BY <2>1, HealthAnswered
<1>21. ASSUME NEW c \in Call, StatementFails(c) PROVE HealthInv'
  <2>1. /\ UNCHANGED <<locks, cookie, graceOver, top, lost, overtaken, session, logout,
                       presented, stage>>
        /\ srv[c] \in {"sent", "found", "revoking"} /\ late' = late \ {c}
        /\ srv' \in {[srv EXCEPT ![c] = o] : o \in {"broken", "none"}}
    BY <1>21 DEF StatementFails, Answers, jarVars, tabVars, dbVars, timeVars
  <2> QED
    BY <2>1, HealthAnswered
<1> QED
  BY <1>1, <1>2, <1>3, <1>4, <1>5, <1>6, <1>7, <1>8, <1>9, <1>10, <1>11, <1>12, <1>13, <1>14,
     <1>15, <1>16, <1>17, <1>18, <1>19, <1>20, <1>21 DEF AuthNext, CallStep, ServerStep

(* A step that leaves the calls alone keeps YoungInv. *)
LEMMA YoungKept ==
  ASSUME YoungInv,
         UNCHANGED <<locks, access, young, pc, since, carried, status, refused, epoch, skip>>,
         lost => lost', Gone => Gone', refusals' = refusals
  PROVE  YoungInv'
<1>1. ActiveCalls' = ActiveCalls
  BY DEF ActiveCalls
<1> QED
  BY <1>1 DEF YoungInv, RetryInv

(* So does one after which an answer is lost or the session is over. *)
LEMMA YoungOver ==
  ASSUME YoungInv, young' = young, \A c \in Call : pc'[c] = "new" => pc[c] = "new", AuthTypes,
         lost' \/ SignedOut'
  PROVE  YoungInv'
BY DEF YoungInv, SignedOut, AuthTypes

(* A flight that succeeded lets its callers retry with a young token. *)
LEMMA YoungRetries ==
  ASSUME AuthWellFormed, AuthTypes, FlightInv, NEW c \in Call, stage[c] # "none",
         Concludes(TabOf[c], TRUE, FALSE, TRUE),
         refused = {}, access', \A d \in young' : pc[d] # "new",
         \A d \in Call : pc[d] = "again" =>
           d \in young' /\ (status[d] = "ok" \/ (status[d] = "none" /\ d \in carried)),
         \A d \in Call : pc[d] = "sent" /\ since[d] # epoch[TabOf[d]] => d \in young',
         \A d \in Call : /\ TabOf[d] = TabOf[c]
                         /\ pc[d] = "sent" \/ (pc[d] = "flight" /\ d \notin Probes)
                         => d \in young',
         \A f \in skip' : /\ f \in young' /\ f \in Call /\ TabOf[f] # TabOf[c]
                          /\ \A d \in Call : /\ TabOf[d] = TabOf[f]
                                             /\ pc[d] = "sent" \/ (pc[d] = "flight" /\ d \notin Probes)
                                             => d \in young'
  PROVE  RetryInv' /\ \A d \in young' : d \in Call => pc'[d] # "new"
<1> DEFINE t == TabOf[c]
           joined == Of(t, "flight")
           waited == Of(t, "wait")
<1>1. /\ refused' = refused /\ epoch' = [epoch EXCEPT ![t] = @ + 1]
      /\ since' = [d \in Call |-> IF d \in waited THEN epoch'[t]
                                  ELSE IF d \in joined \cap Probes THEN 0 ELSE since[d]]
      /\ pc' = [d \in Call |-> IF d \in joined \cap Probes THEN "done"
                               ELSE IF d \in joined THEN "again"
                               ELSE IF d \in waited THEN "sent" ELSE pc[d]]
      /\ Dispatched((joined \ (joined \cap Probes)) \cup waited, TRUE)
  <2>1. refused' = refused
    BY DEF Concludes
  <2>2. epoch' = [epoch EXCEPT ![t] = @ + 1]
    BY DEF Concludes
  <2>3. since' = [d \in Call |-> IF d \in waited THEN epoch'[t]
                                 ELSE IF d \in joined \cap Probes THEN 0 ELSE since[d]]
    BY DEF Concludes
  <2>4. pc' = [d \in Call |-> IF d \in joined \cap Probes THEN "done"
                              ELSE IF d \in joined THEN "again"
                              ELSE IF d \in waited THEN "sent" ELSE pc[d]]
    BY DEF Concludes
  <2>5. Dispatched((joined \ (joined \cap Probes)) \cup waited, TRUE)
    BY DEF Concludes
  <2> QED
    BY <2>1, <2>2, <2>3, <2>4, <2>5
<1>2. carried' = carried \cup (joined \ (joined \cap Probes)) \cup waited
  BY <1>1 DEF Dispatched
<1>3. \A d \in Call :
        status'[d] = IF d \in (joined \ (joined \cap Probes)) \cup waited THEN "none" ELSE status[d]
  BY <1>1 DEF Dispatched
<1>4. t \in Tab /\ \A d \in Call : /\ TabOf[d] \in Tab
                                   /\ d \in joined <=> TabOf[d] = t /\ pc[d] = "flight"
                                   /\ d \in waited <=> TabOf[d] = t /\ pc[d] = "wait"
  BY DEF Of, AuthWellFormed
<1> HIDE DEF joined, waited
<1>5. \A d \in Call : pc'[d] = "again" =>
        d \in young' /\ (status'[d] = "ok" \/ (status'[d] = "none" /\ d \in carried'))
  BY <1>1, <1>2, <1>3, <1>4
<1>6. \A d \in Call : pc'[d] = "sent" /\ since'[d] # epoch'[TabOf[d]] => d \in young'
  <2> SUFFICES ASSUME NEW d \in Call, pc'[d] = "sent", since'[d] # epoch'[TabOf[d]]
               PROVE  d \in young'
    OBVIOUS
  <2>1. d \notin waited
    BY <1>1, <1>4
  <2>2. pc[d] = "sent" /\ d \notin joined /\ since'[d] = since[d]
    BY <1>1, <1>4, <2>1
  <2>3. CASE TabOf[d] = t
    BY <2>2, <2>3
  <2>4. CASE TabOf[d] # t
    BY <1>1, <1>4, <2>2, <2>4 DEF AuthTypes
  <2> QED
    BY <2>3, <2>4
<1>7. \A f \in skip' : \A d \in Call : TabOf[d] = TabOf[f] => pc'[d] = pc[d]
  BY <1>1, <1>4
<1>8. \A d \in Call : pc'[d] = "new" => pc[d] = "new"
  BY <1>1
<1> QED
  BY <1>1, <1>5, <1>6, <1>7, <1>8 DEF RetryInv

(* A call that is retried, or will be at once, was under way when the       *)
(* access token it is retried with was issued, so the token outlives it.    *)
LEMMA YoungStep ==
  AuthWellFormed /\ AuthTypes /\ FlightInv /\ LatchInv /\ HealthInv /\ YoungInv /\ [AuthNext]_authVars
  => YoungInv'
<1> SUFFICES ASSUME AuthWellFormed, AuthTypes, FlightInv, LatchInv, HealthInv, YoungInv,
                    [AuthNext]_authVars
             PROVE  YoungInv'
  OBVIOUS
<1> USE DEF flightHistory
<1>1. ASSUME NEW c \in Call, BeginCall(c) PROVE YoungInv'
  <2>1. /\ UNCHANGED <<locks, access, young, refused, epoch, skip, flight, lost, refusals, session>>
        /\ pc[c] = "new" /\ c \notin Probes
    BY <1>1 DEF BeginCall, jarVars, tabVars, dbVars
  <2>2. \/ /\ flight[TabOf[c]] # NoCall /\ pc' = [pc EXCEPT ![c] = "wait"]
           /\ UNCHANGED <<since, carried, status>>
        \/ /\ flight[TabOf[c]] = NoCall /\ pc' = [pc EXCEPT ![c] = "sent"]
           /\ since' = [since EXCEPT ![c] = epoch[TabOf[c]]] /\ Dispatched({c}, access)
    BY <1>1 DEF BeginCall
  <2>3. c \notin young
    BY <2>1 DEF YoungInv
  <2>4. \A d \in Call : d # c => /\ pc'[d] = pc[d] /\ since'[d] = since[d] /\ status'[d] = status[d]
                                 /\ d \in carried' <=> d \in carried
    BY <2>2 DEF Dispatched, AuthTypes
  <2>5. pc'[c] \in {"wait", "sent"} /\ (pc'[c] = "sent"
          => since'[c] = epoch[TabOf[c]] /\ flight[TabOf[c]] = NoCall)
    BY <2>2 DEF AuthTypes
  <2>6. young \cap ActiveCalls' = young \cap ActiveCalls
    BY <2>3, <2>4 DEF ActiveCalls, AuthTypes
  <2>7. \A f \in skip : f \in Call /\ flight[TabOf[f]] # NoCall
    BY DEF FlightInv, AuthTypes, AuthWellFormed
  <2>8. RetryInv => RetryInv'
    <3> SUFFICES ASSUME RetryInv PROVE RetryInv'
      OBVIOUS
    <3>1. \A f \in skip : \A d \in Call : /\ TabOf[d] = TabOf[f]
                                          /\ pc'[d] = "sent" \/ (pc'[d] = "flight" /\ d \notin Probes)
                                          => d \in young
      BY <2>4, <2>5, <2>7 DEF RetryInv
    <3>2. \A d \in Call : pc'[d] = "again" =>
            d \in young /\ (status'[d] = "ok" \/ (status'[d] = "none" /\ d \in carried'))
      BY <2>4, <2>5 DEF RetryInv
    <3>3. \A d \in Call : pc'[d] = "sent" /\ since'[d] # epoch[TabOf[d]] => d \in young
      BY <2>4, <2>5 DEF RetryInv
    <3> QED
      BY <2>1, <2>6, <3>1, <3>2, <3>3 DEF RetryInv
  <2> QED
    BY <2>1, <2>3, <2>4, <2>8 DEF YoungInv, Gone, AuthTypes
<1>2. ASSUME NEW c \in Call, Probe(c) PROVE YoungInv'
  <2>1. /\ UNCHANGED <<locks, access, young, refused, epoch, skip, since, carried, status, lost, refusals, session>>
        /\ pc[c] = "new" /\ c \in Probes /\ pc' = [pc EXCEPT ![c] = "flight"]
    BY <1>2 DEF Probe, JoinFlight, jarVars, dbVars
  <2>2. c \notin young
    BY <2>1 DEF YoungInv
  <2>3. pc'[c] = "flight" /\ \A d \in Call : d # c => pc'[d] = pc[d]
    BY <2>1 DEF AuthTypes
  <2>4. young \cap ActiveCalls' = young \cap ActiveCalls
    BY <2>2, <2>3 DEF ActiveCalls, AuthTypes
  <2>5. RetryInv => RetryInv'
    BY <2>1, <2>3, <2>4 DEF RetryInv
  <2> QED
    BY <2>1, <2>2, <2>3, <2>5 DEF YoungInv, Gone, AuthTypes
<1>3. ASSUME NEW c \in Call, Serve(c) PROVE YoungInv'
  <2>1. /\ UNCHANGED <<locks, access, young, refused, epoch, skip, since, carried, pc, lost, refusals, session>>
        /\ status[c] = "none"
        /\ status' = [status EXCEPT ![c] = IF c \in carried /\ ~Gone THEN "ok" ELSE "401"]
    BY <1>3 DEF Serve, jarVars, tabVars, dbVars
  <2>2. ActiveCalls' = ActiveCalls
    BY <2>1 DEF ActiveCalls
  <2>3. ~Gone /\ RetryInv => RetryInv'
    <3> SUFFICES ASSUME ~Gone, RetryInv PROVE RetryInv'
      OBVIOUS
    <3>1. \A d \in Call : pc[d] = "again" =>
            d \in young /\ (status'[d] = "ok" \/ (status'[d] = "none" /\ d \in carried))
      BY <2>1 DEF RetryInv, AuthTypes
    <3> QED
      BY <2>1, <2>2, <3>1 DEF RetryInv
  <2> QED
    BY <2>1, <2>3 DEF YoungInv, Gone
<1>4. ASSUME NEW c \in Call, Arrive(c) PROVE YoungInv'
  <2>1. UNCHANGED <<locks, access, young, epoch, skip, lost, refusals, session>>
    BY <1>4 DEF Arrive, jarVars, dbVars
  <2>2. pc[c] \in {"sent", "again"} /\ c \in ActiveCalls
    BY <1>4 DEF Arrive, ActiveCalls
  <2>3. CASE /\ Return(c, status[c])
             /\ status[c] = "ok" \/ pc[c] = "again" \/ TabOf[c] \in exhausted
    <3>1. Return(c, status[c])
      BY <2>3
    <3>2. /\ pc'[c] = "done"
          /\ \A d \in Call : d # c =>
               /\ pc'[d] = pc[d] /\ since'[d] = since[d] /\ status'[d] = status[d]
               /\ d \in carried' <=> d \in carried
      BY <3>1 DEF Return, AuthTypes
    <3>3. ActiveCalls' = ActiveCalls \ {c}
      BY <3>2 DEF ActiveCalls
    <3>4. RetryInv /\ refused' = {} => RetryInv'
      BY <2>1, <3>2, <3>3 DEF RetryInv
    <3>5. ~Gone /\ refusals = {} /\ RetryInv => refused' = {}
      <4> SUFFICES ASSUME ~Gone, refusals = {}, RetryInv PROVE refused' = {}
        OBVIOUS
      <4>1. TabOf[c] \notin exhausted
        BY DEF LatchInv, SignedOut
      <4>2. status[c] # "401"
        BY <2>3, <4>1 DEF RetryInv
      <4> QED
        BY <3>1, <4>2 DEF Return, RetryInv
    <3> QED
      BY <2>1, <3>2, <3>4, <3>5 DEF YoungInv, Gone, AuthTypes
  <2>4. CASE /\ Outdated(c) /\ pc[c] = "sent" /\ pc' = [pc EXCEPT ![c] = "again"]
             /\ Dispatched({c}, access) /\ UNCHANGED <<since, refused>>
    <3>1. /\ pc'[c] = "again" /\ status'[c] = "none" /\ (access => c \in carried')
          /\ \A d \in Call : d # c => /\ pc'[d] = pc[d] /\ status'[d] = status[d]
                                      /\ d \in carried' <=> d \in carried
      BY <2>4 DEF Dispatched, AuthTypes
    <3>2. ActiveCalls' = ActiveCalls
      BY <2>2, <3>1 DEF ActiveCalls
    <3>3. RetryInv => c \in young /\ access
      BY <2>2, <2>4 DEF RetryInv, Outdated
    <3>4. RetryInv => RetryInv'
      BY <2>1, <2>4, <3>1, <3>2, <3>3 DEF RetryInv
    <3> QED
      BY <2>1, <3>1, <3>4 DEF YoungInv, Gone, AuthTypes
  <2>5. CASE pc[c] = "sent" /\ JoinFlight(c) /\ UNCHANGED <<carried, status, since, refused>>
    <3>1. pc'[c] = "flight" /\ \A d \in Call : d # c => pc'[d] = pc[d]
      BY <2>5 DEF JoinFlight, AuthTypes
    <3>2. ActiveCalls' = ActiveCalls
      BY <2>2, <3>1 DEF ActiveCalls
    <3>3. RetryInv => RetryInv'
      BY <2>1, <2>5, <3>1, <3>2 DEF RetryInv
    <3> QED
      BY <2>1, <3>1, <3>3 DEF YoungInv, Gone, AuthTypes
  <2> QED
    BY <1>4, <2>3, <2>4, <2>5 DEF Arrive
<1>5. ASSUME NEW c \in Call, CallFails(c) PROVE YoungInv'
  <2>1. UNCHANGED <<locks, access, young, epoch, skip, lost, refusals, session>>
    BY <1>5 DEF CallFails, jarVars, dbVars, tabVars
  <2>2. Return(c, "error") /\ refused' = refused
    <3>1. Return(c, "error")
      BY <1>5 DEF CallFails
    <3> QED
      BY <3>1 DEF Return
  <2>3. /\ pc'[c] = "done"
        /\ \A d \in Call : d # c =>
             /\ pc'[d] = pc[d] /\ since'[d] = since[d] /\ status'[d] = status[d]
             /\ d \in carried' <=> d \in carried
    BY <2>2 DEF Return, AuthTypes
  <2>4. ActiveCalls' = ActiveCalls \ {c}
    BY <2>3 DEF ActiveCalls
  <2>5. RetryInv => RetryInv'
    BY <2>1, <2>2, <2>3, <2>4 DEF RetryInv
  <2> QED
    BY <2>1, <2>3, <2>5 DEF YoungInv, Gone, AuthTypes
<1>6. ASSUME NEW c \in Call, LockGranted(c) PROVE YoungInv'
  <2>1. UNCHANGED <<locks, access, young, lost, refusals, session>> /\ stage[c] = "lock"
    BY <1>6 DEF LockGranted, jarVars, dbVars
  <2>2. CASE c \notin skip
    <3>1. UNCHANGED <<pc, since, carried, status, refused, epoch, skip>>
      BY <1>6, <2>2 DEF LockGranted, callVars
    <3> QED
      BY <2>1, <3>1, YoungKept DEF Gone
  <2>3. CASE c \in skip
    <3>1. skip' = skip \ {c} /\ Concludes(TabOf[c], TRUE, FALSE, access)
      BY <1>6, <2>3 DEF LockGranted
    <3>2. \A d \in young' : d \in Call /\ pc'[d] # "new"
      BY <2>1, <3>1, ConcludeFlights DEF YoungInv, AuthTypes
    <3>3. \A f \in skip' : f \in Call /\ f \in skip /\ TabOf[f] # TabOf[c]
      BY <2>1, <3>1 DEF FlightInv, AuthTypes
    <3>4. RetryInv => RetryInv'
      <4> SUFFICES ASSUME RetryInv PROVE RetryInv'
        OBVIOUS
      <4>1. c \in young /\ c \in ActiveCalls
        BY <2>1, <2>3 DEF RetryInv, FlightInv, ActiveCalls
      <4>2. access = TRUE
        BY <4>1 DEF RetryInv, AuthTypes
      <4>3. Concludes(TabOf[c], TRUE, FALSE, TRUE)
        BY <3>1, <4>2
      <4>4. access' /\ refused = {} /\ \A d \in young' : pc[d] # "new"
        BY <2>1, <4>2 DEF RetryInv, YoungInv
      <4>5. \A d \in Call : /\ TabOf[d] = TabOf[c]
                            /\ pc[d] = "sent" \/ (pc[d] = "flight" /\ d \notin Probes)
                            => d \in young'
        BY <2>1, <2>3 DEF RetryInv
      <4>6. \A f \in skip' : /\ f \in young' /\ f \in Call /\ TabOf[f] # TabOf[c]
                             /\ \A d \in Call : /\ TabOf[d] = TabOf[f]
                                                /\ pc[d] = "sent" \/ (pc[d] = "flight" /\ d \notin Probes)
                                                => d \in young'
        BY <2>1, <3>3 DEF RetryInv
      <4>7. /\ \A d \in Call : pc[d] = "again" =>
                 d \in young' /\ (status[d] = "ok" \/ (status[d] = "none" /\ d \in carried))
            /\ \A d \in Call : pc[d] = "sent" /\ since[d] # epoch[TabOf[d]] => d \in young'
        BY <2>1 DEF RetryInv
      <4> QED
        BY <2>1, <4>3, <4>4, <4>5, <4>6, <4>7, YoungRetries
    <3> QED
      BY <2>1, <3>2, <3>4 DEF YoungInv, Gone
  <2> QED
    BY <2>2, <2>3
<1>7. ASSUME NEW c \in Call, LockTimeout(c) PROVE YoungInv'
  <2>1. young' = young /\ lost' /\ stage[c] # "none" /\ Concludes(TabOf[c], FALSE, FALSE, access)
    BY <1>7 DEF LockTimeout, jarVars
  <2>2. \A d \in Call : pc'[d] = "new" => pc[d] = "new"
    BY <2>1, ConcludeFlights
  <2> QED
    BY <2>1, <2>2, YoungOver
<1>8. ASSUME NEW c \in Call, Land(c) PROVE YoungInv'
  <2>1. /\ UNCHANGED <<locks, lost, session>> /\ stage[c] = "fetch" /\ srv[c] \in RefreshOutcome
        /\ refusals' = refusals \cup ({srv[c]} \cap Refusal)
    BY <1>8 DEF Land, dbVars
  <2>2. PICK ok, terminal, acc : Concludes(TabOf[c], ok, terminal, acc)
    BY <1>8 DEF Land
  <2>3. \A d \in Call : pc'[d] = "new" <=> pc[d] = "new"
    <3>1. \A d \in Call : TabOf[d] # TabOf[c] => pc'[d] = pc[d]
      BY <2>1, <2>2, ConcludeFlights
    <3>2. \A d \in Call : TabOf[d] = TabOf[c] => (pc'[d] = "new" <=> pc[d] = "new")
      BY <2>1, <2>2, ConcludeFlights
    <3> QED
      BY <3>1, <3>2
  <2>4. \A d \in young' : d \in Call /\ pc'[d] # "new"
    <3>1. \A d \in young' : d \in young \/ d \in ActiveCalls
      BY <1>8 DEF Land
    <3> QED
      BY <2>3, <3>1 DEF YoungInv, ActiveCalls, AuthTypes
  <2>5. locks /\ ~lost /\ refusals' = {} /\ ~Gone => RetryInv'
    <3> SUFFICES ASSUME locks, ~lost, refusals' = {}, ~Gone PROVE RetryInv'
      OBVIOUS
    <3>1. RetryInv /\ srv[c] = "rotated"
      <4>1. refusals = {} /\ srv[c] \notin Refusal
        BY <2>1
      <4> QED
        BY <2>1, <4>1 DEF YoungInv, HealthInv, AloneInv, LatchInv, SignedOut, RefreshOutcome
    <3>2. young' = ActiveCalls /\ access' = TRUE /\ Concludes(TabOf[c], TRUE, FALSE, TRUE)
      <4>1. /\ young' = ActiveCalls
            /\ access' = (Issued(srv[c]) \/ (~Cleared(srv[c]) /\ access))
            /\ Concludes(TabOf[c], Accepted(srv[c]), Terminal(srv[c]),
                         Issued(srv[c]) \/ (~Cleared(srv[c]) /\ access))
        BY <1>8, <3>1 DEF Land, Issued
      <4>2. Accepted(srv[c]) = TRUE /\ Terminal(srv[c]) = FALSE /\ Issued(srv[c]) = TRUE
        BY <3>1 DEF Accepted, Terminal, Issued
      <4> QED
        BY <4>1, <4>2
    <3>3. \A f \in skip' : f \in Call /\ stage[f] = "lock"
      BY <1>8 DEF Land, FlightInv, AuthTypes
    <3>4. \A f \in skip' : f \in young' /\ TabOf[f] # TabOf[c]
      BY <2>1, <3>2, <3>3 DEF FlightInv, ActiveCalls
    <3>5. \A d \in Call : pc[d] \in {"sent", "flight", "again"} => d \in young'
      BY <3>2 DEF ActiveCalls
    <3>6. refused = {} /\ \A d \in young' : pc[d] # "new"
      BY <3>1, <3>2 DEF RetryInv, ActiveCalls
    <3>7. \A d \in Call : pc[d] = "again" =>
            d \in young' /\ (status[d] = "ok" \/ (status[d] = "none" /\ d \in carried))
      BY <3>1, <3>5 DEF RetryInv
    <3> QED
      BY <2>1, <3>2, <3>3, <3>4, <3>5, <3>6, <3>7, YoungRetries
  <2> QED
    BY <2>1, <2>4, <2>5 DEF YoungInv, Gone
<1>9. ASSUME NEW c \in Call, FetchFails(c) PROVE YoungInv'
  <2>1. young' = young /\ lost' /\ stage[c] # "none" /\ Concludes(TabOf[c], FALSE, FALSE, access)
    BY <1>9 DEF FetchFails, jarVars
  <2>2. \A d \in Call : pc'[d] = "new" => pc[d] = "new"
    BY <2>1, ConcludeFlights
  <2> QED
    BY <2>1, <2>2, YoungOver
<1>10. ASSUME NEW c \in Call, Find(c) PROVE YoungInv'
  <2>1. /\ UNCHANGED <<locks, access, young, pc, since, carried, status, refused, epoch, skip>>
        /\ UNCHANGED <<lost, refusals, session>>
    BY <1>10 DEF Find, jarVars, callVars, tabVars, dbVars
  <2> QED
    BY <2>1, YoungKept DEF Gone
<1>11. ASSUME NEW c \in Call, Settle(c) PROVE YoungInv'
  <2>1. /\ UNCHANGED <<locks, access, young, pc, since, carried, status, refused, epoch, skip>>
        /\ UNCHANGED <<lost, refusals, session>>
    BY <1>11 DEF Settle, jarVars, callVars, tabVars, dbVars
  <2> QED
    BY <2>1, YoungKept DEF Gone
<1>12. ASSUME NEW c \in Call, Revoke(c) PROVE YoungInv'
  <2>1. UNCHANGED <<young, pc>>
    BY <1>12 DEF Revoke, jarVars, callVars
  <2>2. SignedOut'
    BY <1>12 DEF Revoke, SignedOut, Gone
  <2> QED
    BY <2>1, <2>2, YoungOver
<1>13. ASSUME NEW t \in Tab, Reload(t) PROVE YoungInv'
  <2> DEFINE gone == {c \in ActiveCalls : TabOf[c] = t}
  <2>1. /\ UNCHANGED <<locks, access, young, refused, refusals, session>>
        /\ lost' = (lost \/ flight[t] # NoCall)
        /\ pc' = [c \in Call |-> IF c \in gone THEN "done" ELSE pc[c]]
        /\ since' = [c \in Call |-> IF c \in gone THEN 0 ELSE since[c]]
        /\ epoch' = [epoch EXCEPT ![t] = 0] /\ skip' = skip \ {flight[t]} /\ Dispatched(gone, FALSE)
    BY <1>13 DEF Reload, jarVars, dbVars
  <2>2. \A c \in Call : c \notin gone =>
          /\ pc'[c] = pc[c] /\ since'[c] = since[c] /\ status'[c] = status[c]
          /\ (c \in carried' <=> c \in carried)
    BY <2>1 DEF Dispatched
  <2>3. \A c \in Call : c \in gone => pc'[c] = "done"
    BY <2>1
  <2>4. ActiveCalls' = ActiveCalls \ gone
    BY <2>2, <2>3 DEF ActiveCalls
  <2>5. \A c \in Call : c \notin gone /\ pc[c] = "sent"
          => TabOf[c] # t /\ epoch'[TabOf[c]] = epoch[TabOf[c]]
    BY <2>1 DEF ActiveCalls, AuthTypes, AuthWellFormed
  <2> HIDE DEF gone
  <2>6. RetryInv => RetryInv'
    <3> SUFFICES ASSUME RetryInv PROVE RetryInv'
      OBVIOUS
    <3>1. \A c \in Call : pc'[c] = "sent" /\ since'[c] # epoch'[TabOf[c]] => c \in young
      BY <2>2, <2>3, <2>5 DEF RetryInv
    <3>2. \A c \in Call : pc'[c] = "again" =>
            c \in young /\ (status'[c] = "ok" \/ (status'[c] = "none" /\ c \in carried'))
      BY <2>2, <2>3 DEF RetryInv
    <3>3. \A f \in skip' : /\ f \in young
                           /\ \A c \in Call : /\ TabOf[c] = TabOf[f]
                                              /\ pc'[c] = "sent" \/ (pc'[c] = "flight" /\ c \notin Probes)
                                              => c \in young
      BY <2>1, <2>2, <2>3 DEF RetryInv
    <3> QED
      BY <2>1, <2>4, <3>1, <3>2, <3>3 DEF RetryInv
  <2> QED
    BY <2>1, <2>2, <2>3, <2>6 DEF YoungInv, Gone, AuthTypes
<1>14. ASSUME Logout PROVE YoungInv'
  <2>1. UNCHANGED <<young, pc>>
    BY <1>14 DEF Logout, jarVars, callVars
  <2>2. SignedOut'
    BY <1>14 DEF Logout, SignedOut, Gone, LatchInv
  <2> QED
    BY <2>1, <2>2, YoungOver
<1>15. ASSUME LogoutLands PROVE YoungInv'
  <2>1. UNCHANGED <<young, pc>>
    BY <1>15 DEF LogoutLands, jarVars, callVars
  <2>2. SignedOut'
    BY <1>15 DEF LogoutLands, dbVars, SignedOut, Gone, LatchInv
  <2> QED
    BY <2>1, <2>2, YoungOver
<1>16. ASSUME AccessLapses PROVE YoungInv'
  <2>1. /\ UNCHANGED <<locks, young, pc, since, status, refused, epoch, skip, lost, refusals, session>>
        /\ young \cap ActiveCalls = {}
    BY <1>16 DEF AccessLapses, tabVars, dbVars
  <2>2. ActiveCalls' = ActiveCalls
    BY <2>1 DEF ActiveCalls
  <2>3. RetryInv => RetryInv'
    <3> SUFFICES ASSUME RetryInv PROVE RetryInv'
      OBVIOUS
    <3>1. \A c \in Call : pc[c] # "again"
      BY <2>1 DEF RetryInv, ActiveCalls
    <3> QED
      BY <2>1, <2>2, <3>1 DEF RetryInv
  <2> QED
    BY <2>1, <2>3 DEF YoungInv, Gone
<1>17. ASSUME Expire PROVE YoungInv'
  <2>1. UNCHANGED <<young, pc>>
    BY <1>17 DEF Expire, jarVars, callVars
  <2>2. SignedOut'
    BY <1>17 DEF Expire, SignedOut, Gone
  <2> QED
    BY <2>1, <2>2, YoungOver
<1>18. ASSUME NEW g \in Generation, GraceEnds(g) PROVE YoungInv'
  <2>1. /\ UNCHANGED <<locks, access, young, pc, since, carried, status, refused, epoch, skip>>
        /\ UNCHANGED <<lost, refusals, session>>
    BY <1>18 DEF GraceEnds, jarVars, callVars, tabVars, dbVars
  <2> QED
    BY <2>1, YoungKept DEF Gone
<1>19. ASSUME UNCHANGED authVars PROVE YoungInv'
  <2>1. UNCHANGED <<locks, access, young, pc, since, carried, status, refused, epoch, skip, lost, refusals, session>>
    BY <1>19 DEF authVars, jarVars, callVars, tabVars, dbVars
  <2> QED
    BY <2>1, YoungKept DEF Gone
<1>20. ASSUME NEW c \in Call, GuardRefuses(c) PROVE YoungInv'
  <2>1. /\ UNCHANGED <<locks, access, young, pc, since, carried, status, refused, epoch, skip>>
        /\ UNCHANGED <<lost, refusals, session>>
    BY <1>20 DEF GuardRefuses, jarVars, callVars, tabVars, dbVars
  <2> QED
    BY <2>1, YoungKept DEF Gone
<1>21. ASSUME NEW c \in Call, StatementFails(c) PROVE YoungInv'
  <2>1. /\ UNCHANGED <<locks, access, young, pc, since, carried, status, refused, epoch, skip>>
        /\ UNCHANGED <<lost, refusals, session>>
    BY <1>21 DEF StatementFails, jarVars, callVars, tabVars, dbVars
  <2> QED
    BY <2>1, YoungKept DEF Gone
<1> QED
  BY <1>1, <1>2, <1>3, <1>4, <1>5, <1>6, <1>7, <1>8, <1>9, <1>10, <1>11, <1>12, <1>13, <1>14,
     <1>15, <1>16, <1>17, <1>18, <1>19, <1>20, <1>21 DEF AuthNext, CallStep, ServerStep

(* The inductive invariant. *)
AuthInv == AuthTypes /\ GenInv /\ FlightInv /\ LatchInv /\ HealthInv /\ YoungInv

(* It holds at first, *)
LEMMA AuthInvInit == AuthWellFormed /\ AuthInit => AuthInv
<1> SUFFICES ASSUME AuthWellFormed, AuthInit PROVE AuthInv
  OBVIOUS
<1>1. AuthTypes
  <2>1. 0 .. -1 = {}
    OBVIOUS
  <2>2. /\ pc \in [Call -> {"new", "wait", "sent", "flight", "again", "done"}]
        /\ status \in [Call -> {"none", "ok", "401"}] /\ since \in [Call -> Nat]
    BY DEF AuthInit
  <2>3. flight \in [Tab -> Call \cup {NoCall}] /\ epoch \in [Tab -> Nat]
    BY DEF AuthInit
  <2>4. stage \in [Call -> {"none", "lock", "fetch"}] /\ presented \in [Call -> Nat \cup {None}]
    BY DEF AuthInit
  <2>5. srv \in [Call -> RefreshOutcome \cup {"none", "sent", "found", "revoking"}]
    BY DEF AuthInit
  <2>6. top \in Nat /\ consumed = 0 .. top - 1 /\ graceOver \subseteq consumed
    BY <2>1 DEF AuthInit
  <2> QED
    BY <2>2, <2>3, <2>4, <2>5, <2>6 DEF AuthInit, AuthTypes
<1>2. GenInv
  BY DEF AuthInit, GenInv, None
<1>3. FlightInv
  BY DEF AuthInit, FlightInv
<1>4. LatchInv
  BY DEF AuthInit, LatchInv, None
<1>5. Landing = {} /\ Pending = {}
  BY DEF AuthInit, Landing, Pending
<1>6. RotationInv
  BY <1>5 DEF AuthInit, RotationInv
<1>7. TwinInv
  BY <1>5 DEF AuthInit, TwinInv
<1>8. AloneInv
  BY <1>5 DEF AuthInit, AloneInv
<1>9. HealthInv
  BY <1>6, <1>7, <1>8 DEF AuthInit, HealthInv, HealthyKept
<1>10. YoungInv
  BY DEF AuthInit, YoungInv, RetryInv
<1> QED
  BY <1>1, <1>2, <1>3, <1>4, <1>9, <1>10 DEF AuthInv

(* and every step keeps it. *)
LEMMA AuthInvStep == AuthWellFormed /\ AuthInv /\ [AuthNext]_authVars => AuthInv'
BY AuthTypesStep, GenStep, FlightStep, LatchStep, HealthStep, YoungStep DEF AuthInv

(* The invariant of the tabs' refreshes and the server's rotations holds    *)
(* throughout, for any tabs, calls and probes.                              *)
THEOREM AuthInvAlways == AuthSpec => []AuthInv
<1>1. AuthInit => AuthInv
  BY AuthInvInit, CallAssumption
<1>2. AuthInv /\ [AuthNext]_authVars => AuthInv'
  BY AuthInvStep, CallAssumption
<1> QED
  BY <1>1, <1>2, PTL DEF AuthSpec

(* However the tabs and calls of a browser race, its session is revoked     *)
(* only by signing out, after an answer was lost or, where the tabs share   *)
(* no lock, after one refresh overtook another.                             *)
THEOREM HealthyKeptAlways == AuthSpec => []HealthyKept
<1>1. AuthInv => HealthyKept
  BY DEF AuthInv, HealthInv
<1> QED
  BY <1>1, AuthInvAlways, PTL

(* A tab gives the session up, and refreshes no more, only when the session *)
(* is over, or after a refresh was answered with a 500 or a 403.            *)
THEOREM LatchTruthfulAlways == AuthSpec => []LatchTruthful
<1>1. AuthInv => LatchTruthful
  BY DEF AuthInv, LatchInv, SignedOut, LatchTruthful
<1> QED
  BY <1>1, AuthInvAlways, PTL

(* Where the tabs share a lock, no answer is lost and no flight is answered *)
(* with an error other than 401, no call of a live session ends in a 401:   *)
(* the retry carries the new access token.                                  *)
THEOREM RetrySucceedsAlways == AuthSpec => []RetrySucceeds
<1>1. AuthInv => RetrySucceeds
  BY DEF AuthInv, YoungInv, RetryInv, RetrySucceeds
<1> QED
  BY <1>1, AuthInvAlways, PTL

-----------------------------------------------------------------------------
(* Tools and the reader's answers (ToolApprovals). *)

(* Rows of the settings, and digests of the tools of a request. *)
Override == [mode : {"inherit", "always_ask", "auto"}, digest : Version \cup {0}]
Grant == [digest : Version \cup {0}, ends : Nat]
Digests == UNION {[ts -> Version \cup {0}] : ts \in SUBSET Tool}

(* A turn that reads the settings for its gate, and one whose gate is made. *)
Reading ==
  [pc : {"reading"}, session : Session, catalog : [Tool -> Version \cup {0}],
   unread : SUBSET Parts, mode : {"unread", "always_ask", "remember"},
   settings : Modes \cup {"unread", "inherit"},
   overrides : {<<>>} \cup [Tool -> Override], grants : {<<>>} \cup [Tool -> SUBSET Grant]]

Opened ==
  [pc : {"open"}, session : Session, catalog : [Tool -> Version \cup {0}],
   settings : Modes \cup {"unread", "inherit"},
   allows : SUBSET Tool, rememberable : SUBSET Tool]

(* Requests under way. *)
Step == {"resolve", "row", "write", "done"}

Remembering ==
  [step : Step, kind : {"remember"}, tools : SUBSET Tool, scope : Scope, ttl : Picks,
   digest : Digests, session : Session, kept : BOOLEAN]

Setting ==
  [step : Step \ {"done"}, kind : {"forget", "inherit", "always_ask", "auto"},
   tools : SUBSET Tool, digest : Digests, kept : {FALSE}]

(* The types of the settings and of the day, which the bounds of            *)
(* ApprovalsTypeOK do not limit here,                                       *)
SettingTypes ==
  /\ offered \in [Remote -> Version \cup {0}] /\ active \in BOOLEAN
  /\ readerMode \in {"always_ask", "remember"} /\ integrationMode \in Modes \cup {"inherit"}
  /\ override \in [Tool -> Override]
  /\ grant \in [Tool \X Scope -> Grant]
  /\ ttlFor \in Ttl /\ day \in Nat

(* of the turn, *)
TurnTypes == turn \in {NoTurn} \cup Reading \cup Opened

(* and of the request: a reader's consent is to one tool. *)
RequestTypes ==
  /\ request \in {NoRequest} \cup Remembering \cup Setting
  /\ request # NoRequest => request.digest \in [request.tools -> Version \cup {0}]
  /\ request \in Remembering => \E t \in Tool : request.tools = {t}

(* What the reader was shown is a set of digests for each tool.  A tool     *)
(* that was shown has its definition of now among them,                     *)
Seen == [Tool -> SUBSET Version]
Follows(h) == \A t \in Tool : h[t] # {} /\ RowDigest(t) # 0 => RowDigest(t) \in h[t]

(* the tools a turn offers were shown when it began,                        *)
Prompted ==
  turn.pc \in {"reading", "open"} => \A t \in Tool : turn.catalog[t] # 0 => shown.turn[t] # {}

(* and those a request is about when it was sent; the digest it will store  *)
(* is one of theirs.                                                        *)
Backed ==
  request # NoRequest /\ request.kind # "forget" /\ request.step # "done" =>
    \A t \in request.tools :
      /\ shown.request[t] # {}
      /\ request.step = "write" => request.digest[t] \in shown.request[t]

ShownInv ==
  /\ shown \in [turn : Seen, page : Seen, request : Seen]
  /\ Follows(shown.turn) /\ Follows(shown.page) /\ Follows(shown.request)
  /\ Prompted /\ Backed

(* Every override that allows and every grant was agreed to by the reader,  *)
(* for the definition it names, which is one the reader was shown or one    *)
(* that took its place before the answer was written.                       *)
ConsentInv ==
  /\ \A t \in Tool : override[t].mode = "auto" =>
       Agreed(t, "override", override[t].digest) \in consent
  /\ \A t \in Tool, k \in Scope : grant[<<t, k>>] # NoGrant =>
       Agreed(t, k, grant[<<t, k>>].digest) \in consent

(* What the turn has read was agreed to at some time since it began. *)
ReadInv ==
  turn.pc = "reading" =>
    /\ consent \subseteq stood
    /\ "mode" \notin turn.unread => turn.mode # "unread"
    /\ "settings" \notin turn.unread => turn.settings # "unread"
    /\ "overrides" \notin turn.unread =>
         /\ turn.overrides \in [Tool -> Override]
         /\ \A t \in Tool : turn.overrides[t].mode = "auto" =>
              Agreed(t, "override", turn.overrides[t].digest) \in stood
    /\ "grants" \notin turn.unread =>
         /\ turn.grants \in [Tool -> SUBSET Grant]
         /\ \A t \in Tool : \A g \in turn.grants[t] :
              \E k \in {turn.session, Everywhere} : Agreed(t, k, g.digest) \in stood

(* A grant for the tool, as its row is now, would let it run. *)
CanHelp(t) ==
  /\ RowDigest(t) # 0 /\ PolicyOf(t) = "askable" /\ override[t].mode = "inherit"
  /\ ~(t \in Remote /\ Destructive[RowDigest(t)])
  /\ ModePosture(IF t \in Remote /\ integrationMode # "inherit" THEN integrationMode
                 ELSE readerMode) = "grants"

(* While nothing changed since the turn began, what it read is what is      *)
(* stored, and the tools it may offer to remember are those a grant helps.  *)
SteadyInv ==
  steady =>
    /\ turn.pc \in {"reading", "open"}
    /\ turn.catalog = Catalog
    /\ turn.pc = "reading" =>
         /\ "mode" \notin turn.unread => turn.mode = readerMode
         /\ "settings" \notin turn.unread => turn.settings = integrationMode
         /\ "overrides" \notin turn.unread => turn.overrides = override
    /\ turn.pc = "open" => \A t \in turn.rememberable : CanHelp(t)

(* The grant is there, for the definition of today, and has not ended. *)
Holds(t, k) ==
  /\ grant[<<t, k>>] # NoGrant /\ grant[<<t, k>>].digest = RowDigest(t)
  /\ Live(grant[<<t, k>>], day)

(* A reader who was told that the answer is remembered is on the way to a   *)
(* grant that does.                                                         *)
KeptInv ==
  request # NoRequest /\ request.kept =>
    /\ request.kind = "remember" /\ request.scope \in {request.session, Everywhere}
    /\ \A t \in request.tools :
         /\ CanHelp(t)
         /\ request.step = "write" => request.digest[t] = RowDigest(t)
         /\ request.step = "done" => Holds(t, request.scope)

(* What a request becomes when it moves on. *)
LEMMA RememberingMoves ==
  ASSUME NEW q \in Remembering, NEW st \in Step, NEW f \in Digests, NEW b \in BOOLEAN
  PROVE  /\ [q EXCEPT !.step = st] \in Remembering
         /\ [q EXCEPT !.kept = b] \in Remembering
         /\ [q EXCEPT !.step = st, !.digest = f] \in Remembering
BY DEF Remembering

(* The same for a change of the settings. *)
LEMMA SettingMoves ==
  ASSUME NEW q \in Setting, NEW st \in Step \ {"done"}, NEW f \in Digests
  PROVE  /\ [q EXCEPT !.step = st] \in Setting
         /\ [q EXCEPT !.kept = FALSE] \in Setting
         /\ [q EXCEPT !.step = st, !.digest = f] \in Setting
BY DEF Setting

(* The fields that stay. *)
LEMMA MoveFields ==
  ASSUME NEW q \in Remembering \cup Setting, NEW st, NEW f, NEW b
  PROVE  /\ [q EXCEPT !.step = st].step = st /\ [q EXCEPT !.step = st].tools = q.tools
         /\ [q EXCEPT !.step = st].digest = q.digest /\ [q EXCEPT !.step = st].kept = q.kept
         /\ [q EXCEPT !.step = st].kind = q.kind
         /\ [q EXCEPT !.kept = b].kept = b /\ [q EXCEPT !.kept = b].tools = q.tools
         /\ [q EXCEPT !.kept = b].digest = q.digest
         /\ [q EXCEPT !.step = st, !.digest = f].digest = f
         /\ [q EXCEPT !.step = st, !.digest = f].tools = q.tools
         /\ [q EXCEPT !.step = st, !.digest = f].kept = q.kept
         /\ [q EXCEPT !.step = st, !.digest = f].kind = q.kind
         /\ [q EXCEPT !.step = st, !.digest = f].step = st
BY DEF Remembering, Setting

(* A digest for each tool of a request. *)
LEMMA DigestsHas ==
  ASSUME NEW ts \in SUBSET Tool, NEW f \in [ts -> Version \cup {0}]
  PROVE  f \in Digests
BY DEF Digests

(* A request's kind tells its shape, *)
LEMMA RequestShape ==
  ASSUME RequestTypes
  PROVE  /\ request # NoRequest <=> request.step # "none"
         /\ request # NoRequest =>
              /\ request \in Remembering \cup Setting
              /\ request.kind = "remember" <=> request \in Remembering
              /\ request.kind = "remember" <=> request \notin Setting
              /\ request.tools \subseteq Tool
<1>1. CASE request = NoRequest
  BY <1>1 DEF NoRequest
<1>2. CASE request \in Remembering
  <2>1. request.step \in Step /\ request.kind = "remember" /\ request.tools \subseteq Tool
    BY <1>2 DEF Remembering
  <2>2. request \notin Setting
    BY <2>1 DEF Setting
  <2> QED
    BY <1>2, <2>1, <2>2 DEF NoRequest, Step
<1>3. CASE request \in Setting
  <2>1. request.step \in Step /\ request.kind # "remember" /\ request.tools \subseteq Tool
    BY <1>3 DEF Setting
  <2>2. request \notin Remembering
    BY <2>1 DEF Remembering
  <2> QED
    BY <1>3, <2>1, <2>2 DEF NoRequest, Step
<1> QED
  BY <1>1, <1>2, <1>3 DEF RequestTypes

(* and a turn's pc tells its own. *)
LEMMA TurnShape ==
  ASSUME TurnTypes
  PROVE  /\ turn.pc = "reading" <=> turn \in Reading
         /\ turn.pc = "open" <=> turn \in Opened
         /\ turn.pc = "none" <=> turn = NoTurn
BY DEF TurnTypes, NoTurn, Reading, Opened

(* The catalog gives a definition to each tool, *)
LEMMA CatalogType ==
  ASSUME ApprovalsWellFormed, SettingTypes
  PROVE  Catalog \in [Tool -> Version \cup {0}]
BY DEF ApprovalsWellFormed, SettingTypes, Catalog, Tool

(* and the grants of a conversation are grants. *)
LEMMA GrantsForType ==
  ASSUME SettingTypes, NEW s \in Session
  PROVE  GrantsFor(s) \in [Tool -> SUBSET Grant]
<1>1. \A t \in Tool, k \in Scope : grant[<<t, k>>] \in Grant
  BY DEF SettingTypes
<1> QED
  BY <1>1 DEF GrantsFor, Scope

(* Settings, grants and the tool list keep their types. *)
LEMMA SettingTypesStep ==
  ASSUME ApprovalsWellFormed, SettingTypes, RequestTypes, [ApprovalsNext]_approvalsVars
  PROVE  SettingTypes'
<1>1. ASSUME NEW s \in Session, BeginTurn(s) PROVE SettingTypes'
  BY <1>1 DEF BeginTurn, settings, SettingTypes
<1>2. ASSUME NEW p \in Parts, Read(p) PROVE SettingTypes'
  BY <1>2 DEF Read, settings, SettingTypes
<1>3. ASSUME GateFor PROVE SettingTypes'
  BY <1>3 DEF GateFor, settings, SettingTypes
<1>4. ASSUME EndTurn PROVE SettingTypes'
  BY <1>4 DEF EndTurn, settings, SettingTypes
<1>5. ASSUME NEW t \in Tool, NEW s \in Scope, NEW d \in Picks, AskRemember(t, s, d)
      PROVE SettingTypes'
  BY <1>5 DEF AskRemember, Sends, Counts, settings, SettingTypes
<1>6. ASSUME NEW t \in Tool, AskForget(t) PROVE SettingTypes'
  BY <1>6 DEF AskForget, Asks, Sends, Counts, settings, SettingTypes
<1>7. ASSUME NEW t \in Tool, NEW m \in {"inherit", "always_ask", "auto"}, AskOverride(t, m)
      PROVE SettingTypes'
  BY <1>7 DEF AskOverride, Asks, Sends, Counts, settings, SettingTypes
<1>8. ASSUME NEW ts \in SUBSET Remote, NEW m \in {"inherit", "always_ask", "auto"},
             AskOverrideMany(ts, m)
      PROVE SettingTypes'
  BY <1>8 DEF AskOverrideMany, Asks, Sends, Counts, settings, SettingTypes
<1>9. ASSUME NEW m \in {"always_ask", "remember"}, SetMode(m) PROVE SettingTypes'
  BY <1>9 DEF SetMode, Disturbs, settings, SettingTypes
<1>10. ASSUME NEW m \in Modes \cup {"inherit"}, SetIntegrationMode(m) PROVE SettingTypes'
  BY <1>10 DEF SetIntegrationMode, Disturbs, settings, SettingTypes
<1>11. ASSUME NEW d \in Ttl, SetTtl(d) PROVE SettingTypes'
  BY <1>11 DEF SetTtl, settings, SettingTypes
<1>12. ASSUME Resolve PROVE SettingTypes'
  BY <1>12 DEF Resolve, settings, SettingTypes
<1>13. ASSUME ReadRow PROVE SettingTypes'
  BY <1>13 DEF ReadRow, settings, SettingTypes
<1>14. ASSUME WriteGrant PROVE SettingTypes'
  <2> DEFINE t == CHOOSE u \in request.tools : TRUE
             d == IF request.ttl = "preference" THEN ttlFor ELSE request.ttl
             g == [digest |-> request.digest[t], ends |-> IF d = "day" THEN day + 1 ELSE 0]
  <2>1. /\ grant' = [grant EXCEPT ![<<t, request.scope>>] = g]
        /\ request.step = "write" /\ request.kind = "remember"
        /\ UNCHANGED <<offered, active, readerMode, integrationMode, override, ttlFor, day>>
    BY <1>14 DEF WriteGrant
  <2>2. request \in Remembering /\ request # NoRequest
    BY <2>1, RequestShape
  <2>3. t \in request.tools
    BY <2>2 DEF RequestTypes
  <2>4. g \in Grant
    BY <2>2, <2>3 DEF RequestTypes, SettingTypes, Grant
  <2> QED
    BY <2>1, <2>4 DEF SettingTypes
<1>15. ASSUME Forget PROVE SettingTypes'
  <2>1. /\ grant' = [k \in DOMAIN grant |->
               IF k[1] = (CHOOSE u \in request.tools : TRUE) THEN NoGrant ELSE grant[k]]
        /\ UNCHANGED <<offered, active, readerMode, integrationMode, override, ttlFor, day>>
    BY <1>15 DEF Forget
  <2>2. NoGrant \in Grant
    BY DEF NoGrant, Grant
  <2> QED
    BY <2>1, <2>2 DEF SettingTypes
<1>16. ASSUME WriteOverride PROVE SettingTypes'
  <2>1. /\ request.step = "write" /\ request.kind \in {"inherit", "always_ask", "auto"}
        /\ override' = [t \in Tool |->
             IF t \notin request.tools THEN override[t]
             ELSE [mode |-> request.kind,
                   digest |-> IF request.kind = "auto" THEN request.digest[t] ELSE 0]]
        /\ UNCHANGED <<offered, active, readerMode, integrationMode, grant, ttlFor, day>>
    BY <1>16 DEF WriteOverride
  <2>2. request # NoRequest
    BY <2>1, RequestShape
  <2>3. \A t \in Tool : override'[t] \in Override
    BY <2>1, <2>2 DEF RequestTypes, SettingTypes, Override
  <2> QED
    BY <2>1, <2>3 DEF SettingTypes
<1>17. ASSUME RequestOver PROVE SettingTypes'
  BY <1>17 DEF RequestOver, settings, SettingTypes
<1>18. ASSUME NEW f \in [Remote -> Version \cup {0}], ReplaceTools(f) PROVE SettingTypes'
  BY <1>18 DEF ReplaceTools, Disturbs, settings, SettingTypes
<1>19. ASSUME Reconnect PROVE SettingTypes'
  BY <1>19 DEF Reconnect, Disturbs, settings, SettingTypes
<1>20. ASSUME NextDay PROVE SettingTypes'
  BY <1>20 DEF NextDay, Disturbs, settings, SettingTypes
<1>21. ASSUME UNCHANGED approvalsVars PROVE SettingTypes'
  BY <1>21 DEF approvalsVars, settings, SettingTypes
<1>22. ASSUME LoadPage PROVE SettingTypes'
  BY <1>22 DEF LoadPage, settings, SettingTypes
<1> QED
  BY <1>1, <1>2, <1>3, <1>4, <1>5, <1>6, <1>7, <1>8, <1>9, <1>10, <1>11, <1>12, <1>13, <1>14,
     <1>15, <1>16, <1>17, <1>18, <1>19, <1>20, <1>21, <1>22
     DEF ApprovalsNext, ReaderTurn, ReaderAsks, RequestStep

(* So does the turn. *)
LEMMA TurnTypesStep ==
  ASSUME ApprovalsWellFormed, SettingTypes, TurnTypes, [ApprovalsNext]_approvalsVars
  PROVE  TurnTypes'
<1>1. ASSUME NEW s \in Session, BeginTurn(s) PROVE TurnTypes'
  <2>1. turn' = [pc |-> "reading", session |-> s, catalog |-> Catalog, unread |-> Parts,
                 mode |-> "unread", settings |-> "unread", overrides |-> <<>>, grants |-> <<>>]
    BY <1>1 DEF BeginTurn
  <2>2. turn' \in Reading
    BY <2>1, CatalogType DEF Reading
  <2> QED
    BY <2>2 DEF TurnTypes
<1>2. ASSUME NEW p \in Parts, Read(p) PROVE TurnTypes'
  <2>1. turn \in Reading
    BY <1>2, TurnShape DEF Read
  <2>2. readerMode \in {"always_ask", "remember"} /\ override \in [Tool -> Override]
    BY DEF SettingTypes
  <2>3. GrantsFor(turn.session) \in [Tool -> SUBSET Grant]
    BY <2>1, GrantsForType DEF Reading
  <2>4. integrationMode \in Modes \cup {"inherit"}
    BY DEF SettingTypes
  <2> DEFINE mode == IF p = "mode" THEN readerMode ELSE turn.mode
             integration == IF p = "settings" THEN integrationMode ELSE turn.settings
             rows == IF p = "overrides" THEN override ELSE turn.overrides
             held == IF p = "grants" THEN GrantsFor(turn.session) ELSE turn.grants
  <2>5. mode \in {"unread", "always_ask", "remember"}
    BY <2>1, <2>2 DEF Reading
  <2>6. integration \in Modes \cup {"unread", "inherit"}
    BY <2>1, <2>4 DEF Reading
  <2>7. rows \in {<<>>} \cup [Tool -> Override] /\ held \in {<<>>} \cup [Tool -> SUBSET Grant]
    BY <2>1, <2>2, <2>3 DEF Reading
  <2>8. turn' = [turn EXCEPT !.unread = turn.unread \ {p}, !.mode = mode, !.settings = integration,
                             !.overrides = rows, !.grants = held]
    BY <1>2 DEF Read
  <2> HIDE DEF mode, integration, rows, held
  <2>9. turn' \in Reading
    BY <2>1, <2>5, <2>6, <2>7, <2>8 DEF Reading
  <2> QED
    BY <2>9 DEF TurnTypes
<1>3. ASSUME GateFor PROVE TurnTypes'
  <2>1. turn \in Reading
    BY <1>3, TurnShape DEF GateFor
  <2>2. turn' \in Opened
    BY <1>3, <2>1 DEF GateFor, Reading, Opened
  <2> QED
    BY <2>2 DEF TurnTypes
<1>4. ASSUME EndTurn PROVE TurnTypes'
  BY <1>4 DEF EndTurn, TurnTypes
<1>5. ASSUME NEW t \in Tool, NEW s \in Scope, NEW d \in Picks, AskRemember(t, s, d)
      PROVE TurnTypes'
  BY <1>5 DEF AskRemember, Sends, Counts, settings, TurnTypes
<1>6. ASSUME NEW t \in Tool, AskForget(t) PROVE TurnTypes'
  BY <1>6 DEF AskForget, Asks, Sends, Counts, settings, TurnTypes
<1>7. ASSUME NEW t \in Tool, NEW m \in {"inherit", "always_ask", "auto"}, AskOverride(t, m)
      PROVE TurnTypes'
  BY <1>7 DEF AskOverride, Asks, Sends, Counts, settings, TurnTypes
<1>8. ASSUME NEW ts \in SUBSET Remote, NEW m \in {"inherit", "always_ask", "auto"},
             AskOverrideMany(ts, m)
      PROVE TurnTypes'
  BY <1>8 DEF AskOverrideMany, Asks, Sends, Counts, settings, TurnTypes
<1>9. ASSUME NEW m \in {"always_ask", "remember"}, SetMode(m) PROVE TurnTypes'
  BY <1>9 DEF SetMode, Disturbs, settings, TurnTypes
<1>10. ASSUME NEW m \in Modes \cup {"inherit"}, SetIntegrationMode(m) PROVE TurnTypes'
  BY <1>10 DEF SetIntegrationMode, Disturbs, settings, TurnTypes
<1>11. ASSUME NEW d \in Ttl, SetTtl(d) PROVE TurnTypes'
  BY <1>11 DEF SetTtl, settings, TurnTypes
<1>12. ASSUME Resolve PROVE TurnTypes'
  BY <1>12 DEF Resolve, settings, TurnTypes
<1>13. ASSUME ReadRow PROVE TurnTypes'
  BY <1>13 DEF ReadRow, settings, TurnTypes
<1>14. ASSUME WriteGrant PROVE TurnTypes'
  BY <1>14 DEF WriteGrant, Wrote, settings, TurnTypes
<1>15. ASSUME Forget PROVE TurnTypes'
  BY <1>15 DEF Forget, Wrote, settings, TurnTypes
<1>16. ASSUME WriteOverride PROVE TurnTypes'
  BY <1>16 DEF WriteOverride, Wrote, settings, TurnTypes
<1>17. ASSUME RequestOver PROVE TurnTypes'
  BY <1>17 DEF RequestOver, settings, TurnTypes
<1>18. ASSUME NEW f \in [Remote -> Version \cup {0}], ReplaceTools(f) PROVE TurnTypes'
  BY <1>18 DEF ReplaceTools, Disturbs, settings, TurnTypes
<1>19. ASSUME Reconnect PROVE TurnTypes'
  BY <1>19 DEF Reconnect, Disturbs, settings, TurnTypes
<1>20. ASSUME NextDay PROVE TurnTypes'
  BY <1>20 DEF NextDay, Disturbs, settings, TurnTypes
<1>21. ASSUME UNCHANGED approvalsVars PROVE TurnTypes'
  BY <1>21 DEF approvalsVars, settings, TurnTypes
<1>22. ASSUME LoadPage PROVE TurnTypes'
  BY <1>22 DEF LoadPage, settings, TurnTypes
<1> QED
  BY <1>1, <1>2, <1>3, <1>4, <1>5, <1>6, <1>7, <1>8, <1>9, <1>10, <1>11, <1>12, <1>13, <1>14,
     <1>15, <1>16, <1>17, <1>18, <1>19, <1>20, <1>21, <1>22
     DEF ApprovalsNext, ReaderTurn, ReaderAsks, RequestStep

(* A change of the settings leaves a request as it is, but for the promise. *)
LEMMA DisturbsRequest ==
  ASSUME RequestTypes, Disturbs
  PROVE  RequestTypes' /\ (request' = NoRequest \/ request'.kept = FALSE)
<1>1. CASE request = NoRequest \/ request.step = "done"
  <2>1. request' = NoRequest
    BY <1>1 DEF Disturbs, NoRequest
  <2>2. NoRequest \notin Remembering
    BY DEF NoRequest, Remembering, Step
  <2> QED
    BY <2>1, <2>2 DEF RequestTypes
<1>2. CASE request # NoRequest /\ request.step # "done"
  <2>1. request' = [request EXCEPT !.kept = FALSE] /\ request \in Remembering \cup Setting
    BY <1>2, RequestShape DEF Disturbs
  <2>2. request'.kept = FALSE /\ request'.tools = request.tools /\ request'.digest = request.digest
    BY <2>1, MoveFields
  <2>3. /\ request \in Remembering => request' \in Remembering
        /\ request \in Setting => request' \in Setting /\ request' \notin Remembering
    BY <2>1, RememberingMoves, SettingMoves DEF Remembering, Setting
  <2> QED
    BY <1>2, <2>1, <2>2, <2>3 DEF RequestTypes
<1> QED
  BY <1>1, <1>2

(* A new change of the settings promises nothing. *)
LEMMA AsksRequest ==
  ASSUME NEW kind \in {"forget", "inherit", "always_ask", "auto"}, NEW ts \in SUBSET Tool,
         NEW first \in Step \ {"done"}, Asks(kind, ts, first)
  PROVE  RequestTypes' /\ request' # NoRequest /\ request'.kept = FALSE
<1>1. request' = [step |-> first, kind |-> kind, tools |-> ts, digest |-> [u \in ts |-> 0],
                  kept |-> FALSE]
  BY DEF Asks, Sends
<1>2. [u \in ts |-> 0] \in [ts -> Version \cup {0}]
  OBVIOUS
<1>3. request' \in Setting
  BY <1>1, <1>2, DigestsHas DEF Setting
<1>4. request' \notin Remembering
  BY <1>1 DEF Remembering
<1>5. request' # NoRequest
  BY <1>1 DEF NoRequest, Step
<1> QED
  BY <1>1, <1>2, <1>3, <1>4, <1>5 DEF RequestTypes

(* A request that is over has its type, *)
LEMMA RequestGone ==
  ASSUME request' = NoRequest
  PROVE  RequestTypes'
<1>1. NoRequest \notin Remembering
  BY DEF NoRequest, Remembering, Step
<1> QED
  BY <1>1 DEF RequestTypes

(* and so has one that moves on. *)
LEMMA RequestMoves ==
  ASSUME RequestTypes, request # NoRequest, NEW st \in Step,
         request.kind # "remember" => st # "done",
         NEW f \in [request.tools -> Version \cup {0}],
         \/ request' = [request EXCEPT !.step = st]
         \/ request' = [request EXCEPT !.step = st, !.digest = f]
  PROVE  RequestTypes'
<1>1. request \in Remembering \cup Setting /\ request.tools \subseteq Tool
      /\ (request.kind = "remember" <=> request \in Remembering)
  BY RequestShape
<1>2. f \in Digests
  BY <1>1, DigestsHas
<1>3. request'.tools = request.tools /\ (request'.digest = request.digest \/ request'.digest = f)
  BY <1>1 DEF Remembering, Setting
<1>4. request \in Remembering => request' \in Remembering
  BY <1>2 DEF Remembering
<1>5. request \in Setting => request' \in Setting /\ request' \notin Remembering
  <2> SUFFICES ASSUME request \in Setting PROVE request' \in Setting /\ request' \notin Remembering
    OBVIOUS
  <2>1. st \in Step \ {"done"}
    BY DEF Setting
  <2>2. request' \in Setting
    BY <1>2, <2>1 DEF Setting
  <2> QED
    BY <2>2 DEF Setting, Remembering
<1> QED
  BY <1>1, <1>3, <1>4, <1>5 DEF RequestTypes

(* And the request. *)
LEMMA RequestTypesStep ==
  ASSUME ApprovalsWellFormed, SettingTypes, TurnTypes, RequestTypes, steady \in BOOLEAN,
         [ApprovalsNext]_approvalsVars
  PROVE  RequestTypes'
<1>1. ASSUME NEW s \in Session, BeginTurn(s) PROVE RequestTypes'
  BY <1>1 DEF BeginTurn, settings, RequestTypes
<1>2. ASSUME NEW p \in Parts, Read(p) PROVE RequestTypes'
  BY <1>2 DEF Read, settings, RequestTypes
<1>3. ASSUME GateFor PROVE RequestTypes'
  BY <1>3 DEF GateFor, settings, RequestTypes
<1>4. ASSUME EndTurn PROVE RequestTypes'
  BY <1>4 DEF EndTurn, settings, RequestTypes
<1>5. ASSUME NEW t \in Tool, NEW s \in Scope, NEW d \in Picks, AskRemember(t, s, d)
      PROVE RequestTypes'
  <2>1. /\ request' = [step |-> IF t \in Shipped THEN "row" ELSE "resolve", kind |-> "remember",
                       tools |-> {t}, scope |-> s, ttl |-> d, digest |-> [u \in {t} |-> 0],
                       session |-> turn.session, kept |-> steady]
        /\ turn.pc = "open"
    BY <1>5 DEF AskRemember, Sends
  <2>2. turn.session \in Session
    BY <2>1, TurnShape DEF Opened
  <2>3. [u \in {t} |-> 0] \in [{t} -> Version \cup {0}] /\ {t} \in SUBSET Tool
    OBVIOUS
  <2>4. request' \in Remembering
    BY <2>1, <2>2, <2>3, DigestsHas DEF Remembering, Step
  <2> QED
    BY <2>1, <2>3, <2>4 DEF RequestTypes
<1>6. ASSUME NEW t \in Tool, AskForget(t) PROVE RequestTypes'
  <2>1. \E first \in Step \ {"done"} : Asks("forget", {t}, first)
    BY <1>6 DEF AskForget, Step
  <2>2. {t} \in SUBSET Tool
    BY DEF Tool
  <2> QED
    BY <2>1, <2>2, AsksRequest
<1>7. ASSUME NEW t \in Tool, NEW m \in {"inherit", "always_ask", "auto"}, AskOverride(t, m)
      PROVE RequestTypes'
  <2>1. \E first \in Step \ {"done"} : Asks(m, {t}, first)
    BY <1>7 DEF AskOverride, Step
  <2>2. {t} \in SUBSET Tool
    BY DEF Tool
  <2> QED
    BY <2>1, <2>2, AsksRequest
<1>8. ASSUME NEW ts \in SUBSET Remote, NEW m \in {"inherit", "always_ask", "auto"},
             AskOverrideMany(ts, m)
      PROVE RequestTypes'
  <2>1. \E first \in Step \ {"done"} : Asks(m, ts, first)
    BY <1>8 DEF AskOverrideMany, Step
  <2>2. ts \in SUBSET Tool
    BY DEF Tool
  <2> QED
    BY <2>1, <2>2, AsksRequest
<1>9. ASSUME NEW m \in {"always_ask", "remember"}, SetMode(m) PROVE RequestTypes'
  BY <1>9, DisturbsRequest DEF SetMode
<1>10. ASSUME NEW m \in Modes \cup {"inherit"}, SetIntegrationMode(m) PROVE RequestTypes'
  BY <1>10, DisturbsRequest DEF SetIntegrationMode
<1>11. ASSUME NEW d \in Ttl, SetTtl(d) PROVE RequestTypes'
  BY <1>11 DEF SetTtl, settings, RequestTypes
<1>12. ASSUME Resolve PROVE RequestTypes'
  <2>1. CASE \A t \in request.tools : Catalog[t] # 0
    <3>1. request # NoRequest
      BY <1>12, RequestShape DEF Resolve
    <3>2. request.digest \in [request.tools -> Version \cup {0}]
      BY <3>1 DEF RequestTypes
    <3>3. \E st \in {"write", "row"} : request' = [request EXCEPT !.step = st]
      BY <1>12, <2>1 DEF Resolve
    <3> QED
      BY <3>1, <3>2, <3>3, RequestMoves DEF Step
  <2>2. CASE ~\A t \in request.tools : Catalog[t] # 0
    BY <1>12, <2>2, RequestGone DEF Resolve
  <2> QED
    BY <2>1, <2>2
<1>13. ASSUME ReadRow PROVE RequestTypes'
  <2>1. CASE \A t \in request.tools : RowDigest(t) # 0
    <3>1. request # NoRequest /\ request.tools \subseteq Tool
      BY <1>13, RequestShape DEF ReadRow
    <3>2. [t \in request.tools |-> RowDigest(t)] \in [request.tools -> Version \cup {0}]
      BY <3>1 DEF RowDigest, SettingTypes, Tool, ApprovalsWellFormed
    <3>3. request' = [request EXCEPT !.step = "write",
                                     !.digest = [t \in request.tools |-> RowDigest(t)]]
      BY <1>13, <2>1 DEF ReadRow
    <3> HIDE DEF RowDigest
    <3> QED
      BY <3>1, <3>2, <3>3, RequestMoves DEF Step
  <2>2. CASE ~\A t \in request.tools : RowDigest(t) # 0
    BY <1>13, <2>2, RequestGone DEF ReadRow
  <2> QED
    BY <2>1, <2>2
<1>14. ASSUME WriteGrant PROVE RequestTypes'
  <2>1. request' = [request EXCEPT !.step = "done"] /\ request.kind = "remember"
        /\ request # NoRequest
    BY <1>14, RequestShape DEF WriteGrant
  <2>2. request.digest \in [request.tools -> Version \cup {0}]
    BY <2>1 DEF RequestTypes
  <2> QED
    BY <2>1, <2>2, RequestMoves DEF Step
<1>15. ASSUME Forget PROVE RequestTypes'
  BY <1>15, RequestGone DEF Forget
<1>16. ASSUME WriteOverride PROVE RequestTypes'
  BY <1>16, RequestGone DEF WriteOverride
<1>17. ASSUME RequestOver PROVE RequestTypes'
  BY <1>17, RequestGone DEF RequestOver
<1>18. ASSUME NEW f \in [Remote -> Version \cup {0}], ReplaceTools(f) PROVE RequestTypes'
  BY <1>18, DisturbsRequest DEF ReplaceTools
<1>19. ASSUME Reconnect PROVE RequestTypes'
  BY <1>19, DisturbsRequest DEF Reconnect
<1>20. ASSUME NextDay PROVE RequestTypes'
  BY <1>20, DisturbsRequest DEF NextDay
<1>21. ASSUME UNCHANGED approvalsVars PROVE RequestTypes'
  BY <1>21 DEF approvalsVars, settings, RequestTypes
<1>22. ASSUME LoadPage PROVE RequestTypes'
  BY <1>22 DEF LoadPage, settings, RequestTypes
<1> QED
  BY <1>1, <1>2, <1>3, <1>4, <1>5, <1>6, <1>7, <1>8, <1>9, <1>10, <1>11, <1>12, <1>13, <1>14,
     <1>15, <1>16, <1>17, <1>18, <1>19, <1>20, <1>21, <1>22
     DEF ApprovalsNext, ReaderTurn, ReaderAsks, RequestStep

(* A history of what was shown goes on following the list of tools. *)
LEMMA RelistedFollows ==
  ASSUME ApprovalsWellFormed, NEW f \in [Remote -> Version \cup {0}], offered' = f,
         NEW h \in Seen, Follows(h), NEW g, g = Relisted(h, f)
  PROVE  /\ g \in Seen
         /\ \A t \in Tool : g[t] # {} /\ RowDigest(t)' # 0 => RowDigest(t)' \in g[t]
         /\ \A t \in Tool : h[t] \subseteq g[t]
<1>1. \A t \in Tool :
        g[t] = IF t \in Remote /\ h[t] # {} THEN h[t] \cup ({f[t]} \ {0}) ELSE h[t]
  BY DEF Relisted
<1>2. g \in [Tool -> SUBSET Version]
  BY DEF Relisted, Seen
<1>3. ASSUME NEW t \in Tool, g[t] # {}, RowDigest(t)' # 0 PROVE RowDigest(t)' \in g[t]
  <2>1. CASE t \in Remote
    BY <1>1, <1>3, <2>1 DEF RowDigest, ApprovalsWellFormed
  <2>2. CASE t \notin Remote
    BY <1>1, <1>3, <2>2 DEF RowDigest, Tool, Follows
  <2> QED
    BY <2>1, <2>2
<1>4. \A t \in Tool : h[t] \subseteq g[t]
  BY <1>1
<1> QED
  BY <1>2, <1>3, <1>4 DEF Seen

(* What is shown now is the list as it is, *)
LEMMA NowFollows ==
  ASSUME ApprovalsWellFormed, SettingTypes
  PROVE  Now \in Seen /\ Follows(Now) /\ \A t \in Tool : Catalog[t] # 0 => Now[t] # {}
<1>1. ASSUME NEW t \in Tool
      PROVE  RowDigest(t) \in Version \cup {0} /\ (Catalog[t] # 0 => RowDigest(t) # 0)
  BY <1>1 DEF Catalog, RowDigest, Tool, SettingTypes, ApprovalsWellFormed
<1>2. \A t \in Tool : Now[t] = {RowDigest(t)} \ {0}
  BY DEF Now
<1>3. Now \in Seen
  BY <1>1 DEF Now, Seen
<1> QED
  BY <1>1, <1>2, <1>3 DEF Follows

(* and nothing is what follows whatever comes. *)
LEMMA NothingFollows == Nothing \in Seen /\ Follows(Nothing)
BY DEF Nothing, Seen, Follows

(* A change of the settings leaves the digests of a request alone. *)
LEMMA BackedDisturbed ==
  ASSUME RequestTypes, Backed, Disturbs,
         \A t \in Tool : shown.request[t] \subseteq shown'.request[t]
  PROVE  Backed'
<1>1. CASE request = NoRequest \/ request.step = "done"
  BY <1>1 DEF Disturbs, NoRequest, Backed
<1>2. CASE request # NoRequest /\ request.step # "done"
  <2>1. request' = [request EXCEPT !.kept = FALSE] /\ request \in Remembering \cup Setting
        /\ request.tools \subseteq Tool
    BY <1>2, RequestShape DEF Disturbs
  <2>2. /\ request'.tools = request.tools /\ request'.digest = request.digest
        /\ request'.step = request.step /\ request'.kind = request.kind
    BY <2>1 DEF Remembering, Setting
  <2> QED
    BY <1>2, <2>1, <2>2 DEF Backed
<1> QED
  BY <1>1, <1>2

(* A request that is over stores nothing more. *)
LEMMA BackedOver ==
  ASSUME request' = NoRequest \/ request'.step = "done"
  PROVE  Backed'
BY DEF Backed

(* A step that moves neither the list nor what was shown, the turn nor the  *)
(* request.                                                                 *)
LEMMA ShownKept ==
  ASSUME ShownInv, UNCHANGED <<offered, turn, request, shown>>
  PROVE  ShownInv'
BY DEF ShownInv, Follows, RowDigest, Prompted, Backed

(* A step that leaves the list, and replaces what was shown. *)
LEMMA ShownSet ==
  ASSUME ShownInv, offered' = offered, NEW a \in Seen, NEW b \in Seen, NEW c \in Seen,
         Follows(a), Follows(b), Follows(c),
         shown' = [turn |-> a, page |-> b, request |-> c], Prompted', Backed'
  PROVE  ShownInv'
BY DEF ShownInv, Follows, RowDigest

(* What the parts of the history are. *)
LEMMA ShownFields ==
  ASSUME ShownInv
  PROVE  /\ shown = [turn |-> shown.turn, page |-> shown.page, request |-> shown.request]
         /\ shown.turn \in Seen /\ shown.page \in Seen /\ shown.request \in Seen
         /\ \A h : [shown EXCEPT !.turn = h] =
                     [turn |-> h, page |-> shown.page, request |-> shown.request]
         /\ \A h : [shown EXCEPT !.page = h] =
                     [turn |-> shown.turn, page |-> h, request |-> shown.request]
         /\ \A h : [shown EXCEPT !.request = h] =
                     [turn |-> shown.turn, page |-> shown.page, request |-> h]
         /\ Follows(shown.turn) /\ Follows(shown.page) /\ Follows(shown.request)
BY DEF ShownInv

(* A request is sent by a reader who was shown its tools. *)
LEMMA ShownSends ==
  ASSUME ShownInv, NEW q, NEW h \in Seen, Follows(h), Sends(q, h),
         q.step \in {"resolve", "row"}, \A t \in q.tools : h[t] # {}
  PROVE  ShownInv'
<1>1. /\ request' = q /\ offered' = offered /\ turn' = turn
      /\ shown' = [turn |-> shown.turn, page |-> shown.page, request |-> h]
  BY ShownFields DEF Sends
<1>2. Prompted'
  BY <1>1 DEF ShownInv, Prompted
<1>3. Backed'
  BY <1>1 DEF Backed
<1> QED
  BY <1>1, <1>2, <1>3, ShownFields, ShownSet

(* An answer that was written, or a request that failed. *)
LEMMA ShownOver ==
  ASSUME ShownInv, UNCHANGED <<offered, turn>>, shown' = [shown EXCEPT !.request = Nothing],
         request' = NoRequest \/ request'.step = "done"
  PROVE  ShownInv'
<1>1. shown' = [turn |-> shown.turn, page |-> shown.page, request |-> Nothing]
  BY ShownFields
<1>2. Prompted'
  BY <1>1 DEF ShownInv, Prompted
<1> QED
  BY <1>1, <1>2, ShownFields, ShownSet, NothingFollows, BackedOver

(* The digest a request stores is of a definition its reader was shown, or  *)
(* of one that took its place since.                                        *)
LEMMA ShownStep ==
  ASSUME ApprovalsWellFormed, SettingTypes, TurnTypes, RequestTypes, ShownInv,
         [ApprovalsNext]_approvalsVars
  PROVE  ShownInv'
<1>1. ASSUME NEW s \in Session, BeginTurn(s) PROVE ShownInv'
  <2>1. /\ shown' = [turn |-> Now, page |-> shown.page, request |-> shown.request]
        /\ UNCHANGED <<offered, request>> /\ turn'.catalog = Catalog
    BY <1>1, ShownFields DEF BeginTurn
  <2>2. Prompted' /\ Backed'
    BY <2>1, NowFollows DEF ShownInv, Prompted, Backed
  <2> QED
    BY <2>1, <2>2, ShownFields, ShownSet, NowFollows
<1>2. ASSUME NEW p \in Parts, Read(p) PROVE ShownInv'
  <2>1. /\ turn \in Reading /\ turn'.catalog = turn.catalog
        /\ UNCHANGED <<offered, request, shown>>
    BY <1>2, TurnShape DEF Read, Reading
  <2>2. turn.pc = "reading"
    BY <1>2 DEF Read
  <2> QED
    BY <2>1, <2>2 DEF ShownInv, Follows, RowDigest, Prompted, Backed
<1>3. ASSUME GateFor PROVE ShownInv'
  <2>1. /\ turn.pc = "reading" /\ turn'.catalog = turn.catalog
        /\ UNCHANGED <<offered, request, shown>>
    BY <1>3 DEF GateFor
  <2> QED
    BY <2>1 DEF ShownInv, Follows, RowDigest, Prompted, Backed
<1>4. ASSUME EndTurn PROVE ShownInv'
  <2>1. /\ shown' = [turn |-> Nothing, page |-> shown.page, request |-> shown.request]
        /\ UNCHANGED <<offered, request>> /\ turn'.pc = "none"
    BY <1>4, ShownFields DEF EndTurn, NoTurn
  <2>2. Prompted' /\ Backed'
    BY <2>1 DEF ShownInv, Prompted, Backed
  <2> QED
    BY <2>1, <2>2, ShownFields, ShownSet, NothingFollows
<1>5. ASSUME NEW t \in Tool, NEW s \in Scope, NEW d \in Picks, AskRemember(t, s, d)
      PROVE ShownInv'
  <2> DEFINE q == [step |-> IF t \in Shipped THEN "row" ELSE "resolve", kind |-> "remember",
                   tools |-> {t}, scope |-> s, ttl |-> d, digest |-> [u \in {t} |-> 0],
                   session |-> turn.session, kept |-> steady]
  <2>1. turn.pc = "open" /\ turn.catalog[t] # 0 /\ Sends(q, shown.turn)
    BY <1>5 DEF AskRemember, Offers
  <2>2. shown.turn[t] # {}
    BY <2>1 DEF ShownInv, Prompted
  <2>3. q.step \in {"resolve", "row"} /\ \A u \in q.tools : shown.turn[u] # {}
    BY <2>2
  <2> HIDE DEF q
  <2> QED
    BY <2>1, <2>3, ShownFields, ShownSends
<1>6. ASSUME NEW t \in Tool, AskForget(t) PROVE ShownInv'
  <2>1. /\ shown' = [turn |-> shown.turn, page |-> shown.page, request |-> shown.page]
        /\ UNCHANGED <<offered, turn>> /\ request'.kind = "forget"
    BY <1>6, ShownFields DEF AskForget, Asks, Sends
  <2>2. Prompted' /\ Backed'
    BY <2>1 DEF ShownInv, Prompted, Backed
  <2> QED
    BY <2>1, <2>2, ShownFields, ShownSet
<1>7. ASSUME NEW t \in Tool, NEW m \in {"inherit", "always_ask", "auto"}, AskOverride(t, m)
      PROVE ShownInv'
  <2> DEFINE q == [step |-> IF t \in Shipped THEN "row" ELSE "resolve", kind |-> m,
                   tools |-> {t}, digest |-> [u \in {t} |-> 0], kept |-> FALSE]
  <2>1. shown.page[t] # {} /\ Sends(q, shown.page)
    BY <1>7 DEF AskOverride, Asks, OnPage
  <2>2. q.step \in {"resolve", "row"} /\ \A u \in q.tools : shown.page[u] # {}
    BY <2>1
  <2> HIDE DEF q
  <2> QED
    BY <2>1, <2>2, ShownFields, ShownSends
<1>8. ASSUME NEW ts \in SUBSET Remote, NEW m \in {"inherit", "always_ask", "auto"},
             AskOverrideMany(ts, m)
      PROVE ShownInv'
  <2> DEFINE q == [step |-> "row", kind |-> m, tools |-> ts, digest |-> [u \in ts |-> 0],
                   kept |-> FALSE]
  <2>1. Sends(q, shown.page) /\ \A u \in ts : shown.page[u] # {}
    BY <1>8 DEF AskOverrideMany, Asks, OnPage
  <2>2. q.step \in {"resolve", "row"} /\ \A u \in q.tools : shown.page[u] # {}
    BY <2>1
  <2> HIDE DEF q
  <2> QED
    BY <2>1, <2>2, ShownFields, ShownSends
<1>9. ASSUME Disturbs, UNCHANGED <<offered, shown>> PROVE ShownInv'
  <2>1. turn' = turn /\ Backed'
    BY <1>9, BackedDisturbed DEF Disturbs, ShownInv
  <2>2. Prompted'
    BY <1>9, <2>1 DEF ShownInv, Prompted
  <2> QED
    BY <1>9, <2>1, <2>2 DEF ShownInv, Follows, RowDigest
<1>10. ASSUME NEW d \in Ttl, SetTtl(d) PROVE ShownInv'
  BY <1>10, ShownKept DEF SetTtl
<1>11. ASSUME LoadPage PROVE ShownInv'
  <2>1. /\ shown' = [turn |-> shown.turn, page |-> Now, request |-> shown.request]
        /\ UNCHANGED <<offered, turn, request>>
    BY <1>11, ShownFields DEF LoadPage
  <2>2. Prompted' /\ Backed'
    BY <2>1 DEF ShownInv, Prompted, Backed
  <2> QED
    BY <2>1, <2>2, ShownFields, ShownSet, NowFollows
<1>12. ASSUME Resolve PROVE ShownInv'
  <2>1. UNCHANGED <<offered, turn, shown>> /\ request.step = "resolve"
    BY <1>12 DEF Resolve
  <2>2. request # NoRequest /\ request \in Remembering \cup Setting
    BY <2>1, RequestShape
  <2>3. Backed'
    <3>1. CASE request' = NoRequest
      BY <3>1, BackedOver
    <3>2. CASE request' # NoRequest
      <4>1. request' = [request EXCEPT !.step = IF request.kind = "forget" THEN "write" ELSE "row"]
        BY <1>12, <3>2 DEF Resolve
      <4>2. /\ request'.tools = request.tools /\ request'.kind = request.kind
            /\ request.kind # "forget" => request'.step = "row"
        BY <2>2, <4>1 DEF Remembering, Setting
      <4> QED
        BY <2>1, <2>2, <4>2 DEF ShownInv, Backed
    <3> QED
      BY <3>1, <3>2
  <2>4. Prompted'
    BY <2>1 DEF ShownInv, Prompted
  <2> QED
    BY <2>1, <2>3, <2>4 DEF ShownInv, Follows, RowDigest
<1>13. ASSUME ReadRow PROVE ShownInv'
  <2>1. UNCHANGED <<offered, turn, shown>> /\ request.step = "row"
    BY <1>13 DEF ReadRow
  <2>2. request # NoRequest /\ request \in Remembering \cup Setting /\ request.tools \subseteq Tool
    BY <2>1, RequestShape
  <2>3. Backed'
    <3>1. CASE request' = NoRequest
      BY <3>1, BackedOver
    <3>2. CASE request' # NoRequest
      <4>1. /\ \A t \in request.tools : RowDigest(t) # 0
            /\ request' = [request EXCEPT !.step = "write",
                                          !.digest = [t \in request.tools |-> RowDigest(t)]]
        BY <1>13, <3>2 DEF ReadRow
      <4>2. /\ request'.tools = request.tools /\ request'.kind = request.kind
            /\ request'.digest = [t \in request.tools |-> RowDigest(t)]
        BY <2>2, <4>1 DEF Remembering, Setting
      <4>3. ASSUME request.kind # "forget", NEW t \in request.tools
            PROVE  shown.request[t] # {} /\ RowDigest(t) \in shown.request[t]
        BY <2>1, <2>2, <4>1, <4>3 DEF ShownInv, Backed, Follows
      <4> QED
        BY <2>1, <4>2, <4>3 DEF Backed
    <3> QED
      BY <3>1, <3>2
  <2>4. Prompted'
    BY <2>1 DEF ShownInv, Prompted
  <2> QED
    BY <2>1, <2>3, <2>4 DEF ShownInv, Follows, RowDigest
<1>14. ASSUME WriteGrant PROVE ShownInv'
  <2>1. /\ UNCHANGED <<offered, turn>> /\ shown' = [shown EXCEPT !.request = Nothing]
        /\ request' = [request EXCEPT !.step = "done"] /\ request.step = "write"
    BY <1>14 DEF WriteGrant, Wrote
  <2>2. request'.step = "done"
    BY <2>1, RequestShape DEF Remembering, Setting
  <2> QED
    BY <2>1, <2>2, ShownOver
<1>15. ASSUME Forget PROVE ShownInv'
  BY <1>15, ShownOver DEF Forget, Wrote
<1>16. ASSUME WriteOverride PROVE ShownInv'
  BY <1>16, ShownOver DEF WriteOverride, Wrote
<1>17. ASSUME RequestOver PROVE ShownInv'
  BY <1>17, ShownOver DEF RequestOver
<1>18. ASSUME NEW f \in [Remote -> Version \cup {0}], ReplaceTools(f) PROVE ShownInv'
  <2>1. /\ offered' = f /\ Disturbs /\ turn' = turn
        /\ shown' = [turn |-> Relisted(shown.turn, f), page |-> Relisted(shown.page, f),
                     request |-> Relisted(shown.request, f)]
    BY <1>18 DEF ReplaceTools, Disturbs
  <2>2. /\ shown'.turn \in Seen /\ Follows(shown.turn)'
        /\ \A t \in Tool : shown.turn[t] \subseteq shown'.turn[t]
    BY <2>1, ShownFields, RelistedFollows DEF Follows
  <2>3. shown'.page \in Seen /\ Follows(shown.page)'
    BY <2>1, ShownFields, RelistedFollows DEF Follows
  <2>4. /\ shown'.request \in Seen /\ Follows(shown.request)'
        /\ \A t \in Tool : shown.request[t] \subseteq shown'.request[t]
    BY <2>1, ShownFields, RelistedFollows DEF Follows
  <2>5. Backed'
    BY <2>1, <2>4, BackedDisturbed DEF ShownInv
  <2>6. Prompted'
    BY <2>1, <2>2 DEF ShownInv, Prompted
  <2>7. shown' \in [turn : Seen, page : Seen, request : Seen]
    BY <2>1, <2>2, <2>3, <2>4
  <2> QED
    BY <2>2, <2>3, <2>4, <2>5, <2>6, <2>7 DEF ShownInv, Seen
<1>19. ASSUME UNCHANGED approvalsVars PROVE ShownInv'
  BY <1>19, ShownKept DEF approvalsVars
<1> QED
  BY <1>1, <1>2, <1>3, <1>4, <1>5, <1>6, <1>7, <1>8, <1>9, <1>10, <1>11, <1>12, <1>13, <1>14,
     <1>15, <1>16, <1>17, <1>18, <1>19
     DEF ApprovalsNext, ReaderTurn, ReaderAsks, RequestStep, SetMode, SetIntegrationMode,
         Reconnect, NextDay

(* A step that writes neither override nor grant keeps ConsentInv. *)
LEMMA ConsentKept ==
  ASSUME ConsentInv, UNCHANGED <<override, grant, consent>>
  PROVE  ConsentInv'
BY DEF ConsentInv, Agreed

(* What is agreed to. *)
LEMMA AgreedFields ==
  ASSUME NEW t, NEW k, NEW v
  PROVE  Agreed(t, k, v).tool = t /\ Agreed(t, k, v).key = k /\ Agreed(t, k, v).digest = v
BY DEF Agreed

(* What stands in the settings was agreed to and not withdrawn. *)
LEMMA ConsentStep ==
  ASSUME ApprovalsWellFormed, SettingTypes, RequestTypes, ShownInv, ConsentInv,
         [ApprovalsNext]_approvalsVars
  PROVE  ConsentInv'
<1>1. ASSUME NEW s \in Session, BeginTurn(s) PROVE ConsentInv'
  BY <1>1, ConsentKept DEF BeginTurn, settings
<1>2. ASSUME NEW p \in Parts, Read(p) PROVE ConsentInv'
  BY <1>2, ConsentKept DEF Read, settings
<1>3. ASSUME GateFor PROVE ConsentInv'
  BY <1>3, ConsentKept DEF GateFor, settings
<1>4. ASSUME EndTurn PROVE ConsentInv'
  BY <1>4, ConsentKept DEF EndTurn, settings
<1>5. ASSUME NEW t \in Tool, NEW s \in Scope, NEW d \in Picks, AskRemember(t, s, d)
      PROVE ConsentInv'
  BY <1>5, ConsentKept DEF AskRemember, Sends, Counts, settings
<1>6. ASSUME NEW t \in Tool, AskForget(t) PROVE ConsentInv'
  BY <1>6, ConsentKept DEF AskForget, Asks, Sends, Counts, settings
<1>7. ASSUME NEW t \in Tool, NEW m \in {"inherit", "always_ask", "auto"}, AskOverride(t, m)
      PROVE ConsentInv'
  BY <1>7, ConsentKept DEF AskOverride, Asks, Sends, Counts, settings
<1>8. ASSUME NEW ts \in SUBSET Remote, NEW m \in {"inherit", "always_ask", "auto"},
             AskOverrideMany(ts, m)
      PROVE ConsentInv'
  BY <1>8, ConsentKept DEF AskOverrideMany, Asks, Sends, Counts, settings
<1>9. ASSUME NEW m \in {"always_ask", "remember"}, SetMode(m) PROVE ConsentInv'
  BY <1>9, ConsentKept DEF SetMode, Disturbs, settings
<1>10. ASSUME NEW m \in Modes \cup {"inherit"}, SetIntegrationMode(m) PROVE ConsentInv'
  BY <1>10, ConsentKept DEF SetIntegrationMode, Disturbs, settings
<1>11. ASSUME NEW d \in Ttl, SetTtl(d) PROVE ConsentInv'
  BY <1>11, ConsentKept DEF SetTtl, settings
<1>12. ASSUME Resolve PROVE ConsentInv'
  BY <1>12, ConsentKept DEF Resolve, settings
<1>13. ASSUME ReadRow PROVE ConsentInv'
  BY <1>13, ConsentKept DEF ReadRow, settings
<1>14. ASSUME WriteGrant PROVE ConsentInv'
  <2> DEFINE t == CHOOSE u \in request.tools : TRUE
             d == IF request.ttl = "preference" THEN ttlFor ELSE request.ttl
             g == [digest |-> request.digest[t], ends |-> IF d = "day" THEN day + 1 ELSE 0]
  <2>1. /\ grant' = [grant EXCEPT ![<<t, request.scope>>] = g] /\ override' = override
        /\ consent' = Without(t, {request.scope}) \cup Agreements({t}, request.scope)
        /\ request.step = "write" /\ request.kind = "remember"
    BY <1>14 DEF WriteGrant, Wrote
  <2>2. request \in Remembering /\ request # NoRequest /\ request.tools \subseteq Tool
    BY <2>1, RequestShape
  <2>3. t \in request.tools /\ t \in Tool /\ request.scope \in Scope
    BY <2>2 DEF RequestTypes, Remembering
  <2>4. request.digest[t] \in shown.request[t]
    BY <2>1, <2>2, <2>3 DEF ShownInv, Backed
  <2>5. g.digest = request.digest[t]
    OBVIOUS
  <2> HIDE DEF t, g
  <2>6. Agreed(t, request.scope, g.digest) \in Agreements({t}, request.scope)
    BY <2>4, <2>5 DEF Agreements
  <2>7. \A u \in Tool : \A k, v : Agreed(u, k, v) \in consent /\ (u # t \/ k # request.scope)
          => Agreed(u, k, v) \in consent'
    BY <2>1, AgreedFields DEF Without
  <2>8. \A u \in Tool : override'[u].mode = "auto" =>
          Agreed(u, "override", override'[u].digest) \in consent'
    BY <2>1, <2>3, <2>7 DEF ConsentInv, ApprovalsWellFormed, Scope
  <2>9. ASSUME NEW u \in Tool, NEW k \in Scope, grant'[<<u, k>>] # NoGrant
        PROVE  Agreed(u, k, grant'[<<u, k>>].digest) \in consent'
    <3>1. CASE u = t /\ k = request.scope
      BY <2>1, <2>3, <2>6, <3>1 DEF SettingTypes
    <3>2. CASE u # t \/ k # request.scope
      <4>1. grant'[<<u, k>>] = grant[<<u, k>>]
        BY <2>1, <3>2 DEF SettingTypes
      <4> QED
        BY <2>7, <2>9, <3>2, <4>1 DEF ConsentInv
    <3> QED
      BY <3>1, <3>2
  <2> QED
    BY <2>8, <2>9 DEF ConsentInv, Agreed
<1>15. ASSUME Forget PROVE ConsentInv'
  <2> DEFINE t == CHOOSE u \in request.tools : TRUE
  <2>1. /\ grant' = [k \in DOMAIN grant |-> IF k[1] = t THEN NoGrant ELSE grant[k]]
        /\ override' = override /\ consent' = Without(t, Scope)
    BY <1>15 DEF Forget, Wrote
  <2> HIDE DEF t
  <2>2. \A u \in Tool : \A k, v : Agreed(u, k, v) \in consent /\ (u # t \/ k \notin Scope)
          => Agreed(u, k, v) \in consent'
    BY <2>1, AgreedFields DEF Without
  <2>3. \A u \in Tool : override'[u].mode = "auto" =>
          Agreed(u, "override", override'[u].digest) \in consent'
    BY <2>1, <2>2 DEF ConsentInv, ApprovalsWellFormed, Scope
  <2>4. ASSUME NEW u \in Tool, NEW k \in Scope, grant'[<<u, k>>] # NoGrant
        PROVE  Agreed(u, k, grant'[<<u, k>>].digest) \in consent'
    <3>1. u # t /\ grant'[<<u, k>>] = grant[<<u, k>>]
      BY <2>1, <2>4 DEF SettingTypes
    <3> QED
      BY <2>2, <2>4, <3>1 DEF ConsentInv
  <2> QED
    BY <2>3, <2>4 DEF ConsentInv, Agreed
<1>16. ASSUME WriteOverride PROVE ConsentInv'
  <2> DEFINE agreed == IF request.kind = "auto" THEN Agreements(request.tools, "override") ELSE {}
  <2>1. /\ request.step = "write" /\ request.kind \in {"inherit", "always_ask", "auto"}
        /\ override' = [t \in Tool |->
             IF t \notin request.tools THEN override[t]
             ELSE [mode |-> request.kind,
                   digest |-> IF request.kind = "auto" THEN request.digest[t] ELSE 0]]
        /\ consent' = {c \in consent : c.tool \notin request.tools \/ c.key # "override"} \cup agreed
        /\ grant' = grant
    BY <1>16 DEF WriteOverride, Wrote
  <2>2. \A u \in Tool : \A k, v :
          Agreed(u, k, v) \in consent /\ (u \notin request.tools \/ k # "override")
          => Agreed(u, k, v) \in consent'
    BY <2>1, AgreedFields
  <2>3. ASSUME NEW u \in Tool, override'[u].mode = "auto"
        PROVE  Agreed(u, "override", override'[u].digest) \in consent'
    <3>1. CASE u \in request.tools
      <4>1. override'[u] = [mode |-> request.kind,
                            digest |-> IF request.kind = "auto" THEN request.digest[u] ELSE 0]
        BY <2>1, <3>1
      <4>2. request.kind = "auto" /\ override'[u].digest = request.digest[u]
        BY <2>3, <4>1
      <4>3. request # NoRequest
        BY <2>1, RequestShape
      <4>4. request.digest[u] \in shown.request[u]
        BY <2>1, <3>1, <4>2, <4>3 DEF ShownInv, Backed
      <4>5. Agreed(u, "override", request.digest[u]) \in agreed
        BY <3>1, <4>2, <4>4 DEF Agreements
      <4> QED
        BY <2>1, <4>2, <4>5
    <3>2. CASE u \notin request.tools
      BY <2>1, <2>2, <2>3, <3>2 DEF ConsentInv
    <3> QED
      BY <3>1, <3>2
  <2>4. \A u \in Tool, k \in Scope : grant'[<<u, k>>] # NoGrant =>
          Agreed(u, k, grant'[<<u, k>>].digest) \in consent'
    BY <2>1, <2>2 DEF ConsentInv, ApprovalsWellFormed, Scope
  <2> QED
    BY <2>3, <2>4 DEF ConsentInv, Agreed
<1>17. ASSUME RequestOver PROVE ConsentInv'
  BY <1>17, ConsentKept DEF RequestOver, settings
<1>18. ASSUME NEW f \in [Remote -> Version \cup {0}], ReplaceTools(f) PROVE ConsentInv'
  BY <1>18, ConsentKept DEF ReplaceTools, Disturbs, settings
<1>19. ASSUME Reconnect PROVE ConsentInv'
  BY <1>19, ConsentKept DEF Reconnect, Disturbs, settings
<1>20. ASSUME NextDay PROVE ConsentInv'
  BY <1>20, ConsentKept DEF NextDay, Disturbs, settings
<1>21. ASSUME UNCHANGED approvalsVars PROVE ConsentInv'
  BY <1>21, ConsentKept DEF approvalsVars, settings
<1>22. ASSUME LoadPage PROVE ConsentInv'
  BY <1>22, ConsentKept DEF LoadPage, settings
<1> QED
  BY <1>1, <1>2, <1>3, <1>4, <1>5, <1>6, <1>7, <1>8, <1>9, <1>10, <1>11, <1>12, <1>13, <1>14,
     <1>15, <1>16, <1>17, <1>18, <1>19, <1>20, <1>21, <1>22
     DEF ApprovalsNext, ReaderTurn, ReaderAsks, RequestStep

(* A step that leaves the turn alone keeps ReadInv. *)
LEMMA ReadKept ==
  ASSUME ReadInv, turn' = turn, stood \subseteq stood',
         turn.pc = "reading" => consent' \subseteq stood'
  PROVE  ReadInv'
<1> SUFFICES ASSUME turn.pc = "reading" PROVE ReadInv'
  BY DEF ReadInv
<1>1. \A t, k, v : Agreed(t, k, v)' = Agreed(t, k, v)
  BY DEF Agreed
<1>2. \A x : x \in stood => x \in stood'
  OBVIOUS
<1>3. "overrides" \notin turn.unread =>
        \A t \in Tool : turn.overrides[t].mode = "auto" =>
          Agreed(t, "override", turn.overrides[t].digest) \in stood'
  BY <1>2 DEF ReadInv
<1>4. "grants" \notin turn.unread =>
        \A t \in Tool : \A g \in turn.grants[t] :
          \E k \in {turn.session, Everywhere} : Agreed(t, k, g.digest) \in stood'
  BY <1>2 DEF ReadInv
<1> QED
  BY <1>3, <1>4 DEF ReadInv, Agreed

(* What a turn has read was agreed to at some moment of its reads. *)
LEMMA ReadStep ==
  ASSUME SettingTypes, TurnTypes, ConsentInv, ReadInv, [ApprovalsNext]_approvalsVars
  PROVE  ReadInv'
<1>1. ASSUME NEW s \in Session, BeginTurn(s) PROVE ReadInv'
  <2>1. /\ turn' = [pc |-> "reading", session |-> s, catalog |-> Catalog, unread |-> Parts,
                    mode |-> "unread", settings |-> "unread", overrides |-> <<>>, grants |-> <<>>]
        /\ stood' = consent /\ consent' = consent
    BY <1>1 DEF BeginTurn
  <2>2. turn'.unread = Parts
    BY <2>1
  <2> QED
    BY <2>1, <2>2 DEF ReadInv, Parts
<1>2. ASSUME NEW p \in Parts, Read(p) PROVE ReadInv'
  <2>1. turn \in Reading /\ turn.pc = "reading" /\ p \in turn.unread
        /\ UNCHANGED <<consent, stood>>
    BY <1>2, TurnShape DEF Read
  <2>2. /\ turn'.unread = turn.unread \ {p} /\ turn'.session = turn.session
        /\ turn'.mode = IF p = "mode" THEN readerMode ELSE turn.mode
        /\ turn'.settings = IF p = "settings" THEN integrationMode ELSE turn.settings
        /\ turn'.overrides = IF p = "overrides" THEN override ELSE turn.overrides
        /\ turn'.grants = IF p = "grants" THEN GrantsFor(turn.session) ELSE turn.grants
    BY <1>2, <2>1 DEF Read, Reading
  <2>3. consent \subseteq stood
    BY <2>1 DEF ReadInv
  <2>4. "mode" \notin turn'.unread => turn'.mode # "unread"
    BY <2>1, <2>2 DEF ReadInv, SettingTypes
  <2>5. "settings" \notin turn'.unread => turn'.settings # "unread"
    BY <2>1, <2>2 DEF ReadInv, SettingTypes, Modes
  <2>6. "overrides" \notin turn'.unread =>
          /\ turn'.overrides \in [Tool -> Override]
          /\ \A t \in Tool : turn'.overrides[t].mode = "auto" =>
               Agreed(t, "override", turn'.overrides[t].digest) \in stood
    <3>1. CASE p = "overrides"
      BY <2>2, <2>3, <3>1 DEF ConsentInv, SettingTypes
    <3>2. CASE p # "overrides"
      BY <2>1, <2>2, <3>2 DEF ReadInv
    <3> QED
      BY <3>1, <3>2
  <2>7. "grants" \notin turn'.unread =>
          /\ turn'.grants \in [Tool -> SUBSET Grant]
          /\ \A t \in Tool : \A g \in turn'.grants[t] :
               \E k \in {turn.session, Everywhere} : Agreed(t, k, g.digest) \in stood
    <3>1. CASE p = "grants"
      <4>1. turn.session \in Session
        BY <2>1 DEF Reading
      <4>2. turn'.grants \in [Tool -> SUBSET Grant]
        BY <2>2, <3>1, <4>1, GrantsForType
      <4>3. ASSUME NEW t \in Tool, NEW g \in turn'.grants[t]
            PROVE  \E k \in {turn.session, Everywhere} : Agreed(t, k, g.digest) \in stood
        <5>1. PICK k \in {turn.session, Everywhere} : g = grant[<<t, k>>] /\ g # NoGrant
          BY <2>2, <3>1, <4>3 DEF GrantsFor
        <5> QED
          BY <2>3, <4>1, <5>1 DEF ConsentInv, Scope
      <4> QED
        BY <4>2, <4>3
    <3>2. CASE p # "grants"
      BY <2>1, <2>2, <3>2 DEF ReadInv
    <3> QED
      BY <3>1, <3>2
  <2> QED
    BY <2>1, <2>2, <2>3, <2>4, <2>5, <2>6, <2>7 DEF ReadInv, Agreed
<1>3. ASSUME GateFor PROVE ReadInv'
  <2>1. turn'.pc = "open"
    BY <1>3 DEF GateFor
  <2> QED
    BY <2>1 DEF ReadInv
<1>4. ASSUME EndTurn PROVE ReadInv'
  <2>1. turn'.pc = "none"
    BY <1>4 DEF EndTurn, NoTurn
  <2> QED
    BY <2>1 DEF ReadInv
<1>5. ASSUME NEW t \in Tool, NEW s \in Scope, NEW d \in Picks, AskRemember(t, s, d)
      PROVE ReadInv'
  <2>1. UNCHANGED <<turn, consent, stood>>
    BY <1>5 DEF AskRemember, Sends, Counts, settings
  <2>2. turn.pc = "reading" => consent \subseteq stood
    BY DEF ReadInv
  <2> QED
    BY <2>1, <2>2, ReadKept
<1>6. ASSUME NEW t \in Tool, AskForget(t) PROVE ReadInv'
  <2>1. UNCHANGED <<turn, consent, stood>>
    BY <1>6 DEF AskForget, Asks, Sends, Counts, settings
  <2>2. turn.pc = "reading" => consent \subseteq stood
    BY DEF ReadInv
  <2> QED
    BY <2>1, <2>2, ReadKept
<1>7. ASSUME NEW t \in Tool, NEW m \in {"inherit", "always_ask", "auto"}, AskOverride(t, m)
      PROVE ReadInv'
  <2>1. UNCHANGED <<turn, consent, stood>>
    BY <1>7 DEF AskOverride, Asks, Sends, Counts, settings
  <2>2. turn.pc = "reading" => consent \subseteq stood
    BY DEF ReadInv
  <2> QED
    BY <2>1, <2>2, ReadKept
<1>8. ASSUME NEW ts \in SUBSET Remote, NEW m \in {"inherit", "always_ask", "auto"},
             AskOverrideMany(ts, m)
      PROVE ReadInv'
  <2>1. UNCHANGED <<turn, consent, stood>>
    BY <1>8 DEF AskOverrideMany, Asks, Sends, Counts, settings
  <2>2. turn.pc = "reading" => consent \subseteq stood
    BY DEF ReadInv
  <2> QED
    BY <2>1, <2>2, ReadKept
<1>9. ASSUME NEW m \in {"always_ask", "remember"}, SetMode(m) PROVE ReadInv'
  <2>1. UNCHANGED <<turn, consent, stood>>
    BY <1>9 DEF SetMode, Disturbs, settings
  <2>2. turn.pc = "reading" => consent \subseteq stood
    BY DEF ReadInv
  <2> QED
    BY <2>1, <2>2, ReadKept
<1>10. ASSUME NEW m \in Modes \cup {"inherit"}, SetIntegrationMode(m) PROVE ReadInv'
  <2>1. UNCHANGED <<turn, consent, stood>>
    BY <1>10 DEF SetIntegrationMode, Disturbs, settings
  <2>2. turn.pc = "reading" => consent \subseteq stood
    BY DEF ReadInv
  <2> QED
    BY <2>1, <2>2, ReadKept
<1>11. ASSUME NEW d \in Ttl, SetTtl(d) PROVE ReadInv'
  <2>1. UNCHANGED <<turn, consent, stood>>
    BY <1>11 DEF SetTtl, settings
  <2>2. turn.pc = "reading" => consent \subseteq stood
    BY DEF ReadInv
  <2> QED
    BY <2>1, <2>2, ReadKept
<1>12. ASSUME Resolve PROVE ReadInv'
  <2>1. UNCHANGED <<turn, consent, stood>>
    BY <1>12 DEF Resolve, settings
  <2>2. turn.pc = "reading" => consent \subseteq stood
    BY DEF ReadInv
  <2> QED
    BY <2>1, <2>2, ReadKept
<1>13. ASSUME ReadRow PROVE ReadInv'
  <2>1. UNCHANGED <<turn, consent, stood>>
    BY <1>13 DEF ReadRow, settings
  <2>2. turn.pc = "reading" => consent \subseteq stood
    BY DEF ReadInv
  <2> QED
    BY <2>1, <2>2, ReadKept
<1>14. ASSUME WriteGrant PROVE ReadInv'
  <2>1. \E c : Wrote(c) /\ turn' = turn
    BY <1>14 DEF WriteGrant
  <2>2. stood \subseteq stood' /\ (turn.pc = "reading" => consent' \subseteq stood')
    BY <2>1 DEF Wrote
  <2> QED
    BY <2>1, <2>2, ReadKept
<1>15. ASSUME Forget PROVE ReadInv'
  <2>1. \E c : Wrote(c) /\ turn' = turn
    BY <1>15 DEF Forget
  <2>2. stood \subseteq stood' /\ (turn.pc = "reading" => consent' \subseteq stood')
    BY <2>1 DEF Wrote
  <2> QED
    BY <2>1, <2>2, ReadKept
<1>16. ASSUME WriteOverride PROVE ReadInv'
  <2>1. \E c : Wrote(c) /\ turn' = turn
    BY <1>16 DEF WriteOverride
  <2>2. stood \subseteq stood' /\ (turn.pc = "reading" => consent' \subseteq stood')
    BY <2>1 DEF Wrote
  <2> QED
    BY <2>1, <2>2, ReadKept
<1>17. ASSUME RequestOver PROVE ReadInv'
  <2>1. UNCHANGED <<turn, consent, stood>>
    BY <1>17 DEF RequestOver, settings
  <2>2. turn.pc = "reading" => consent \subseteq stood
    BY DEF ReadInv
  <2> QED
    BY <2>1, <2>2, ReadKept
<1>18. ASSUME NEW f \in [Remote -> Version \cup {0}], ReplaceTools(f) PROVE ReadInv'
  <2>1. UNCHANGED <<turn, consent, stood>>
    BY <1>18 DEF ReplaceTools, Disturbs, settings
  <2>2. turn.pc = "reading" => consent \subseteq stood
    BY DEF ReadInv
  <2> QED
    BY <2>1, <2>2, ReadKept
<1>19. ASSUME Reconnect PROVE ReadInv'
  <2>1. UNCHANGED <<turn, consent, stood>>
    BY <1>19 DEF Reconnect, Disturbs, settings
  <2>2. turn.pc = "reading" => consent \subseteq stood
    BY DEF ReadInv
  <2> QED
    BY <2>1, <2>2, ReadKept
<1>20. ASSUME NextDay PROVE ReadInv'
  <2>1. UNCHANGED <<turn, consent, stood>>
    BY <1>20 DEF NextDay, Disturbs, settings
  <2>2. turn.pc = "reading" => consent \subseteq stood
    BY DEF ReadInv
  <2> QED
    BY <2>1, <2>2, ReadKept
<1>21. ASSUME UNCHANGED approvalsVars PROVE ReadInv'
  <2>1. UNCHANGED <<turn, consent, stood>>
    BY <1>21 DEF approvalsVars, settings
  <2>2. turn.pc = "reading" => consent \subseteq stood
    BY DEF ReadInv
  <2> QED
    BY <2>1, <2>2, ReadKept
<1>22. ASSUME LoadPage PROVE ReadInv'
  <2>1. UNCHANGED <<turn, consent, stood>>
    BY <1>22 DEF LoadPage, settings
  <2>2. turn.pc = "reading" => consent \subseteq stood
    BY DEF ReadInv
  <2> QED
    BY <2>1, <2>2, ReadKept
<1> QED
  BY <1>1, <1>2, <1>3, <1>4, <1>5, <1>6, <1>7, <1>8, <1>9, <1>10, <1>11, <1>12, <1>13, <1>14,
     <1>15, <1>16, <1>17, <1>18, <1>19, <1>20, <1>21, <1>22
     DEF ApprovalsNext, ReaderTurn, ReaderAsks, RequestStep

(* decideToolApproval allows an askable tool by its override, or by the     *)
(* mode or a live grant when it has none and is not destructive.            *)
LEMMA DecideAllows ==
  ASSUME NEW r, Decide(r) = "allow", r.policy \in {"auto", "askable", "always"}
  PROVE  \/ r.policy = "auto"
         \/ r.override.mode = "auto" /\ r.override.digest = r.digest
         \/ ~r.destructive /\ ModePosture(r.mode) = "allow"
         \/ ~r.destructive /\ \E g \in r.grants : g.digest = r.digest
<1>1. CASE r.policy # "askable"
  BY <1>1 DEF Decide
<1>2. CASE r.policy = "askable" /\ r.override.mode # "inherit"
  BY <1>2 DEF Decide
<1>3. CASE r.policy = "askable" /\ r.override.mode = "inherit"
  BY <1>3 DEF Decide
<1> QED
  BY <1>1, <1>2, <1>3

(* A tool's policy is one of three. *)
LEMMA PolicyTypes ==
  ASSUME ApprovalsWellFormed, NEW t \in Tool
  PROVE  PolicyOf(t) \in {"auto", "askable", "always"}
BY DEF ApprovalsWellFormed, PolicyOf, Tool

(* The gate that is built from backed reads allows only what they back.     *)
LEMMA GateForStands ==
  ASSUME ApprovalsWellFormed, TurnTypes, ReadInv, GateFor
  PROVE  ConsentStands'
<1>1. /\ turn \in Reading /\ turn.pc = "reading" /\ turn.unread = {} /\ stood' = stood
      /\ turn' = [pc |-> "open", session |-> turn.session, catalog |-> turn.catalog,
                  settings |-> turn.settings,
                  allows |-> {t \in Tool : Offers(t) /\ Decide(TurnPosture(t)) = "allow"},
                  rememberable |-> {t \in Tool : Offers(t) /\ GrantCanApply(TurnPosture(t))}]
  BY TurnShape DEF GateFor
<1>2. /\ turn'.session = turn.session /\ turn'.catalog = turn.catalog
      /\ turn'.settings = turn.settings
      /\ turn'.allows = {t \in Tool : Offers(t) /\ Decide(TurnPosture(t)) = "allow"}
  BY <1>1
<1>3. ASSUME NEW t \in Tool, Decide(TurnPosture(t)) = "allow"
      PROVE  LET v == turn.catalog[t]  mild == t \in Shipped \/ ~Destructive[v] IN
             \/ PolicyOf(t) = "auto"
             \/ Agreed(t, "override", v) \in stood
             \/ mild /\ t \in Remote /\ turn.settings = "auto"
             \/ mild /\ \E k \in {turn.session, Everywhere} : Agreed(t, k, v) \in stood
  <2> DEFINE r == TurnPosture(t)
             v == turn.catalog[t]
  <2>1. /\ r.policy = PolicyOf(t) /\ r.override = turn.overrides[t] /\ r.digest = v
        /\ r.mode = IF t \in Remote /\ turn.settings # "inherit" THEN turn.settings ELSE turn.mode
        /\ r.destructive = (t \in Remote /\ Destructive[v]) /\ r.grants = turn.grants[t]
    BY DEF TurnPosture, PostureOf
  <2>2. /\ turn.mode \in {"always_ask", "remember"}
        /\ turn.settings \in {"inherit", "always_ask", "remember", "auto"}
    BY <1>1 DEF ReadInv, Reading, Modes
  <2>3. ModePosture(r.mode) = "allow" => t \in Remote /\ turn.settings = "auto"
    BY <2>1, <2>2 DEF ModePosture
  <2>4. ~r.destructive => t \in Shipped \/ ~Destructive[v]
    BY <2>1 DEF Tool
  <2>5. r.policy \in {"auto", "askable", "always"}
    BY <2>1, PolicyTypes
  <2> HIDE DEF r
  <2>6. \/ r.policy = "auto"
        \/ r.override.mode = "auto" /\ r.override.digest = r.digest
        \/ ~r.destructive /\ ModePosture(r.mode) = "allow"
        \/ ~r.destructive /\ \E g \in r.grants : g.digest = r.digest
    BY <1>3, <2>5, DecideAllows DEF r
  <2>7. CASE r.override.mode = "auto" /\ r.override.digest = r.digest
    BY <1>1, <2>1, <2>7 DEF ReadInv
  <2>8. CASE ~r.destructive /\ \E g \in r.grants : g.digest = r.digest
    <3>1. PICK g \in turn.grants[t] : g.digest = v
      BY <2>1, <2>8
    <3>2. \E k \in {turn.session, Everywhere} : Agreed(t, k, v) \in stood
      BY <1>1, <3>1 DEF ReadInv
    <3> QED
      BY <2>4, <2>8, <3>2
  <2> QED
    BY <2>1, <2>3, <2>4, <2>6, <2>7, <2>8
<1> QED
  BY <1>1, <1>2, <1>3 DEF ConsentStands, Allows, Agreed

(* A gate that allows a tool has a consent that stood during the turn. *)
LEMMA ConsentStandsStep ==
  ASSUME ApprovalsWellFormed, TurnTypes, ReadInv, ConsentStands, [ApprovalsNext]_approvalsVars
  PROVE  ConsentStands'
<1>1. ASSUME NEW s \in Session, BeginTurn(s) PROVE ConsentStands'
  <2>1. turn'.pc = "reading"
    BY <1>1 DEF BeginTurn
  <2> QED
    BY <2>1 DEF ConsentStands
<1>2. ASSUME NEW p \in Parts, Read(p) PROVE ConsentStands'
  <2>1. turn \in Reading
    BY <1>2, TurnShape DEF Read
  <2>2. turn'.pc = "reading"
    BY <1>2, <2>1 DEF Read, Reading
  <2> QED
    BY <2>2 DEF ConsentStands
<1>3. ASSUME GateFor PROVE ConsentStands'
  BY <1>3, GateForStands
<1>4. ASSUME EndTurn PROVE ConsentStands'
  <2>1. turn'.pc = "none"
    BY <1>4 DEF EndTurn, NoTurn
  <2> QED
    BY <2>1 DEF ConsentStands
<1>5. ASSUME NEW t \in Tool, NEW s \in Scope, NEW d \in Picks, AskRemember(t, s, d)
      PROVE ConsentStands'
  <2>1. turn' = turn /\ (turn.pc = "open" => stood' = stood)
    BY <1>5 DEF AskRemember, Sends, Counts, settings
  <2> QED
    BY <2>1 DEF ConsentStands, Allows, Agreed
<1>6. ASSUME NEW t \in Tool, AskForget(t) PROVE ConsentStands'
  <2>1. turn' = turn /\ (turn.pc = "open" => stood' = stood)
    BY <1>6 DEF AskForget, Asks, Sends, Counts, settings
  <2> QED
    BY <2>1 DEF ConsentStands, Allows, Agreed
<1>7. ASSUME NEW t \in Tool, NEW m \in {"inherit", "always_ask", "auto"}, AskOverride(t, m)
      PROVE ConsentStands'
  <2>1. turn' = turn /\ (turn.pc = "open" => stood' = stood)
    BY <1>7 DEF AskOverride, Asks, Sends, Counts, settings
  <2> QED
    BY <2>1 DEF ConsentStands, Allows, Agreed
<1>8. ASSUME NEW ts \in SUBSET Remote, NEW m \in {"inherit", "always_ask", "auto"},
             AskOverrideMany(ts, m)
      PROVE ConsentStands'
  <2>1. turn' = turn /\ (turn.pc = "open" => stood' = stood)
    BY <1>8 DEF AskOverrideMany, Asks, Sends, Counts, settings
  <2> QED
    BY <2>1 DEF ConsentStands, Allows, Agreed
<1>9. ASSUME NEW m \in {"always_ask", "remember"}, SetMode(m) PROVE ConsentStands'
  <2>1. turn' = turn /\ (turn.pc = "open" => stood' = stood)
    BY <1>9 DEF SetMode, Disturbs, settings
  <2> QED
    BY <2>1 DEF ConsentStands, Allows, Agreed
<1>10. ASSUME NEW m \in Modes \cup {"inherit"}, SetIntegrationMode(m) PROVE ConsentStands'
  <2>1. turn' = turn /\ (turn.pc = "open" => stood' = stood)
    BY <1>10 DEF SetIntegrationMode, Disturbs, settings
  <2> QED
    BY <2>1 DEF ConsentStands, Allows, Agreed
<1>11. ASSUME NEW d \in Ttl, SetTtl(d) PROVE ConsentStands'
  <2>1. turn' = turn /\ (turn.pc = "open" => stood' = stood)
    BY <1>11 DEF SetTtl, settings
  <2> QED
    BY <2>1 DEF ConsentStands, Allows, Agreed
<1>12. ASSUME Resolve PROVE ConsentStands'
  <2>1. turn' = turn /\ (turn.pc = "open" => stood' = stood)
    BY <1>12 DEF Resolve, settings
  <2> QED
    BY <2>1 DEF ConsentStands, Allows, Agreed
<1>13. ASSUME ReadRow PROVE ConsentStands'
  <2>1. turn' = turn /\ (turn.pc = "open" => stood' = stood)
    BY <1>13 DEF ReadRow, settings
  <2> QED
    BY <2>1 DEF ConsentStands, Allows, Agreed
<1>14. ASSUME WriteGrant PROVE ConsentStands'
  <2>1. turn' = turn /\ (turn.pc = "open" => stood' = stood)
    BY <1>14 DEF WriteGrant, Wrote, settings
  <2> QED
    BY <2>1 DEF ConsentStands, Allows, Agreed
<1>15. ASSUME Forget PROVE ConsentStands'
  <2>1. turn' = turn /\ (turn.pc = "open" => stood' = stood)
    BY <1>15 DEF Forget, Wrote, settings
  <2> QED
    BY <2>1 DEF ConsentStands, Allows, Agreed
<1>16. ASSUME WriteOverride PROVE ConsentStands'
  <2>1. turn' = turn /\ (turn.pc = "open" => stood' = stood)
    BY <1>16 DEF WriteOverride, Wrote, settings
  <2> QED
    BY <2>1 DEF ConsentStands, Allows, Agreed
<1>17. ASSUME RequestOver PROVE ConsentStands'
  <2>1. turn' = turn /\ (turn.pc = "open" => stood' = stood)
    BY <1>17 DEF RequestOver, settings
  <2> QED
    BY <2>1 DEF ConsentStands, Allows, Agreed
<1>18. ASSUME NEW f \in [Remote -> Version \cup {0}], ReplaceTools(f) PROVE ConsentStands'
  <2>1. turn' = turn /\ (turn.pc = "open" => stood' = stood)
    BY <1>18 DEF ReplaceTools, Disturbs, settings
  <2> QED
    BY <2>1 DEF ConsentStands, Allows, Agreed
<1>19. ASSUME Reconnect PROVE ConsentStands'
  <2>1. turn' = turn /\ (turn.pc = "open" => stood' = stood)
    BY <1>19 DEF Reconnect, Disturbs, settings
  <2> QED
    BY <2>1 DEF ConsentStands, Allows, Agreed
<1>20. ASSUME NextDay PROVE ConsentStands'
  <2>1. turn' = turn /\ (turn.pc = "open" => stood' = stood)
    BY <1>20 DEF NextDay, Disturbs, settings
  <2> QED
    BY <2>1 DEF ConsentStands, Allows, Agreed
<1>21. ASSUME UNCHANGED approvalsVars PROVE ConsentStands'
  <2>1. turn' = turn /\ (turn.pc = "open" => stood' = stood)
    BY <1>21 DEF approvalsVars, settings
  <2> QED
    BY <2>1 DEF ConsentStands, Allows, Agreed
<1>22. ASSUME LoadPage PROVE ConsentStands'
  <2>1. turn' = turn /\ (turn.pc = "open" => stood' = stood)
    BY <1>22 DEF LoadPage, settings
  <2> QED
    BY <2>1 DEF ConsentStands, Allows, Agreed
<1> QED
  BY <1>1, <1>2, <1>3, <1>4, <1>5, <1>6, <1>7, <1>8, <1>9, <1>10, <1>11, <1>12, <1>13, <1>14,
     <1>15, <1>16, <1>17, <1>18, <1>19, <1>20, <1>21, <1>22
     DEF ApprovalsNext, ReaderTurn, ReaderAsks, RequestStep

(* Whether a grant helps depends on the settings alone. *)
LEMMA HelpKept ==
  ASSUME UNCHANGED <<offered, readerMode, integrationMode, override>>
  PROVE  \A t : CanHelp(t)' <=> CanHelp(t)
BY DEF CanHelp, RowDigest

(* A step that changes no setting keeps SteadyInv. *)
LEMMA SteadyKept ==
  ASSUME SteadyInv,
         UNCHANGED <<turn, steady, offered, active, readerMode, integrationMode, override>>
  PROVE  SteadyInv'
<1>1. Catalog' = Catalog
  BY DEF Catalog
<1> QED
  BY <1>1, HelpKept DEF SteadyInv

(* Until something changes, a turn knows what the settings are now. *)
LEMMA SteadyStep ==
  ASSUME TurnTypes, SteadyInv, [ApprovalsNext]_approvalsVars
  PROVE  SteadyInv'
<1>1. ASSUME NEW s \in Session, BeginTurn(s) PROVE SteadyInv'
  <2>1. /\ turn' = [pc |-> "reading", session |-> s, catalog |-> Catalog, unread |-> Parts,
                    mode |-> "unread", settings |-> "unread", overrides |-> <<>>, grants |-> <<>>]
        /\ UNCHANGED <<offered, active>>
    BY <1>1 DEF BeginTurn
  <2>2. turn'.unread = Parts /\ turn'.catalog = Catalog /\ turn'.pc = "reading"
    BY <2>1
  <2>3. Catalog' = Catalog
    BY <2>1 DEF Catalog
  <2> QED
    BY <2>2, <2>3 DEF SteadyInv, Parts
<1>2. ASSUME NEW p \in Parts, Read(p) PROVE SteadyInv'
  <2>1. /\ turn \in Reading /\ turn.pc = "reading" /\ p \in turn.unread
        /\ UNCHANGED <<offered, active, readerMode, integrationMode, override, steady>>
    BY <1>2, TurnShape DEF Read, settings
  <2>2. /\ turn'.unread = turn.unread \ {p} /\ turn'.catalog = turn.catalog
        /\ turn'.mode = IF p = "mode" THEN readerMode ELSE turn.mode
        /\ turn'.settings = IF p = "settings" THEN integrationMode ELSE turn.settings
        /\ turn'.overrides = IF p = "overrides" THEN override ELSE turn.overrides
        /\ turn'.pc = "reading"
    BY <1>2, <2>1 DEF Read, Reading
  <2>3. Catalog' = Catalog
    BY <2>1 DEF Catalog
  <2> QED
    BY <2>1, <2>2, <2>3 DEF SteadyInv
<1>3. ASSUME GateFor PROVE SteadyInv'
  <2>1. /\ turn \in Reading /\ turn.pc = "reading" /\ turn.unread = {}
        /\ UNCHANGED <<offered, active, readerMode, integrationMode, override, steady>>
        /\ turn' = [pc |-> "open", session |-> turn.session, catalog |-> turn.catalog,
                    settings |-> turn.settings,
                    allows |-> {t \in Tool : Offers(t) /\ Decide(TurnPosture(t)) = "allow"},
                    rememberable |-> {t \in Tool : Offers(t) /\ GrantCanApply(TurnPosture(t))}]
    BY <1>3, TurnShape DEF GateFor, settings
  <2>2. /\ turn'.pc = "open" /\ turn'.catalog = turn.catalog
        /\ turn'.rememberable = {t \in Tool : Offers(t) /\ GrantCanApply(TurnPosture(t))}
    BY <2>1
  <2>3. Catalog' = Catalog
    BY <2>1 DEF Catalog
  <2>4. ASSUME steady, NEW t \in Tool, Offers(t), GrantCanApply(TurnPosture(t))
        PROVE  CanHelp(t)
    <3>1. /\ turn.catalog = Catalog /\ turn.mode = readerMode
          /\ turn.settings = integrationMode /\ turn.overrides = override
      BY <2>1, <2>4 DEF SteadyInv
    <3>2. turn.catalog[t] = RowDigest(t) /\ RowDigest(t) # 0
      BY <2>4, <3>1 DEF Offers, Catalog, RowDigest, Tool
    <3>3. /\ PolicyOf(t) = "askable" /\ override[t].mode = "inherit"
          /\ ~(t \in Remote /\ Destructive[turn.catalog[t]])
          /\ ModePosture(IF t \in Remote /\ integrationMode # "inherit" THEN integrationMode
                         ELSE readerMode) = "grants"
      BY <2>4, <3>1 DEF GrantCanApply, TurnPosture, PostureOf
    <3> QED
      BY <3>2, <3>3 DEF CanHelp
  <2>5. \A t : CanHelp(t)' <=> CanHelp(t)
    BY <2>1, HelpKept
  <2> QED
    BY <2>1, <2>2, <2>3, <2>4, <2>5 DEF SteadyInv
<1>4. ASSUME EndTurn PROVE SteadyInv'
  BY <1>4 DEF EndTurn, SteadyInv
<1>5. ASSUME NEW t \in Tool, NEW s \in Scope, NEW d \in Picks, AskRemember(t, s, d)
      PROVE SteadyInv'
  BY <1>5, SteadyKept DEF AskRemember, Sends, Counts, settings
<1>6. ASSUME NEW t \in Tool, AskForget(t) PROVE SteadyInv'
  BY <1>6, SteadyKept DEF AskForget, Asks, Sends, Counts, settings
<1>7. ASSUME NEW t \in Tool, NEW m \in {"inherit", "always_ask", "auto"}, AskOverride(t, m)
      PROVE SteadyInv'
  BY <1>7, SteadyKept DEF AskOverride, Asks, Sends, Counts, settings
<1>8. ASSUME NEW ts \in SUBSET Remote, NEW m \in {"inherit", "always_ask", "auto"},
             AskOverrideMany(ts, m)
      PROVE SteadyInv'
  BY <1>8, SteadyKept DEF AskOverrideMany, Asks, Sends, Counts, settings
<1>9. ASSUME NEW m \in {"always_ask", "remember"}, SetMode(m) PROVE SteadyInv'
  BY <1>9 DEF SetMode, Disturbs, SteadyInv
<1>10. ASSUME NEW m \in Modes \cup {"inherit"}, SetIntegrationMode(m) PROVE SteadyInv'
  BY <1>10 DEF SetIntegrationMode, Disturbs, SteadyInv
<1>11. ASSUME NEW d \in Ttl, SetTtl(d) PROVE SteadyInv'
  BY <1>11, SteadyKept DEF SetTtl, settings
<1>12. ASSUME Resolve PROVE SteadyInv'
  BY <1>12, SteadyKept DEF Resolve, settings
<1>13. ASSUME ReadRow PROVE SteadyInv'
  BY <1>13, SteadyKept DEF ReadRow, settings
<1>14. ASSUME WriteGrant PROVE SteadyInv'
  BY <1>14 DEF WriteGrant, Wrote, SteadyInv
<1>15. ASSUME Forget PROVE SteadyInv'
  BY <1>15 DEF Forget, Wrote, SteadyInv
<1>16. ASSUME WriteOverride PROVE SteadyInv'
  BY <1>16 DEF WriteOverride, Wrote, SteadyInv
<1>17. ASSUME RequestOver PROVE SteadyInv'
  BY <1>17, SteadyKept DEF RequestOver, settings
<1>18. ASSUME NEW f \in [Remote -> Version \cup {0}], ReplaceTools(f) PROVE SteadyInv'
  BY <1>18 DEF ReplaceTools, Disturbs, SteadyInv
<1>19. ASSUME Reconnect PROVE SteadyInv'
  BY <1>19 DEF Reconnect, Disturbs, SteadyInv
<1>20. ASSUME NextDay PROVE SteadyInv'
  BY <1>20 DEF NextDay, Disturbs, SteadyInv
<1>21. ASSUME UNCHANGED approvalsVars PROVE SteadyInv'
  BY <1>21, SteadyKept DEF approvalsVars, settings
<1>22. ASSUME LoadPage PROVE SteadyInv'
  BY <1>22, SteadyKept DEF LoadPage, settings
<1> QED
  BY <1>1, <1>2, <1>3, <1>4, <1>5, <1>6, <1>7, <1>8, <1>9, <1>10, <1>11, <1>12, <1>13, <1>14,
     <1>15, <1>16, <1>17, <1>18, <1>19, <1>20, <1>21, <1>22
     DEF ApprovalsNext, ReaderTurn, ReaderAsks, RequestStep

(* A step that changes neither setting nor grant keeps KeptInv, *)
LEMMA KeptKept ==
  ASSUME KeptInv, request' = request,
         UNCHANGED <<offered, readerMode, integrationMode, override, grant, day>>
  PROVE  KeptInv'
<1>1. \A t, k : Holds(t, k)' <=> Holds(t, k)
  BY DEF Holds, RowDigest, Live
<1>2. \A t : RowDigest(t)' = RowDigest(t)
  BY DEF RowDigest
<1> QED
  BY <1>1, <1>2, HelpKept DEF KeptInv

(* and so does one after which no promise stands. *)
LEMMA KeptOver ==
  ASSUME request' = NoRequest \/ request'.kept = FALSE
  PROVE  KeptInv'
BY DEF KeptInv

(* A promise rests on what is still so, and in the end on a grant. *)
LEMMA KeptStep ==
  ASSUME ApprovalsWellFormed, SettingTypes, TurnTypes, RequestTypes, SteadyInv, KeptInv,
         [ApprovalsNext]_approvalsVars
  PROVE  KeptInv'
<1>1. ASSUME NEW s \in Session, BeginTurn(s) PROVE KeptInv'
  BY <1>1, KeptKept DEF BeginTurn, settings
<1>2. ASSUME NEW p \in Parts, Read(p) PROVE KeptInv'
  BY <1>2, KeptKept DEF Read, settings
<1>3. ASSUME GateFor PROVE KeptInv'
  BY <1>3, KeptKept DEF GateFor, settings
<1>4. ASSUME EndTurn PROVE KeptInv'
  BY <1>4, KeptKept DEF EndTurn, settings
<1>5. ASSUME NEW t \in Tool, NEW s \in Scope, NEW d \in Picks, AskRemember(t, s, d)
      PROVE KeptInv'
  <2>1. /\ request' = [step |-> IF t \in Shipped THEN "row" ELSE "resolve", kind |-> "remember",
                       tools |-> {t}, scope |-> s, ttl |-> d, digest |-> [u \in {t} |-> 0],
                       session |-> turn.session, kept |-> steady]
        /\ turn.pc = "open" /\ t \in turn.rememberable /\ s \in {turn.session, Everywhere}
        /\ UNCHANGED <<offered, readerMode, integrationMode, override>>
    BY <1>5 DEF AskRemember, Sends, Rememberable, settings
  <2>2. /\ request'.step \notin {"write", "done"} /\ request'.kind = "remember"
        /\ request'.tools = {t} /\ request'.scope = s /\ request'.session = turn.session
        /\ request'.kept = steady
    BY <2>1
  <2>3. steady => CanHelp(t)'
    BY <2>1, HelpKept DEF SteadyInv
  <2> QED
    BY <2>1, <2>2, <2>3 DEF KeptInv
<1>6. ASSUME NEW t \in Tool, AskForget(t) PROVE KeptInv'
  <2>1. \E first \in Step \ {"done"} : Asks("forget", {t}, first)
    BY <1>6 DEF AskForget, Step
  <2>2. {t} \in SUBSET Tool
    BY DEF Tool
  <2> QED
    BY <2>1, <2>2, AsksRequest, KeptOver
<1>7. ASSUME NEW t \in Tool, NEW m \in {"inherit", "always_ask", "auto"}, AskOverride(t, m)
      PROVE KeptInv'
  <2>1. \E first \in Step \ {"done"} : Asks(m, {t}, first)
    BY <1>7 DEF AskOverride, Step
  <2>2. {t} \in SUBSET Tool
    BY DEF Tool
  <2> QED
    BY <2>1, <2>2, AsksRequest, KeptOver
<1>8. ASSUME NEW ts \in SUBSET Remote, NEW m \in {"inherit", "always_ask", "auto"},
             AskOverrideMany(ts, m)
      PROVE KeptInv'
  <2>1. \E first \in Step \ {"done"} : Asks(m, ts, first)
    BY <1>8 DEF AskOverrideMany, Step
  <2>2. ts \in SUBSET Tool
    BY DEF Tool
  <2> QED
    BY <2>1, <2>2, AsksRequest, KeptOver
<1>9. ASSUME NEW m \in {"always_ask", "remember"}, SetMode(m) PROVE KeptInv'
  BY <1>9, DisturbsRequest, KeptOver DEF SetMode
<1>10. ASSUME NEW m \in Modes \cup {"inherit"}, SetIntegrationMode(m) PROVE KeptInv'
  BY <1>10, DisturbsRequest, KeptOver DEF SetIntegrationMode
<1>11. ASSUME NEW d \in Ttl, SetTtl(d) PROVE KeptInv'
  BY <1>11, KeptKept DEF SetTtl, settings
<1>12. ASSUME Resolve PROVE KeptInv'
  <2>1. CASE \A t \in request.tools : Catalog[t] # 0
    <3>1. request # NoRequest /\ request \in Remembering \cup Setting
      BY <1>12, RequestShape DEF Resolve
    <3> DEFINE st == IF request.kind = "forget" THEN "write" ELSE "row"
    <3>2. request' = [request EXCEPT !.step = st]
      BY <1>12, <2>1 DEF Resolve
    <3>3. CASE request \in Setting
      <4>1. request'.kept = FALSE
        BY <3>2, <3>3 DEF Setting
      <4> QED
        BY <4>1, KeptOver
    <3>4. CASE request \in Remembering
      <4>1. /\ request'.step = "row" /\ request'.kind = request.kind
            /\ request'.tools = request.tools /\ request'.scope = request.scope
            /\ request'.session = request.session /\ request'.kept = request.kept
        BY <3>2, <3>4 DEF Remembering
      <4>2. UNCHANGED <<offered, readerMode, integrationMode, override>>
        BY <1>12 DEF Resolve, settings
      <4> QED
        BY <3>1, <4>1, <4>2, HelpKept DEF KeptInv
    <3> QED
      BY <3>1, <3>3, <3>4
  <2>2. CASE ~\A t \in request.tools : Catalog[t] # 0
    BY <1>12, <2>2, KeptOver DEF Resolve
  <2> QED
    BY <2>1, <2>2
<1>13. ASSUME ReadRow PROVE KeptInv'
  <2>1. CASE \A t \in request.tools : RowDigest(t) # 0
    <3>1. request # NoRequest /\ request \in Remembering \cup Setting
      BY <1>13, RequestShape DEF ReadRow
    <3> DEFINE f == [t \in request.tools |-> RowDigest(t)]
    <3>2. request' = [request EXCEPT !.step = "write", !.digest = f]
      BY <1>13, <2>1 DEF ReadRow
    <3>3. CASE request \in Setting
      <4>1. request'.kept = FALSE
        BY <3>2, <3>3 DEF Setting
      <4> QED
        BY <4>1, KeptOver
    <3>4. CASE request \in Remembering
      <4> HIDE DEF f
      <4>1. /\ request'.step = "write" /\ request'.kind = request.kind
            /\ request'.tools = request.tools /\ request'.scope = request.scope
            /\ request'.session = request.session /\ request'.kept = request.kept
            /\ request'.digest = f
        BY <3>2, <3>4 DEF Remembering
      <4>2. UNCHANGED <<offered, readerMode, integrationMode, override>>
        BY <1>13 DEF ReadRow, settings
      <4>3. \A t \in request.tools : f[t] = RowDigest(t)'
        BY <4>2 DEF f, RowDigest
      <4> QED
        BY <3>1, <4>1, <4>2, <4>3, HelpKept DEF KeptInv
    <3> QED
      BY <3>1, <3>3, <3>4
  <2>2. CASE ~\A t \in request.tools : RowDigest(t) # 0
    BY <1>13, <2>2, KeptOver DEF ReadRow
  <2> QED
    BY <2>1, <2>2
<1>14. ASSUME WriteGrant PROVE KeptInv'
  <2>1. /\ request.step = "write" /\ request.kind = "remember"
        /\ request' = [request EXCEPT !.step = "done"]
        /\ UNCHANGED <<offered, readerMode, integrationMode, override, day>>
    BY <1>14 DEF WriteGrant
  <2>2. request \in Remembering /\ request # NoRequest
    BY <2>1, RequestShape
  <2>3. PICK t \in Tool, k \in Scope : request.tools = {t} /\ request.scope = k
    BY <2>2 DEF RequestTypes, Remembering
  <2>4. /\ request'.step = "done" /\ request'.kind = request.kind
        /\ request'.tools = {t} /\ request'.scope = k
        /\ request'.session = request.session /\ request'.kept = request.kept
    BY <2>1, <2>2, <2>3 DEF Remembering
  <2>5. (CHOOSE u \in request.tools : TRUE) = t
    BY <2>3
  <2>6. PICK e \in {day + 1, 0} :
          grant' = [grant EXCEPT ![<<t, k>>] = [digest |-> request.digest[t], ends |-> e]]
    BY <1>14, <2>3, <2>5 DEF WriteGrant
  <2>7. /\ grant'[<<t, k>>].digest = request.digest[t] /\ grant'[<<t, k>>].ends = e
    BY <2>6 DEF SettingTypes
  <2>8. Live(grant'[<<t, k>>], day)
    BY <2>6, <2>7 DEF Live, SettingTypes
  <2>9. request.kept => request.digest[t] = RowDigest(t) /\ RowDigest(t) # 0 /\ CanHelp(t)
                        /\ k \in {request.session, Everywhere}
    BY <2>1, <2>2, <2>3 DEF KeptInv, CanHelp
  <2>10. request.kept => Holds(t, k)'
    <3>1. RowDigest(t)' = RowDigest(t) /\ day' = day
      BY <2>1 DEF RowDigest
    <3>2. request.kept => grant'[<<t, k>>] # NoGrant
      BY <2>7, <2>9 DEF NoGrant
    <3> QED
      BY <2>7, <2>8, <2>9, <3>1, <3>2 DEF Holds, Live
  <2>11. CanHelp(t) => CanHelp(t)'
    BY <2>1, HelpKept
  <2> QED
    BY <2>1, <2>4, <2>9, <2>10, <2>11 DEF KeptInv
<1>15. ASSUME Forget PROVE KeptInv'
  BY <1>15, KeptOver DEF Forget
<1>16. ASSUME WriteOverride PROVE KeptInv'
  BY <1>16, KeptOver DEF WriteOverride
<1>17. ASSUME RequestOver PROVE KeptInv'
  BY <1>17, KeptOver DEF RequestOver
<1>18. ASSUME NEW f \in [Remote -> Version \cup {0}], ReplaceTools(f) PROVE KeptInv'
  BY <1>18, DisturbsRequest, KeptOver DEF ReplaceTools
<1>19. ASSUME Reconnect PROVE KeptInv'
  BY <1>19, DisturbsRequest, KeptOver DEF Reconnect
<1>20. ASSUME NextDay PROVE KeptInv'
  BY <1>20, DisturbsRequest, KeptOver DEF NextDay
<1>21. ASSUME UNCHANGED approvalsVars PROVE KeptInv'
  BY <1>21, KeptKept DEF approvalsVars, settings
<1>22. ASSUME LoadPage PROVE KeptInv'
  BY <1>22, KeptKept DEF LoadPage, settings
<1> QED
  BY <1>1, <1>2, <1>3, <1>4, <1>5, <1>6, <1>7, <1>8, <1>9, <1>10, <1>11, <1>12, <1>13, <1>14,
     <1>15, <1>16, <1>17, <1>18, <1>19, <1>20, <1>21, <1>22
     DEF ApprovalsNext, ReaderTurn, ReaderAsks, RequestStep

(* A grant that holds lets a tool run that grants help. *)
LEMMA GrantAllows ==
  ASSUME NEW t \in Tool, NEW s, NEW k \in {s, Everywhere}, CanHelp(t), Holds(t, k)
  PROVE  WouldAllow(t, s)
<1> DEFINE r == PostureOf(t, RowDigest(t), readerMode, integrationMode, override, GrantsFor(s), day)
<1>1. /\ r.policy = "askable" /\ r.override.mode = "inherit" /\ ~r.destructive
      /\ ModePosture(r.mode) = "grants" /\ r.digest = RowDigest(t) /\ r.now = day
      /\ r.grants = GrantsFor(s)[t]
  BY DEF PostureOf, CanHelp
<1>2. grant[<<t, k>>] \in r.grants
  BY <1>1 DEF GrantsFor, Holds
<1>3. \E g \in r.grants : Live(g, r.now) /\ g.digest = r.digest
  BY <1>1, <1>2 DEF Holds
<1> HIDE DEF r
<1>4. Decide(r) = "allow"
  BY <1>1, <1>3 DEF Decide
<1> QED
  BY <1>4 DEF WouldAllow, r

(* The promise, once the row is written. *)
LEMMA KeptPromise ==
  ASSUME RequestTypes, KeptInv
  PROVE  PromiseKept
<1> SUFFICES ASSUME request.step = "done", request.kept, NEW t \in request.tools
             PROVE  WouldAllow(t, request.session)
  BY DEF PromiseKept
<1>1. request # NoRequest /\ t \in Tool
  BY RequestShape
<1> QED
  BY <1>1, GrantAllows DEF KeptInv

(* The page and the gate compute the same posture from any settings. *)
LEMMA PageTruth ==
  ASSUME ApprovalsWellFormed, SettingTypes
  PROVE  PageAgrees
<1> SUFFICES ASSUME NEW t \in Tool, NEW s \in Session, RowDigest(t) # 0, PolicyOf(t) = "askable"
             PROVE  WouldAllow(t, s) <=>
                      \/ PagePosture(t) = "allow"
                      \/ /\ PagePosture(t) = "grants"
                         /\ ListedLive(t, s) \/ ListedLive(t, Everywhere)
  BY DEF PageAgrees
<1> DEFINE r == PostureOf(t, RowDigest(t), readerMode, integrationMode, override, GrantsFor(s), day)
           m == IF t \in Remote /\ integrationMode # "inherit" THEN integrationMode ELSE readerMode
           harms == t \in Remote /\ Destructive[RowDigest(t)]
<1>1. /\ r.policy = "askable" /\ r.override = override[t] /\ r.destructive = harms
      /\ r.mode = m /\ r.digest = RowDigest(t) /\ r.now = day /\ r.grants = GrantsFor(s)[t]
  BY DEF PostureOf
<1>2. override[t].mode \in {"inherit", "always_ask", "auto"}
  BY DEF SettingTypes, Override
<1>3. WouldAllow(t, s) <=> Decide(r) = "allow"
  BY DEF WouldAllow
<1> DEFINE held == \E g \in r.grants : Live(g, r.now) /\ g.digest = r.digest
<1>4. held <=> ListedLive(t, s) \/ ListedLive(t, Everywhere)
  <2>1. r.grants = {grant[<<t, k>>] : k \in {s, Everywhere}} \ {NoGrant}
    BY <1>1 DEF GrantsFor
  <2>2. \A k \in {s, Everywhere} : grant[<<t, k>>] \in Grant
    BY DEF SettingTypes, Scope
  <2>3. \A k \in {s, Everywhere} : Live(grant[<<t, k>>], day) <=>
          ~(grant[<<t, k>>].ends # 0 /\ grant[<<t, k>>].ends <= day)
    BY <2>2 DEF Live, Grant, SettingTypes
  <2> HIDE DEF r
  <2> QED
    BY <1>1, <2>1, <2>3 DEF ListedLive
<1>5. ModePosture(m) \in {"ask", "grants", "allow"}
  BY DEF ModePosture
<1>6. PagePosture(t) =
        IF override[t].mode # "inherit"
        THEN IF override[t].mode = "auto" /\ ~(override[t].digest # RowDigest(t))
             THEN "allow" ELSE "ask"
        ELSE IF harms THEN "ask" ELSE ModePosture(m)
  <2>1. (IF (IF t \in Remote THEN integrationMode ELSE "inherit") = "inherit" THEN readerMode
         ELSE (IF t \in Remote THEN integrationMode ELSE "inherit")) = m
    OBVIOUS
  <2> HIDE DEF m
  <2> QED
    BY <1>2, <2>1 DEF PagePosture, ToolPosture
<1> HIDE DEF r, m, harms, held
<1>7. CASE override[t].mode # "inherit"
  <2>1. Decide(r) = "allow" <=> override[t].mode = "auto" /\ override[t].digest = RowDigest(t)
    BY <1>1, <1>7 DEF Decide
  <2> QED
    BY <1>3, <1>6, <1>7, <2>1
<1>8. CASE override[t].mode = "inherit"
  <2>1. Decide(r) = IF harms THEN "ask"
                    ELSE IF ModePosture(m) # "grants" THEN ModePosture(m)
                    ELSE IF held THEN "allow" ELSE "ask"
    BY <1>1, <1>8 DEF Decide, held
  <2> QED
    BY <1>3, <1>4, <1>5, <1>6, <1>8, <2>1
<1> QED
  BY <1>7, <1>8

(* The inductive invariant. *)
ApprovalInv ==
  /\ SettingTypes /\ TurnTypes /\ RequestTypes /\ steady \in BOOLEAN
  /\ ShownInv /\ ConsentInv /\ ReadInv /\ ConsentStands /\ SteadyInv /\ KeptInv

(* It holds at first, *)
LEMMA ApprovalInvInit == ApprovalsWellFormed /\ ApprovalsInit => ApprovalInv
<1> SUFFICES ASSUME ApprovalsWellFormed, ApprovalsInit PROVE ApprovalInv
  OBVIOUS
<1>1. Inherit \in Override /\ NoGrant \in Grant
  BY DEF Inherit, Override, NoGrant, Grant
<1>2. SettingTypes
  BY <1>1 DEF ApprovalsInit, SettingTypes, ApprovalsWellFormed, Modes, Ttl
<1>3. TurnTypes
  BY DEF ApprovalsInit, TurnTypes
<1>4. RequestTypes
  <2>1. NoRequest \notin Remembering
    BY DEF NoRequest, Remembering, Step
  <2> QED
    BY <2>1 DEF ApprovalsInit, RequestTypes
<1>5. ConsentInv
  BY DEF ApprovalsInit, ConsentInv, Inherit
<1>6. turn.pc = "none"
  BY DEF ApprovalsInit, NoTurn
<1>7. ReadInv /\ ConsentStands
  BY <1>6 DEF ReadInv, ConsentStands
<1>8. SteadyInv /\ KeptInv /\ steady \in BOOLEAN
  BY DEF ApprovalsInit, SteadyInv, KeptInv
<1>9. ShownInv
  BY <1>2, <1>6, NowFollows, NothingFollows DEF ApprovalsInit, ShownInv, Prompted, Backed
<1> QED
  BY <1>2, <1>3, <1>4, <1>5, <1>7, <1>8, <1>9 DEF ApprovalInv

(* the history variable keeps its type, *)
LEMMA SteadyTypes == steady \in BOOLEAN /\ [ApprovalsNext]_approvalsVars => steady' \in BOOLEAN
BY DEF ApprovalsNext, ReaderTurn, ReaderAsks, RequestStep, BeginTurn, Read, GateFor, EndTurn,
   AskRemember, AskForget,
       AskOverride, AskOverrideMany, Asks, Sends, SetMode, SetIntegrationMode, SetTtl, Resolve,
       ReadRow, WriteGrant, Forget, WriteOverride, Wrote, RequestOver, ReplaceTools, Reconnect,
       NextDay, LoadPage, Disturbs, approvalsVars

(* and every step keeps it. *)
LEMMA ApprovalInvStep ==
  ApprovalsWellFormed /\ ApprovalInv /\ [ApprovalsNext]_approvalsVars => ApprovalInv'
<1> SUFFICES ASSUME ApprovalsWellFormed, ApprovalInv, [ApprovalsNext]_approvalsVars
             PROVE  ApprovalInv'
  OBVIOUS
<1> USE DEF ApprovalInv
<1>1. SettingTypes'
  BY SettingTypesStep
<1>2. TurnTypes'
  BY TurnTypesStep
<1>3. RequestTypes'
  BY RequestTypesStep
<1>4. ConsentInv'
  BY ConsentStep
<1>5. ReadInv'
  BY ReadStep
<1>6. ConsentStands'
  BY ConsentStandsStep
<1>7. SteadyInv'
  BY SteadyStep
<1>8. KeptInv'
  BY KeptStep
<1>9. steady' \in BOOLEAN
  BY SteadyTypes
<1>10. ShownInv'
  BY ShownStep
<1> QED
  BY <1>1, <1>2, <1>3, <1>4, <1>5, <1>6, <1>7, <1>8, <1>9, <1>10

(* The invariant of the settings, the turn that reads them and the request  *)
(* that changes them holds throughout, for any tools, conversations and     *)
(* policies, any number of days and of changes.                             *)
THEOREM ApprovalInvAlways == ApprovalsSpec => []ApprovalInv
<1>1. ApprovalsInit => ApprovalInv
  BY ApprovalInvInit, ApprovalsAssumption
<1>2. ApprovalInv /\ [ApprovalsNext]_approvalsVars => ApprovalInv'
  BY ApprovalInvStep, ApprovalsAssumption
<1> QED
  BY <1>1, <1>2, PTL DEF ApprovalsSpec

(* For every tool the reader can decide about, the settings page shows what *)
(* a turn that starts now would do.                                         *)
THEOREM PageAgreesAlways == ApprovalsSpec => []PageAgrees
<1>1. ApprovalInv => PageAgrees
  BY PageTruth, ApprovalsAssumption DEF ApprovalInv
<1> QED
  BY <1>1, ApprovalInvAlways, PTL

(* When the prompt offered not to ask again, and nothing changed between    *)
(* the turn's reads and the grant, the next turn of the conversation runs   *)
(* the tool unasked.                                                        *)
THEOREM PromiseKeptAlways == ApprovalsSpec => []PromiseKept
<1>1. ApprovalInv => PromiseKept
  BY KeptPromise DEF ApprovalInv
<1> QED
  BY <1>1, ApprovalInvAlways, PTL

(* A tool that a turn runs unasked is free by its policy or by the          *)
(* integration's setting, or the reader agreed to it at a prompt or a page  *)
(* that showed that definition, or an earlier one which that definition had *)
(* replaced by the time the answer was written; and the consent stood at    *)
(* some moment of the turn's reads.                                         *)
THEOREM ConsentStandsAlways == ApprovalsSpec => []ConsentStands
<1>1. ApprovalInv => ConsentStands
  BY DEF ApprovalInv
<1> QED
  BY <1>1, ApprovalInvAlways, PTL

-----------------------------------------------------------------------------
(* Turns and the notifications of codex (AgentTurn). *)

(* Notifications. *)
Note ==
  [kind : {"status"}, thread : Turn, says : {"ready", "failed"}]
    \cup [kind : {"completed"}, thread : Turn, turn : Turn, says : {"completed", "interrupted"}]

(* The types of a turn's control and queue, *)
ControlTypes ==
  /\ at \in [Turn -> PC] /\ asked \in [Turn -> {"none", "sent", "handled"}]
  /\ open \subseteq Turn /\ items \in [Turn -> Seq(Note)]
  /\ outcome \in [Turn -> Outcome]

(* and those of its thread and of codex. *)
DataTypes ==
  /\ thread \in [Conversation -> Turn \cup {NoThread}] /\ opened \in [Turn -> Turn \cup {NoThread}]
  /\ load \in [Turn -> {"none", "loading", "told"}]
  /\ work \in [Turn -> {"none", "running", "completed", "interrupted", "dropped"}]
  /\ shared \subseteq Turn /\ due \subseteq Turn

(* What a step does to one turn: nothing, *)
Same(t) ==
  at'[t] = at[t] /\ asked'[t] = asked[t] /\ outcome'[t] = outcome[t] /\ items'[t] = items[t]

(* the end with an outcome, *)
Over(t, o) ==
  at'[t] = "done" /\ asked'[t] = "none" /\ outcome'[t] = o /\ items'[t] = <<>>

(* another point of the run, *)
Moved(t, p, a) ==
  at'[t] = p /\ asked'[t] = a /\ outcome'[t] = outcome[t] /\ items'[t] = items[t]

(* a request, or the end where the connection is closed, *)
Sent(t, m) ==
  \/ Moved(t, m, "sent") /\ open' = open
  \/ open' = open \ {t} /\ \E o \in {"error", "aborted", "failed"} : Over(t, o)

(* a notification taken from the queue; *)
Taken(t, p, a) ==
  /\ at'[t] = p /\ asked'[t] = a /\ outcome'[t] = outcome[t] /\ items'[t] = Tail(items[t])
  /\ open' = open

(* and nothing to anyone else. *)
Others(t) == \A u \in Turn \ {t} : Same(u)

(* Codex has handled the request the turn waits at. *)
Handled(t, p) == at[t] = p /\ asked[t] = "handled"

(* The turn has its thread in codex's memory, or had. *)
Loaded(t) ==
  \/ at[t] \in {"remember", "gateway", "turn", "read", "interrupt", "done"}
  \/ Handled(t, "resume") \/ Handled(t, "thread")

(* What holds at each point of a run: which requests wait, whether the      *)
(* queue can be subscribed, whether there is a thread, a load of it and a   *)
(* turn of codex.                                                           *)
Phase(t) ==
  /\ asked[t] # "none" => at[t] \in Requests
  /\ outcome[t] # "none" => at[t] = "done"
  /\ t \in open => at[t] \notin {"new", "prepare", "connect", "interrupt", "done"}
  /\ at[t] \in {"new", "prepare", "connect", "lookup"} => opened[t] = NoThread
  /\ at[t] \in {"unsubscribe", "resume", "gateway", "turn", "read", "interrupt"} => opened[t] \in Turn
  /\ at[t] = "remember" \/ Handled(t, "thread") => opened[t] = t
  /\ opened[t] = t => Loaded(t)
  /\ load[t] # "none" => Loaded(t) /\ opened[t] \in Turn
  /\ work[t] # "none" =>
       /\ opened[t] \in Turn
       /\ at[t] \in {"read", "interrupt", "done"} \/ Handled(t, "turn")

(* All turns. *)
PhaseInv == \A t \in Turn : Phase(t)

(* A thread belongs to the conversation of the turn that started it. *)
ThreadInv ==
  /\ \A t \in Turn : opened[t] \in Turn =>
       SessionOf[opened[t]] = SessionOf[t] /\ opened[opened[t]] = opened[t]
  /\ \A s \in Conversation : thread[s] \in Turn =>
       SessionOf[thread[s]] = s /\ opened[thread[s]] = thread[s]

(* A turn that was not disturbed is the only active one of its              *)
(* conversation.                                                            *)
SoleInv ==
  \A t \in Turn \ shared : Active(t) =>
    \A u \in Turn \ {t} : SessionOf[u] = SessionOf[t] => ~Active(u)

(* The turn's thread has been unsubscribed, or is new. *)
Unloaded(t) ==
  at[t] \in {"resume", "thread", "remember", "gateway", "turn", "read"} \/ Handled(t, "unsubscribe")

(* From then on nothing of an earlier turn runs on the thread of a turn     *)
(* that was not disturbed.                                                  *)
QuietInv ==
  \A t \in Turn \ shared : Unloaded(t) /\ opened[t] \in Turn =>
    \A u \in Turn \ {t} : opened[u] = opened[t] => work[u] # "running"

(* An end that names the turn is how codex ended it. *)
OwnNotes(t) ==
  \A i \in 1 .. Len(items[t]) :
    items[t][i].kind = "completed" /\ items[t][i].turn = t => work[t] = items[t][i].says

(* A status of the turn's conversation is that of its own load. *)
OwnLoad(t) ==
  \A i \in 1 .. Len(items[t]) :
    /\ items[t][i].kind = "status" /\ SessionOf[items[t][i].thread] = SessionOf[t]
    => load[t] = "told"

(* The end of another turn on the turn's thread. *)
Foreign(t, n) == n.kind = "completed" /\ n.thread = opened[t] /\ n.turn # t

(* Such an end never follows the status of the thread in the queue, *)
InOrder(t) ==
  \A i, j \in 1 .. Len(items[t]) :
    i < j /\ items[t][i].kind = "status" /\ items[t][i].thread = opened[t]
    => ~Foreign(t, items[t][j])

(* and there is none from turn/start on. *)
ReadsOwn(t) ==
  at[t] \in {"turn", "read"} => \A i \in 1 .. Len(items[t]) : ~Foreign(t, items[t][i])

(* What holds of a queue. *)
Queue(t) == OwnNotes(t) /\ (t \notin shared => OwnLoad(t) /\ InOrder(t) /\ ReadsOwn(t))

(* All queues. *)
QueueInv == \A t \in Turn : Queue(t)

(* A completion that reached its turn's queue is in it, or was read, or the *)
(* answer to turn/start was lost.                                           *)
Due(t) ==
  /\ work[t] = "completed"
  /\ \/ at[t] = "done" /\ outcome[t] \in {"completed", "error"}
     \/ /\ at[t] \in {"turn", "read"}
        /\ \E i \in 1 .. Len(items[t]) : items[t][i] = Completed(opened[t], t, "completed")

(* All of those. *)
DueInv == \A t \in due \ shared : Due(t)

(* What the end of turns does, *)
LEMMA EndedControl ==
  ASSUME ControlTypes, NEW D \in SUBSET Turn, NEW O, \A u \in D : O[u] \in Outcome, Ended(D, O)
  PROVE  /\ at' \in [Turn -> PC] /\ asked' \in [Turn -> {"none", "sent", "handled"}]
         /\ items' \in [Turn -> Seq(Note)] /\ outcome' \in [Turn -> Outcome]
         /\ \A u \in D : Over(u, O[u])
         /\ \A u \in Turn \ D : Same(u)
<1>1. at' \in [Turn -> PC] /\ asked' \in [Turn -> {"none", "sent", "handled"}]
  BY DEF Ended, ControlTypes, PC
<1>2. outcome' \in [Turn -> Outcome]
  BY DEF Ended, ControlTypes
<1>3. items' \in [Turn -> Seq(Note)]
  BY DEF Ended, ControlTypes
<1>4. \A u \in D : Over(u, O[u])
  BY DEF Ended, Over
<1>5. \A u \in Turn \ D : Same(u)
  BY DEF Ended, Same
<1> QED
  BY <1>1, <1>2, <1>3, <1>4, <1>5

(* of one turn, *)
LEMMA EndControl ==
  ASSUME ControlTypes, NEW t \in Turn, NEW o \in Outcome, End(t, o)
  PROVE  /\ ControlTypes' /\ Over(t, o) /\ open' = open \ {t}
         /\ Others(t)
<1> DEFINE O == [u \in {t} |-> o]
<1>1. Ended({t}, O) /\ open' = open \ {t} /\ O[t] = o
  BY DEF End
<1> HIDE DEF O
<1>2. /\ at' \in [Turn -> PC] /\ asked' \in [Turn -> {"none", "sent", "handled"}]
      /\ items' \in [Turn -> Seq(Note)] /\ outcome' \in [Turn -> Outcome]
      /\ \A u \in {t} : Over(u, O[u])
      /\ \A u \in Turn \ {t} : Same(u)
  BY <1>1, EndedControl
<1> QED
  BY <1>1, <1>2 DEF ControlTypes, Others

(* a move *)
LEMMA MoveControl ==
  ASSUME ControlTypes, NEW t \in Turn, NEW p \in PC, NEW a \in {"none", "sent", "handled"},
         at' = [at EXCEPT ![t] = p], asked' = [asked EXCEPT ![t] = a],
         UNCHANGED <<items, outcome>>, open' \subseteq Turn
  PROVE  /\ ControlTypes' /\ Moved(t, p, a)
         /\ Others(t)
BY DEF ControlTypes, Moved, Same, Others

(* and the move past an answer. *)
LEMMA GoesControl ==
  ASSUME ControlTypes, NEW t \in Turn, NEW p \in PC, Goes(t, p)
  PROVE  /\ ControlTypes' /\ Moved(t, p, "none") /\ open' = open
         /\ Others(t)
<1>1. open' = open /\ open' \subseteq Turn
  BY DEF Goes, ControlTypes
<1> QED
  BY <1>1, MoveControl DEF Goes

(* A turn that reads no end of its own has not completed. *)
LEMMA ConclusionNone ==
  ASSUME NEW t \in Turn
  PROVE  Conclusion(t, "none") \in {"aborted", "failed"}
BY DEF Conclusion

(* A request is sent, or its turn is over, and has not completed. *)
LEMMA SendControl ==
  ASSUME ControlTypes, NEW t \in Turn, NEW m \in Requests, Send(t, m)
  PROVE  /\ ControlTypes' /\ Others(t)
         /\ Sent(t, m)
<1>1. CASE Up(t)
  <2>1. /\ at' = [at EXCEPT ![t] = m] /\ asked' = [asked EXCEPT ![t] = "sent"]
        /\ UNCHANGED <<open, items, outcome>>
    BY <1>1 DEF Send
  <2>2. m \in PC /\ open' \subseteq Turn
    BY <2>1 DEF PC, ControlTypes
  <2> QED
    BY <2>1, <2>2, MoveControl DEF Sent
<1>2. CASE ~Up(t)
  <2>1. PICK o \in {"error", "aborted", "failed"} : End(t, o)
    BY <1>2, ConclusionNone DEF Send
  <2>2. o \in Outcome
    BY DEF Outcome
  <2> QED
    BY <2>1, <2>2, EndControl DEF Sent
<1> QED
  BY <1>1, <1>2

(* The head of a queue is taken. *)
LEMMA ShiftControl ==
  ASSUME ControlTypes, NEW t \in Turn, NEW p \in PC, NEW a \in {"none", "sent", "handled"},
         items[t] # <<>>, Shift(t, p), asked' = [asked EXCEPT ![t] = a]
  PROVE  /\ ControlTypes' /\ Taken(t, p, a)
         /\ Others(t)
<1>1. items[t] \in Seq(Note) /\ Tail(items[t]) \in Seq(Note)
  BY DEF ControlTypes
<1>2. /\ items' = [items EXCEPT ![t] = Tail(items[t])] /\ at' = [at EXCEPT ![t] = p]
      /\ open' = open /\ outcome' = outcome
  BY DEF Shift
<1> QED
  BY <1>1, <1>2 DEF ControlTypes, Same, Others, Taken

(* A notification joins the queues that are subscribed. *)
LEMMA PushControl ==
  ASSUME ControlTypes, NEW g, NEW n \in Note, Push(g, n), UNCHANGED <<at, asked, outcome, open>>
  PROVE  /\ ControlTypes'
         /\ \A u \in Turn : Same(u) \/ (u \in open /\ items'[u] = Append(items[u], n))
         /\ \A u \in open : gen[u] = g => items'[u] = Append(items[u], n)
         /\ \A u \in Turn : ~(u \in open /\ gen[u] = g) => items'[u] = items[u]
<1>1. \A u \in Turn : items[u] \in Seq(Note) /\ Append(items[u], n) \in Seq(Note)
  BY DEF ControlTypes
<1>2. items' = [u \in Turn |-> IF u \in open /\ gen[u] = g THEN Append(items[u], n) ELSE items[u]]
  BY DEF Push
<1>3. items' \in [Turn -> Seq(Note)]
  BY <1>1, <1>2
<1>4. \A u \in open : u \in Turn
  BY DEF ControlTypes
<1>5. \A u \in Turn : Same(u) \/ (u \in open /\ items'[u] = Append(items[u], n))
  BY <1>2 DEF Same
<1> QED
  BY <1>2, <1>3, <1>4, <1>5 DEF ControlTypes

(* What each action does to the turn that takes it, and that it leaves the  *)
(* others alone.                                                            *)
LEMMA BeginDoes ==
  ASSUME ControlTypes, NEW t \in Turn, Begin(t)
  PROVE  /\ ControlTypes' /\ Others(t) /\ at[t] = "new" /\ Moved(t, "prepare", asked[t])
         /\ UNCHANGED <<open, thread, opened, load, work, due>>
<1>1. /\ at' = [at EXCEPT ![t] = "prepare"] /\ asked' = asked /\ at[t] = "new"
      /\ UNCHANGED <<open, items, outcome, thread, opened, load, work, due>>
  BY DEF Begin, codexVars
<1>2. asked' = [asked EXCEPT ![t] = asked[t]] /\ asked[t] \in {"none", "sent", "handled"}
  BY <1>1 DEF ControlTypes
<1>3. "prepare" \in PC /\ open' \subseteq Turn
  BY <1>1 DEF PC, ControlTypes
<1> QED
  BY <1>1, <1>2, <1>3, MoveControl

LEMMA PreparedDoes ==
  ASSUME ControlTypes, NEW t \in Turn, Prepared(t)
  PROVE  /\ ControlTypes' /\ Others(t) /\ at[t] = "prepare"
         /\ UNCHANGED <<thread, opened, load, work, shared, due>>
         /\ \/ Over(t, "error") /\ open' = open \ {t}
            \/ Moved(t, "connect", "none") /\ open' = open
            \/ Moved(t, "lookup", asked[t]) /\ open' = open \cup {t}
<1>1. /\ at[t] = "prepare"
      /\ UNCHANGED <<thread, opened, load, work, shared, due>>
  BY DEF Prepared, codexVars
<1>2. \/ End(t, "error")
      \/ Goes(t, "connect")
      \/ at' = [at EXCEPT ![t] = "lookup"] /\ Subscribe({t})
  BY DEF Prepared
<1>3. CASE End(t, "error")
  BY <1>1, <1>3, EndControl DEF Outcome
<1>4. CASE Goes(t, "connect")
  BY <1>1, <1>4, GoesControl DEF PC
<1>5. CASE at' = [at EXCEPT ![t] = "lookup"] /\ Subscribe({t})
  <2>1. /\ open' = open \cup {t} /\ open' \subseteq Turn /\ UNCHANGED <<asked, items, outcome>>
    BY <1>5 DEF Subscribe, ControlTypes
  <2>2. asked' = [asked EXCEPT ![t] = asked[t]] /\ asked[t] \in {"none", "sent", "handled"}
    BY <2>1 DEF ControlTypes
  <2> QED
    BY <1>1, <1>5, <2>1, <2>2, MoveControl DEF PC
<1> QED
  BY <1>2, <1>3, <1>4, <1>5

LEMMA LookupDoes ==
  ASSUME ControlTypes, NEW t \in Turn, Lookup(t)
  PROVE  /\ ControlTypes' /\ Others(t) /\ at[t] = "lookup"
         /\ opened' = [opened EXCEPT ![t] = thread[SessionOf[t]]]
         /\ UNCHANGED <<thread, load, work, shared, due>>
         /\ Sent(t, IF thread[SessionOf[t]] = NoThread THEN "thread" ELSE "unsubscribe")
<1> DEFINE m == IF thread[SessionOf[t]] = NoThread THEN "thread" ELSE "unsubscribe"
<1>1. /\ at[t] = "lookup" /\ Send(t, m) /\ m \in Requests
      /\ opened' = [opened EXCEPT ![t] = thread[SessionOf[t]]]
      /\ UNCHANGED <<thread, load, work, shared, due>>
  BY DEF Lookup, codexVars, Requests
<1> HIDE DEF m
<1>2. ControlTypes' /\ Others(t) /\ Sent(t, m)
  BY <1>1, SendControl
<1> QED
  BY <1>1, <1>2 DEF m

LEMMA RememberDoes ==
  ASSUME ControlTypes, NEW t \in Turn, Remember(t)
  PROVE  /\ ControlTypes' /\ Others(t) /\ at[t] = "remember" /\ Moved(t, "gateway", "none")
         /\ thread' = [thread EXCEPT ![SessionOf[t]] = opened[t]]
         /\ UNCHANGED <<open, opened, load, work, shared, due>>
<1>1. /\ at[t] = "remember" /\ Goes(t, "gateway")
      /\ thread' = [thread EXCEPT ![SessionOf[t]] = opened[t]]
      /\ UNCHANGED <<opened, load, work, shared, due>>
  BY DEF Remember, codexVars
<1> QED
  BY <1>1, GoesControl DEF PC

LEMMA DatabaseDoes ==
  ASSUME ControlTypes, NEW t \in Turn, DatabaseFails(t)
  PROVE  /\ ControlTypes' /\ Others(t) /\ at[t] \in {"lookup", "remember"} /\ Over(t, "error")
         /\ \/ thread' = thread
            \/ at[t] = "remember" /\ thread' = [thread EXCEPT ![SessionOf[t]] = opened[t]]
         /\ open' = open \ {t} /\ UNCHANGED <<opened, load, work, shared, due>>
BY EndControl DEF DatabaseFails, Outcome, codexVars

LEMMA GatewayItemDoes ==
  ASSUME ControlTypes, NEW t \in Turn, GatewayItem(t)
  PROVE  /\ ControlTypes' /\ Others(t) /\ at[t] = "gateway" /\ items[t] # <<>>
         /\ UNCHANGED <<thread, opened, load, work, shared, due>>
         /\ \/ Taken(t, "gateway", asked[t])
            \/ /\ Head(items[t]).kind = "status" /\ Head(items[t]).thread = opened[t]
               /\ Taken(t, "turn", "sent")
            \/ (\E o \in {"error", "unavailable"} : Over(t, o)) /\ open' = open \ {t}
<1> DEFINE n == Head(items[t])
           mine == n.kind = "status" /\ n.thread = opened[t]
<1>1. /\ at[t] = "gateway" /\ items[t] # <<>>
      /\ UNCHANGED <<thread, opened, load, work, shared, due>>
  BY DEF GatewayItem, codexVars
<1>2. \/ Shift(t, "gateway") /\ UNCHANGED asked
      \/ mine /\ Shift(t, "turn") /\ asked' = [asked EXCEPT ![t] = "sent"]
      \/ \E o \in {"error", "unavailable"} : End(t, o)
  BY DEF GatewayItem
<1>3. CASE Shift(t, "gateway") /\ UNCHANGED asked
  <2>1. asked' = [asked EXCEPT ![t] = asked[t]] /\ asked[t] \in {"none", "sent", "handled"}
    BY <1>3 DEF ControlTypes
  <2> QED
    BY <1>1, <1>3, <2>1, ShiftControl DEF PC
<1>4. CASE mine /\ Shift(t, "turn") /\ asked' = [asked EXCEPT ![t] = "sent"]
  <2>1. "turn" \in PC
    BY DEF PC, Requests
  <2> QED
    BY <1>1, <1>4, <2>1, ShiftControl
<1>5. CASE \E o \in {"error", "unavailable"} : End(t, o)
  BY <1>1, <1>5, EndControl DEF Outcome
<1> QED
  BY <1>2, <1>3, <1>4, <1>5

LEMMA GatewayNoneDoes ==
  ASSUME ControlTypes, NEW t \in Turn, GatewayNone(t)
  PROVE  /\ ControlTypes' /\ Others(t) /\ at[t] = "gateway" /\ Over(t, "unavailable")
         /\ open' = open \ {t} /\ UNCHANGED <<thread, opened, load, work, shared, due>>
BY EndControl DEF GatewayNone, Outcome, codexVars

LEMMA ReadItemDoes ==
  ASSUME ControlTypes, NEW t \in Turn, ReadItem(t)
  PROVE  /\ ControlTypes' /\ Others(t) /\ at[t] = "read" /\ items[t] # <<>>
         /\ UNCHANGED <<thread, opened, load, work, shared, due>>
         /\ LET n == Head(items[t])  mine == n.kind = "completed" /\ n.thread = opened[t] IN
            \/ ~mine /\ Taken(t, "read", asked[t])
            \/ /\ mine /\ open' = open \ {t} /\ Over(t, Conclusion(t, n.says))
<1> DEFINE n == Head(items[t])
           mine == n.kind = "completed" /\ n.thread = opened[t]
<1>1. /\ at[t] = "read" /\ items[t] # <<>>
      /\ UNCHANGED <<thread, opened, load, work, shared, due>>
  BY DEF ReadItem, codexVars
<1>2. \/ ~mine /\ Shift(t, "read") /\ UNCHANGED asked
      \/ mine /\ End(t, Conclusion(t, n.says))
  BY DEF ReadItem
<1>3. CASE ~mine /\ Shift(t, "read") /\ UNCHANGED asked
  <2>1. asked' = [asked EXCEPT ![t] = asked[t]] /\ asked[t] \in {"none", "sent", "handled"}
    BY <1>3 DEF ControlTypes
  <2> QED
    BY <1>1, <1>3, <2>1, ShiftControl DEF PC
<1>4. CASE mine /\ End(t, Conclusion(t, n.says))
  <2>1. Conclusion(t, n.says) \in Outcome
    BY DEF Conclusion, Outcome
  <2> QED
    BY <1>1, <1>4, <2>1, EndControl
<1> QED
  BY <1>2, <1>3, <1>4

LEMMA ReadNoneDoes ==
  ASSUME ControlTypes, NEW t \in Turn, ReadNone(t)
  PROVE  /\ ControlTypes' /\ Others(t) /\ at[t] = "read" /\ items[t] = <<>> /\ t \notin open
         /\ Sent(t, "interrupt") /\ UNCHANGED <<thread, opened, load, work, shared, due>>
<1>1. "interrupt" \in Requests
  BY DEF Requests
<1> QED
  BY <1>1, SendControl DEF ReadNone, codexVars

LEMMA InterruptGraceDoes ==
  ASSUME ControlTypes, NEW t \in Turn, InterruptGrace(t)
  PROVE  /\ ControlTypes' /\ Others(t) /\ at[t] = "interrupt" /\ open' = open \ {t}
         /\ UNCHANGED <<thread, opened, load, work, shared, due>>
         /\ \E o \in {"aborted", "failed"} : Over(t, o)
<1>1. Conclusion(t, "none") \in {"aborted", "failed"} /\ Conclusion(t, "none") \in Outcome
  BY ConclusionNone DEF Outcome
<1> QED
  BY <1>1, EndControl DEF InterruptGrace, codexVars

LEMMA HandleDoes ==
  ASSUME ControlTypes, NEW t \in Turn, Handle(t)
  PROVE  /\ ControlTypes' /\ Others(t) /\ asked[t] = "sent" /\ Moved(t, at[t], "handled")
         /\ UNCHANGED <<open, thread, shared, due>>
         /\ \/ at[t] = "unsubscribe" /\ Unload(opened[t]) /\ UNCHANGED opened
            \/ /\ at[t] = "resume"
               /\ load' = [load EXCEPT ![t] = "loading"] /\ UNCHANGED <<work, opened>>
            \/ /\ at[t] = "thread" /\ opened' = [opened EXCEPT ![t] = t]
               /\ load' = [load EXCEPT ![t] = "loading"] /\ UNCHANGED work
            \/ /\ at[t] = "turn"
               /\ work' = [work EXCEPT ![t] = "running"] /\ UNCHANGED <<load, opened>>
            \/ at[t] = "interrupt" /\ UNCHANGED <<load, work, opened>>
<1>1. /\ asked[t] = "sent" /\ asked' = [asked EXCEPT ![t] = "handled"]
      /\ UNCHANGED <<at, open, items, outcome, thread, shared, due>>
      /\ \/ at[t] = "unsubscribe" /\ Unload(opened[t]) /\ UNCHANGED opened
         \/ /\ at[t] = "resume"
            /\ load' = [load EXCEPT ![t] = "loading"] /\ UNCHANGED <<work, opened>>
         \/ /\ at[t] = "thread" /\ opened' = [opened EXCEPT ![t] = t]
            /\ load' = [load EXCEPT ![t] = "loading"] /\ UNCHANGED work
         \/ /\ at[t] = "turn"
            /\ work' = [work EXCEPT ![t] = "running"] /\ UNCHANGED <<load, opened>>
         \/ at[t] = "interrupt" /\ UNCHANGED <<load, work, opened>>
  BY DEF Handle
<1>2. at' = [at EXCEPT ![t] = at[t]] /\ at[t] \in PC /\ open' \subseteq Turn
  BY <1>1 DEF ControlTypes
<1>3. ControlTypes' /\ Others(t) /\ Moved(t, at[t], "handled")
  BY <1>1, <1>2, MoveControl
<1> QED
  BY <1>1, <1>3

LEMMA AnswerDoes ==
  ASSUME ControlTypes, NEW t \in Turn, Answer(t)
  PROVE  /\ ControlTypes' /\ Others(t) /\ asked[t] = "handled"
         /\ UNCHANGED <<thread, opened, load, work, shared, due>>
         /\ \/ at[t] = "unsubscribe" /\ Sent(t, "resume")
            \/ at[t] = "resume" /\ Moved(t, "gateway", "none") /\ open' = open
            \/ at[t] = "thread" /\ Moved(t, "remember", "none") /\ open' = open
            \/ at[t] = "turn" /\ Moved(t, "read", "none") /\ open' = open
            \/ /\ at[t] = "interrupt" /\ open' = open \ {t}
               /\ \E o \in {"aborted", "failed"} : Over(t, o)
<1>1. /\ asked[t] = "handled"
      /\ UNCHANGED <<thread, opened, load, work, shared, due>>
  BY DEF Answer, codexVars
<1>2. CASE at[t] = "unsubscribe" /\ Send(t, "resume")
  BY <1>1, <1>2, SendControl DEF Requests
<1>3. CASE at[t] = "resume" /\ Goes(t, "gateway")
  BY <1>1, <1>3, GoesControl DEF PC
<1>4. CASE at[t] = "thread" /\ Goes(t, "remember")
  BY <1>1, <1>4, GoesControl DEF PC
<1>5. CASE at[t] = "turn" /\ Goes(t, "read")
  BY <1>1, <1>5, GoesControl DEF PC
<1>6. CASE at[t] = "interrupt" /\ End(t, Conclusion(t, "none"))
  <2>1. Conclusion(t, "none") \in {"aborted", "failed"} /\ Conclusion(t, "none") \in Outcome
    BY ConclusionNone DEF Outcome
  <2> QED
    BY <1>1, <1>6, <2>1, EndControl
<1> QED
  BY <1>2, <1>3, <1>4, <1>5, <1>6 DEF Answer

LEMMA RefuseDoes ==
  ASSUME ControlTypes, NEW t \in Turn, Refuse(t)
  PROVE  /\ ControlTypes' /\ Others(t) /\ asked[t] = "sent"
         /\ UNCHANGED <<thread, opened, load, work, due>>
         /\ shared' = IF at[t] = "unsubscribe" THEN shared \cup {t} ELSE shared
         /\ \/ at[t] = "unsubscribe" /\ Sent(t, "resume")
            \/ at[t] = "resume" /\ Sent(t, "thread")
            \/ at[t] \in {"thread", "turn"} /\ Over(t, "error") /\ open' = open \ {t}
            \/ /\ at[t] = "interrupt" /\ open' = open \ {t}
               /\ \E o \in {"aborted", "failed"} : Over(t, o)
<1>1. /\ asked[t] = "sent"
      /\ UNCHANGED <<thread, opened, load, work, due>>
      /\ shared' = IF at[t] = "unsubscribe" THEN shared \cup {t} ELSE shared
  BY DEF Refuse, codexVars
<1>2. CASE at[t] = "unsubscribe" /\ Send(t, "resume")
  BY <1>1, <1>2, SendControl DEF Requests
<1>3. CASE at[t] = "resume" /\ Send(t, "thread")
  BY <1>1, <1>3, SendControl DEF Requests
<1>4. CASE at[t] \in {"thread", "turn"} /\ End(t, "error")
  BY <1>1, <1>4, EndControl DEF Outcome
<1>5. CASE at[t] = "interrupt" /\ End(t, Conclusion(t, "none"))
  <2>1. Conclusion(t, "none") \in {"aborted", "failed"} /\ Conclusion(t, "none") \in Outcome
    BY ConclusionNone DEF Outcome
  <2> QED
    BY <1>1, <1>5, <2>1, EndControl
<1> QED
  BY <1>2, <1>3, <1>4, <1>5 DEF Refuse

LEMMA StopDoes ==
  ASSUME ControlTypes, NEW t \in Turn, NEW why, Stop(t, why)
  PROVE  /\ ControlTypes' /\ open' = open \ {t}
         /\ UNCHANGED <<at, asked, items, outcome>>
         /\ UNCHANGED <<thread, opened, load, work, shared, due>>
BY DEF Stop, ControlTypes, codexVars

LEMMA HandshakeOkDoes ==
  ASSUME ControlTypes, NEW g \in Gen, HandshakeOk(g)
  PROVE  /\ ControlTypes' /\ open' = open \cup Waiting(g)
         /\ UNCHANGED <<thread, opened, load, work, shared, due>>
         /\ \A u \in Turn : \/ u \notin Waiting(g) /\ Same(u)
                            \/ /\ u \in Waiting(g) /\ at[u] = "connect"
                               /\ Moved(u, "lookup", asked[u])
<1>1. /\ at' = [t \in Turn |-> IF t \in Waiting(g) THEN "lookup" ELSE at[t]]
      /\ open' = open \cup Waiting(g) /\ UNCHANGED <<asked, items, outcome>>
      /\ UNCHANGED <<thread, opened, load, work, shared, due>>
  BY DEF HandshakeOk, Subscribe, codexVars
<1>2. Waiting(g) \subseteq Turn /\ \A u \in Waiting(g) : at[u] = "connect"
  BY DEF Waiting
<1>3. ControlTypes'
  BY <1>1, <1>2 DEF ControlTypes, PC
<1> QED
  BY <1>1, <1>2, <1>3 DEF Same, Moved

LEMMA HandshakeFailsDoes ==
  ASSUME ControlTypes, NEW g \in Gen, HandshakeFails(g)
  PROVE  /\ ControlTypes' /\ open' = open /\ UNCHANGED <<thread, opened, load, work, shared, due>>
         /\ \A u \in Turn : Same(u) \/ (at[u] = "connect" /\ Over(u, "error"))
<1> DEFINE O == [t \in Waiting(g) |-> "error"]
<1>1. /\ Ended(Waiting(g), O) /\ open' = open
      /\ UNCHANGED <<thread, opened, load, work, shared, due>>
  BY DEF HandshakeFails, codexVars
<1>2. Waiting(g) \in SUBSET Turn /\ \A u \in Waiting(g) : at[u] = "connect" /\ O[u] = "error"
  BY DEF Waiting
<1>3. "error" \in Outcome
  BY DEF Outcome
<1> HIDE DEF O
<1>4. /\ at' \in [Turn -> PC] /\ asked' \in [Turn -> {"none", "sent", "handled"}]
      /\ items' \in [Turn -> Seq(Note)] /\ outcome' \in [Turn -> Outcome]
      /\ \A u \in Waiting(g) : Over(u, O[u])
      /\ \A u \in Turn \ Waiting(g) : Same(u)
  BY <1>1, <1>2, <1>3, EndedControl
<1> QED
  BY <1>1, <1>2, <1>4 DEF ControlTypes

(* The loss of a connection ends the turns that wait for an answer on it,   *)
(* and drops what codex did there.                                          *)
LEMMA ClosedDoes ==
  ASSUME ControlTypes, NEW g \in Gen, Closed(g)
  PROVE  /\ ControlTypes' /\ open' \subseteq open /\ UNCHANGED <<thread, opened, shared, due>>
         /\ \A u \in Turn :
              \/ Same(u)
              \/ /\ at[u] \in {"connect"} \cup Requests /\ u \notin open'
                 /\ \E o \in {"error", "aborted", "failed"} :
                      Over(u, o) /\ (at[u] # "interrupt" => o = "error")
         /\ work' = [t \in Turn |->
                       IF gen[t] = g /\ work[t] = "running" THEN "dropped" ELSE work[t]]
         /\ load' = [t \in Turn |->
                       IF gen[t] = g /\ load[t] = "loading" THEN "none" ELSE load[t]]
<1> DEFINE failing == {t \in Turn : gen[t] = g /\ at[t] \in {"connect"} \cup Requests}
           O == [t \in failing |-> IF at[t] = "interrupt" THEN Conclusion(t, "none") ELSE "error"]
<1>1. /\ Ended(failing, O) /\ UNCHANGED <<thread, opened, shared, due>>
      /\ open' = {t \in open : gen[t] # g}
      /\ work' = [t \in Turn |->
                    IF gen[t] = g /\ work[t] = "running" THEN "dropped" ELSE work[t]]
      /\ load' = [t \in Turn |->
                    IF gen[t] = g /\ load[t] = "loading" THEN "none" ELSE load[t]]
  BY DEF Closed
<1>2. \A u \in failing : /\ O[u] \in {"error", "aborted", "failed"}
                         /\ at[u] # "interrupt" => O[u] = "error"
  BY ConclusionNone
<1>3. \A u \in failing : O[u] \in Outcome
  BY <1>2 DEF Outcome
<1>4. failing \in SUBSET Turn
  OBVIOUS
<1>5. \A u \in failing : u \notin open' /\ at[u] \in {"connect"} \cup Requests
  BY <1>1
<1> HIDE DEF O, failing
<1>6. /\ at' \in [Turn -> PC] /\ asked' \in [Turn -> {"none", "sent", "handled"}]
      /\ items' \in [Turn -> Seq(Note)] /\ outcome' \in [Turn -> Outcome]
      /\ \A u \in failing : Over(u, O[u])
      /\ \A u \in Turn \ failing : Same(u)
  BY <1>1, <1>3, <1>4, EndedControl
<1>7. ControlTypes' /\ open' \subseteq open
  BY <1>1, <1>6 DEF ControlTypes
<1>8. \A u \in Turn :
        \/ Same(u)
        \/ /\ at[u] \in {"connect"} \cup Requests /\ u \notin open'
           /\ \E o \in {"error", "aborted", "failed"} :
                Over(u, o) /\ (at[u] # "interrupt" => o = "error")
  BY <1>2, <1>5, <1>6
<1> QED
  BY <1>1, <1>7, <1>8

(* A status and an end join the queues that are subscribed to the           *)
(* connection.                                                              *)
LEMMA TellDoes ==
  ASSUME ControlTypes, PhaseInv, NEW t \in Turn, NEW v \in {"ready", "failed"}, Tell(t, v)
  PROVE  /\ ControlTypes' /\ Status(opened[t], v) \in Note /\ load[t] = "loading"
         /\ load' = [load EXCEPT ![t] = "told"]
         /\ UNCHANGED <<at, asked, outcome, open, thread, opened, work, due>>
         /\ shared' = shared \cup {u \in open \ {t} : gen[u] = gen[t] /\ SessionOf[u] = SessionOf[t]}
         /\ \A u \in Turn : \/ items'[u] = items[u]
                            \/ /\ u \in open /\ gen[u] = gen[t]
                               /\ items'[u] = Append(items[u], Status(opened[t], v))
<1>1. /\ load[t] = "loading" /\ load' = [load EXCEPT ![t] = "told"]
      /\ Push(gen[t], Status(opened[t], v))
      /\ UNCHANGED <<at, asked, outcome, open, thread, opened, work, due>>
      /\ shared' = shared \cup {u \in open \ {t} : gen[u] = gen[t] /\ SessionOf[u] = SessionOf[t]}
  BY DEF Tell
<1>2. opened[t] \in Turn
  BY <1>1 DEF PhaseInv, Phase
<1>3. Status(opened[t], v) \in Note
  BY <1>2 DEF Status, Note
<1>4. ControlTypes'
  BY <1>1, <1>3, PushControl
<1>5. \A u \in Turn : \/ items'[u] = items[u]
                      \/ /\ u \in open /\ gen[u] = gen[t]
                         /\ items'[u] = Append(items[u], Status(opened[t], v))
  BY <1>1 DEF Push
<1> QED
  BY <1>1, <1>3, <1>4, <1>5

LEMMA CodexEndsDoes ==
  ASSUME ControlTypes, PhaseInv, NEW t \in Turn, NEW v \in {"completed", "interrupted"},
         CodexEnds(t, v)
  PROVE  /\ ControlTypes' /\ Completed(opened[t], t, v) \in Note /\ work[t] = "running"
         /\ work' = [work EXCEPT ![t] = v]
         /\ UNCHANGED <<at, asked, outcome, open, thread, opened, load, shared>>
         /\ due' = IF v = "completed" /\ t \in open THEN due \cup {t} ELSE due
         /\ \A u \in Turn : \/ items'[u] = items[u] /\ ~(u \in open /\ gen[u] = gen[t])
                            \/ /\ u \in open /\ gen[u] = gen[t]
                               /\ items'[u] = Append(items[u], Completed(opened[t], t, v))
<1>1. /\ work[t] = "running" /\ work' = [work EXCEPT ![t] = v]
      /\ Push(gen[t], Completed(opened[t], t, v))
      /\ UNCHANGED <<at, asked, outcome, open, thread, opened, load, shared>>
      /\ due' = IF v = "completed" /\ t \in open THEN due \cup {t} ELSE due
  BY DEF CodexEnds
<1>2. opened[t] \in Turn
  BY <1>1 DEF PhaseInv, Phase
<1>3. Completed(opened[t], t, v) \in Note
  BY <1>2 DEF Completed, Note
<1>4. ControlTypes'
  BY <1>1, <1>3, PushControl
<1>5. \A u \in Turn : \/ items'[u] = items[u] /\ ~(u \in open /\ gen[u] = gen[t])
                      \/ /\ u \in open /\ gen[u] = gen[t]
                         /\ items'[u] = Append(items[u], Completed(opened[t], t, v))
  BY <1>1 DEF Push
<1> QED
  BY <1>1, <1>3, <1>4, <1>5

(* An unload drops what runs and what is loading. *)
LEMMA UnloadDoes ==
  ASSUME DataTypes, NEW k, Unload(k)
  PROVE  /\ work' \in [Turn -> {"none", "running", "completed", "interrupted", "dropped"}]
         /\ load' \in [Turn -> {"none", "loading", "told"}]
         /\ \A u \in Turn : /\ work'[u] # work[u] => work[u] = "running" /\ work'[u] = "dropped"
                            /\ load'[u] # load[u] => load[u] = "loading" /\ load'[u] = "none"
                            /\ opened[u] = k => work'[u] # "running"
BY DEF Unload, DataTypes

(* Every step keeps the types of the control *)
LEMMA ControlStep ==
  ASSUME ControlTypes, PhaseInv, [AgentNext]_agentVars
  PROVE  ControlTypes'
<1>1. ASSUME NEW t \in Turn, Begin(t) PROVE ControlTypes'
  BY <1>1, BeginDoes
<1>2. ASSUME NEW t \in Turn, Prepared(t) PROVE ControlTypes'
  BY <1>2, PreparedDoes
<1>3. ASSUME NEW t \in Turn, Lookup(t) PROVE ControlTypes'
  BY <1>3, LookupDoes
<1>4. ASSUME NEW t \in Turn, Remember(t) PROVE ControlTypes'
  BY <1>4, RememberDoes
<1>5. ASSUME NEW t \in Turn, GatewayItem(t) PROVE ControlTypes'
  BY <1>5, GatewayItemDoes
<1>6. ASSUME NEW t \in Turn, GatewayNone(t) PROVE ControlTypes'
  BY <1>6, GatewayNoneDoes
<1>7. ASSUME NEW t \in Turn, ReadItem(t) PROVE ControlTypes'
  BY <1>7, ReadItemDoes
<1>8. ASSUME NEW t \in Turn, ReadNone(t) PROVE ControlTypes'
  BY <1>8, ReadNoneDoes
<1>9. ASSUME NEW t \in Turn, InterruptGrace(t) PROVE ControlTypes'
  BY <1>9, InterruptGraceDoes
<1>10. ASSUME NEW t \in Turn, Handle(t) PROVE ControlTypes'
  BY <1>10, HandleDoes
<1>11. ASSUME NEW t \in Turn, Answer(t) PROVE ControlTypes'
  BY <1>11, AnswerDoes
<1>12. ASSUME NEW t \in Turn, Refuse(t) PROVE ControlTypes'
  BY <1>12, RefuseDoes
<1>13. ASSUME NEW t \in Turn, NEW why \in {"reader", "deadline"}, Stop(t, why)
      PROVE ControlTypes'
  BY <1>13, StopDoes
<1>14. ASSUME NEW t \in Turn, NEW v \in {"ready", "failed"}, Tell(t, v) PROVE ControlTypes'
  BY <1>14, TellDoes
<1>15. ASSUME NEW t \in Turn, NEW v \in {"completed", "interrupted"}, CodexEnds(t, v)
      PROVE ControlTypes'
  BY <1>15, CodexEndsDoes
<1>16. ASSUME NEW g \in Gen, HandshakeOk(g) PROVE ControlTypes'
  BY <1>16, HandshakeOkDoes
<1>17. ASSUME NEW g \in Gen, HandshakeFails(g) PROVE ControlTypes'
  BY <1>17, HandshakeFailsDoes
<1>18. ASSUME NEW g \in Gen, Exit(g) PROVE ControlTypes'
  <2>1. Closed(g)
    BY <1>18 DEF Exit
  <2> QED
    BY <2>1, ClosedDoes
<1>19. ASSUME NEW g \in Gen, SpawnFails(g) PROVE ControlTypes'
  <2>1. Closed(g)
    BY <1>19 DEF SpawnFails
  <2> QED
    BY <2>1, ClosedDoes
<1>20. ASSUME UNCHANGED agentVars PROVE ControlTypes'
  BY <1>20 DEF agentVars, ControlTypes
<1>21. ASSUME NEW t \in Turn, DatabaseFails(t) PROVE ControlTypes'
  BY <1>21, DatabaseDoes
<1> QED
  BY <1>1, <1>2, <1>3, <1>4, <1>5, <1>6, <1>7, <1>8, <1>9, <1>10, <1>11, <1>12, <1>13, <1>14,
     <1>15, <1>16, <1>17, <1>18, <1>19, <1>20, <1>21
     DEF AgentNext, TurnStep, CodexAnswers, Handshake, AllDone

(* and of the data. *)
LEMMA DataStep ==
  ASSUME AgentWellFormed, ControlTypes, PhaseInv, DataTypes, [AgentNext]_agentVars
  PROVE  DataTypes'
<1>1. ASSUME NEW t \in Turn, Begin(t) PROVE DataTypes'
  <2>1. UNCHANGED <<thread, opened, load, work, due>> /\ shared' \subseteq Turn
    BY <1>1 DEF Begin, codexVars, DataTypes
  <2> QED
    BY <2>1 DEF DataTypes
<1>2. ASSUME NEW t \in Turn, Prepared(t) PROVE DataTypes'
  BY <1>2, PreparedDoes DEF DataTypes
<1>3. ASSUME NEW t \in Turn, Lookup(t) PROVE DataTypes'
  BY <1>3, LookupDoes DEF DataTypes, AgentWellFormed
<1>4. ASSUME NEW t \in Turn, Remember(t) PROVE DataTypes'
  BY <1>4, RememberDoes DEF DataTypes, AgentWellFormed
<1>5. ASSUME NEW t \in Turn, GatewayItem(t) PROVE DataTypes'
  BY <1>5, GatewayItemDoes DEF DataTypes
<1>6. ASSUME NEW t \in Turn, GatewayNone(t) PROVE DataTypes'
  BY <1>6, GatewayNoneDoes DEF DataTypes
<1>7. ASSUME NEW t \in Turn, ReadItem(t) PROVE DataTypes'
  BY <1>7, ReadItemDoes DEF DataTypes
<1>8. ASSUME NEW t \in Turn, ReadNone(t) PROVE DataTypes'
  BY <1>8, ReadNoneDoes DEF DataTypes
<1>9. ASSUME NEW t \in Turn, InterruptGrace(t) PROVE DataTypes'
  BY <1>9, InterruptGraceDoes DEF DataTypes
<1>10. ASSUME NEW t \in Turn, Handle(t) PROVE DataTypes'
  <2>1. UNCHANGED <<thread, shared, due>>
    BY <1>10, HandleDoes
  <2>2. \/ Unload(opened[t]) /\ UNCHANGED opened
        \/ load' = [load EXCEPT ![t] = "loading"] /\ UNCHANGED <<work, opened>>
        \/ /\ opened' = [opened EXCEPT ![t] = t]
           /\ load' = [load EXCEPT ![t] = "loading"] /\ UNCHANGED work
        \/ work' = [work EXCEPT ![t] = "running"] /\ UNCHANGED <<load, opened>>
        \/ UNCHANGED <<load, work, opened>>
    BY <1>10, HandleDoes
  <2> QED
    BY <2>1, <2>2, UnloadDoes DEF DataTypes
<1>11. ASSUME NEW t \in Turn, Answer(t) PROVE DataTypes'
  BY <1>11, AnswerDoes DEF DataTypes
<1>12. ASSUME NEW t \in Turn, Refuse(t) PROVE DataTypes'
  <2>1. UNCHANGED <<thread, opened, load, work, due>> /\ shared' \subseteq Turn
    BY <1>12, RefuseDoes DEF DataTypes
  <2> QED
    BY <2>1 DEF DataTypes
<1>13. ASSUME NEW t \in Turn, NEW why \in {"reader", "deadline"}, Stop(t, why) PROVE DataTypes'
  BY <1>13, StopDoes DEF DataTypes
<1>14. ASSUME NEW t \in Turn, NEW v \in {"ready", "failed"}, Tell(t, v) PROVE DataTypes'
  <2>1. UNCHANGED <<thread, opened, work, due>> /\ load' = [load EXCEPT ![t] = "told"]
        /\ shared' \subseteq Turn
    BY <1>14, TellDoes DEF DataTypes, ControlTypes
  <2> QED
    BY <2>1 DEF DataTypes
<1>15. ASSUME NEW t \in Turn, NEW v \in {"completed", "interrupted"}, CodexEnds(t, v)
      PROVE DataTypes'
  BY <1>15, CodexEndsDoes DEF DataTypes
<1>16. ASSUME NEW g \in Gen, HandshakeOk(g) PROVE DataTypes'
  BY <1>16, HandshakeOkDoes DEF DataTypes
<1>17. ASSUME NEW g \in Gen, HandshakeFails(g) PROVE DataTypes'
  BY <1>17, HandshakeFailsDoes DEF DataTypes
<1>18. ASSUME NEW g \in Gen, Exit(g) PROVE DataTypes'
  <2>1. Closed(g)
    BY <1>18 DEF Exit
  <2> QED
    BY <2>1, ClosedDoes DEF DataTypes
<1>19. ASSUME NEW g \in Gen, SpawnFails(g) PROVE DataTypes'
  <2>1. Closed(g)
    BY <1>19 DEF SpawnFails
  <2> QED
    BY <2>1, ClosedDoes DEF DataTypes
<1>20. ASSUME UNCHANGED agentVars PROVE DataTypes'
  BY <1>20 DEF agentVars, DataTypes
<1>21. ASSUME NEW t \in Turn, DatabaseFails(t) PROVE DataTypes'
  BY <1>21, DatabaseDoes DEF DataTypes, AgentWellFormed
<1> QED
  BY <1>1, <1>2, <1>3, <1>4, <1>5, <1>6, <1>7, <1>8, <1>9, <1>10, <1>11, <1>12, <1>13, <1>14,
     <1>15, <1>16, <1>17, <1>18, <1>19, <1>20, <1>21
     DEF AgentNext, TurnStep, CodexAnswers, Handshake, AllDone

(* A turn that a step leaves alone stays where it is. *)
LEMMA PhaseSame ==
  ASSUME NEW u \in Turn, Phase(u), Same(u), opened'[u] = opened[u], u \in open' => u \in open,
         load'[u] # "none" => load[u] # "none", work'[u] # "none" => work[u] # "none"
  PROVE  Phase(u)'
BY DEF Phase, Loaded, Handled, Same

(* A turn that is over is loaded or never was. *)
LEMMA PhaseOver ==
  ASSUME NEW u \in Turn, NEW o, Phase(u), Over(u, o), opened'[u] = opened[u], u \notin open',
         load'[u] # "none" => load[u] # "none", work'[u] # "none" => work[u] # "none"
  PROVE  Phase(u)'
BY DEF Phase, Loaded, Handled, Over

(* The step of one turn, *)
LEMMA PhaseOthers ==
  ASSUME PhaseInv, NEW t \in Turn, Others(t), open' \subseteq open \cup {t},
         \A u \in Turn \ {t} : /\ opened'[u] = opened[u]
                               /\ load'[u] # "none" => load[u] # "none"
                               /\ work'[u] # "none" => work[u] # "none",
         Phase(t)'
  PROVE  PhaseInv'
<1> SUFFICES ASSUME NEW u \in Turn PROVE Phase(u)'
  BY DEF PhaseInv
<1>1. CASE u = t
  BY <1>1
<1>2. CASE u # t
  BY <1>2, PhaseSame DEF PhaseInv, Others
<1> QED
  BY <1>1, <1>2

(* and the loss of a connection. *)
LEMMA PhaseClosed ==
  ASSUME ControlTypes, DataTypes, PhaseInv, NEW g \in Gen, Closed(g)
  PROVE  PhaseInv'
<1>1. /\ opened' = opened /\ open' \subseteq open
      /\ \A u \in Turn : \/ Same(u)
                         \/ u \notin open' /\ \E o : Over(u, o)
  BY ClosedDoes
<1>2. \A u \in Turn : /\ load'[u] # "none" => load[u] # "none"
                      /\ work'[u] # "none" => work[u] # "none"
  BY ClosedDoes DEF DataTypes
<1>3. ASSUME NEW u \in Turn PROVE Phase(u)'
  <2>1. Phase(u)
    BY DEF PhaseInv
  <2>2. CASE Same(u)
    BY <1>1, <1>2, <2>1, <2>2, PhaseSame
  <2>3. CASE u \notin open' /\ \E o : Over(u, o)
    BY <1>1, <1>2, <2>1, <2>3, PhaseOver
  <2> QED
    BY <1>1, <2>2, <2>3
<1> QED
  BY <1>3 DEF PhaseInv

(* Every step leads from one point of a run to the next. *)
LEMMA PhaseStep ==
  ASSUME AgentWellFormed, ControlTypes, DataTypes, PhaseInv, ThreadInv, [AgentNext]_agentVars
  PROVE  PhaseInv'
<1>1. ASSUME NEW t \in Turn, Begin(t) PROVE PhaseInv'
  <2>1. /\ Others(t) /\ UNCHANGED <<opened, load, work>> /\ open' \subseteq open \cup {t}
        /\ Phase(t)
    BY <1>1, BeginDoes DEF PhaseInv
  <2>2. at[t] = "new" /\ Moved(t, "prepare", asked[t]) /\ open' = open
    BY <1>1, BeginDoes
  <2>9. Phase(t)'
    BY <2>1, <2>2 DEF Phase, Loaded, Handled, Moved, Requests
  <2> QED
    BY <2>1, <2>9, PhaseOthers
<1>2. ASSUME NEW t \in Turn, Prepared(t) PROVE PhaseInv'
  <2>1. /\ Others(t) /\ UNCHANGED <<opened, load, work>> /\ open' \subseteq open \cup {t}
        /\ Phase(t)
    BY <1>2, PreparedDoes DEF PhaseInv
  <2>2. /\ at[t] = "prepare"
        /\ \/ Over(t, "error") /\ open' = open \ {t}
           \/ Moved(t, "connect", "none") /\ open' = open
           \/ Moved(t, "lookup", asked[t]) /\ open' = open \cup {t}
    BY <1>2, PreparedDoes
  <2>9. Phase(t)'
    BY <2>1, <2>2 DEF Phase, Loaded, Handled, Moved, Over, Requests
  <2> QED
    BY <2>1, <2>9, PhaseOthers
<1>3. ASSUME NEW t \in Turn, Lookup(t) PROVE PhaseInv'
  <2>1. /\ Others(t) /\ at[t] = "lookup" /\ UNCHANGED <<load, work>> /\ Phase(t)
        /\ opened' = [opened EXCEPT ![t] = thread[SessionOf[t]]]
        /\ Sent(t, IF thread[SessionOf[t]] = NoThread THEN "thread" ELSE "unsubscribe")
    BY <1>3, LookupDoes DEF PhaseInv
  <2>2. thread[SessionOf[t]] \in Turn \cup {NoThread} /\ opened'[t] = thread[SessionOf[t]]
    BY <2>1 DEF DataTypes, AgentWellFormed
  <2>3. thread[SessionOf[t]] # t
    <3> SUFFICES ASSUME thread[SessionOf[t]] = t PROVE FALSE
      OBVIOUS
    <3>1. opened[t] = t
      BY DEF ThreadInv, AgentWellFormed
    <3> QED
      BY <2>1, <3>1 DEF Phase, Loaded, Handled
  <2>4. open' \subseteq open \cup {t} /\ \A u \in Turn \ {t} : opened'[u] = opened[u]
    BY <2>1 DEF Sent, DataTypes
  <2>5. load[t] = "none" /\ work[t] = "none" /\ outcome[t] = "none"
    BY <2>1 DEF Phase, Loaded, Handled
  <2>6. Phase(t)'
    BY <2>1, <2>2, <2>3, <2>5 DEF Phase, Loaded, Handled, Sent, Moved, Over, Requests
  <2> QED
    BY <2>1, <2>4, <2>6, PhaseOthers
<1>4. ASSUME NEW t \in Turn, Remember(t) PROVE PhaseInv'
  <2>1. /\ Others(t) /\ UNCHANGED <<opened, load, work>> /\ open' \subseteq open \cup {t}
        /\ Phase(t)
    BY <1>4, RememberDoes DEF PhaseInv
  <2>2. at[t] = "remember" /\ Moved(t, "gateway", "none") /\ open' = open
    BY <1>4, RememberDoes
  <2>9. Phase(t)'
    BY <2>1, <2>2 DEF Phase, Loaded, Handled, Moved, Requests
  <2> QED
    BY <2>1, <2>9, PhaseOthers
<1>5. ASSUME NEW t \in Turn, GatewayItem(t) PROVE PhaseInv'
  <2>1. /\ Others(t) /\ UNCHANGED <<opened, load, work>> /\ Phase(t) /\ at[t] = "gateway"
        /\ \/ Taken(t, "gateway", asked[t])
           \/ Taken(t, "turn", "sent")
           \/ (\E o \in {"error", "unavailable"} : Over(t, o)) /\ open' = open \ {t}
    BY <1>5, GatewayItemDoes DEF PhaseInv
  <2>2. open' \subseteq open \cup {t}
    BY <2>1 DEF Taken
  <2>3. Phase(t)'
    BY <2>1 DEF Phase, Loaded, Handled, Taken, Over, Requests
  <2> QED
    BY <2>1, <2>2, <2>3, PhaseOthers
<1>6. ASSUME NEW t \in Turn, GatewayNone(t) PROVE PhaseInv'
  <2>1. /\ Others(t) /\ UNCHANGED <<opened, load, work>> /\ open' \subseteq open \cup {t}
        /\ Phase(t)
    BY <1>6, GatewayNoneDoes DEF PhaseInv
  <2>2. t \notin open' /\ \E o : Over(t, o)
    BY <1>6, GatewayNoneDoes
  <2>9. Phase(t)'
    BY <2>1, <2>2, PhaseOver
  <2> QED
    BY <2>1, <2>9, PhaseOthers
<1>7. ASSUME NEW t \in Turn, ReadItem(t) PROVE PhaseInv'
  <2>1. /\ Others(t) /\ UNCHANGED <<opened, load, work>> /\ Phase(t) /\ at[t] = "read"
        /\ \/ Taken(t, "read", asked[t])
           \/ (\E o : Over(t, o)) /\ open' = open \ {t}
    BY <1>7, ReadItemDoes DEF PhaseInv
  <2>2. open' \subseteq open \cup {t}
    BY <2>1 DEF Taken
  <2>3. Phase(t)'
    BY <2>1 DEF Phase, Loaded, Handled, Taken, Over, Requests
  <2> QED
    BY <2>1, <2>2, <2>3, PhaseOthers
<1>8. ASSUME NEW t \in Turn, ReadNone(t) PROVE PhaseInv'
  <2>1. /\ Others(t) /\ UNCHANGED <<opened, load, work>> /\ Phase(t) /\ at[t] = "read"
        /\ t \notin open /\ Sent(t, "interrupt")
    BY <1>8, ReadNoneDoes DEF PhaseInv
  <2>2. open' \subseteq open \cup {t} /\ t \notin open'
    BY <2>1 DEF Sent
  <2>3. Phase(t)'
    BY <2>1, <2>2 DEF Phase, Loaded, Handled, Sent, Moved, Over, Requests
  <2> QED
    BY <2>1, <2>2, <2>3, PhaseOthers
<1>9. ASSUME NEW t \in Turn, InterruptGrace(t) PROVE PhaseInv'
  <2>1. /\ Others(t) /\ UNCHANGED <<opened, load, work>> /\ open' \subseteq open \cup {t}
        /\ Phase(t)
    BY <1>9, InterruptGraceDoes DEF PhaseInv
  <2>2. t \notin open' /\ \E o : Over(t, o)
    BY <1>9, InterruptGraceDoes
  <2>9. Phase(t)'
    BY <2>1, <2>2, PhaseOver
  <2> QED
    BY <2>1, <2>9, PhaseOthers
<1>10. ASSUME NEW t \in Turn, Handle(t) PROVE PhaseInv'
  <2>1. /\ Others(t) /\ asked[t] = "sent" /\ Moved(t, at[t], "handled") /\ open' = open
        /\ Phase(t) /\ at[t] \in Requests
    BY <1>10, HandleDoes DEF PhaseInv, Phase
  <2>2. CASE at[t] = "unsubscribe" /\ Unload(opened[t]) /\ UNCHANGED opened
    <3>1. \A u \in Turn : /\ load'[u] # "none" => load[u] # "none"
                          /\ work'[u] # "none" => work[u] # "none"
      BY <2>2, UnloadDoes
    <3>2. Phase(t)'
      BY <2>1, <2>2, <3>1 DEF Phase, Loaded, Handled, Moved, Requests
    <3> QED
      BY <2>1, <2>2, <3>1, <3>2, PhaseOthers
  <2>3. CASE at[t] = "resume" /\ load' = [load EXCEPT ![t] = "loading"] /\ UNCHANGED <<work, opened>>
    <3>1. Phase(t)'
      BY <2>1, <2>3 DEF Phase, Loaded, Handled, Moved, Requests
    <3> QED
      BY <2>1, <2>3, <3>1, PhaseOthers DEF DataTypes
  <2>4. CASE /\ at[t] = "thread" /\ opened' = [opened EXCEPT ![t] = t]
             /\ load' = [load EXCEPT ![t] = "loading"] /\ UNCHANGED work
    <3>1. opened'[t] = t
      BY <2>4 DEF DataTypes
    <3>2. Phase(t)'
      BY <2>1, <2>4, <3>1 DEF Phase, Loaded, Handled, Moved, Requests
    <3> QED
      BY <2>1, <2>4, <3>2, PhaseOthers DEF DataTypes
  <2>5. CASE at[t] = "turn" /\ work' = [work EXCEPT ![t] = "running"] /\ UNCHANGED <<load, opened>>
    <3>1. Phase(t)'
      BY <2>1, <2>5 DEF Phase, Loaded, Handled, Moved, Requests
    <3> QED
      BY <2>1, <2>5, <3>1, PhaseOthers DEF DataTypes
  <2>6. CASE at[t] = "interrupt" /\ UNCHANGED <<load, work, opened>>
    <3>1. Phase(t)'
      BY <2>1, <2>6 DEF Phase, Loaded, Handled, Moved, Requests
    <3> QED
      BY <2>1, <2>6, <3>1, PhaseOthers
  <2> QED
    BY <1>10, <2>2, <2>3, <2>4, <2>5, <2>6, HandleDoes
<1>11. ASSUME NEW t \in Turn, Answer(t) PROVE PhaseInv'
  <2>1. /\ Others(t) /\ UNCHANGED <<opened, load, work>> /\ Phase(t) /\ asked[t] = "handled"
        /\ \/ at[t] = "unsubscribe" /\ Sent(t, "resume")
           \/ at[t] = "resume" /\ Moved(t, "gateway", "none") /\ open' = open
           \/ at[t] = "thread" /\ Moved(t, "remember", "none") /\ open' = open
           \/ at[t] = "turn" /\ Moved(t, "read", "none") /\ open' = open
           \/ /\ at[t] = "interrupt" /\ open' = open \ {t}
              /\ \E o \in {"aborted", "failed"} : Over(t, o)
    BY <1>11, AnswerDoes DEF PhaseInv
  <2>2. open' \subseteq open \cup {t}
    BY <2>1 DEF Sent
  <2>3. Phase(t)'
    BY <2>1 DEF Phase, Loaded, Handled, Sent, Moved, Over, Requests
  <2> QED
    BY <2>1, <2>2, <2>3, PhaseOthers
<1>12. ASSUME NEW t \in Turn, Refuse(t) PROVE PhaseInv'
  <2>1. /\ Others(t) /\ UNCHANGED <<opened, load, work>> /\ Phase(t) /\ asked[t] = "sent"
        /\ \/ at[t] = "unsubscribe" /\ Sent(t, "resume")
           \/ at[t] = "resume" /\ Sent(t, "thread")
           \/ at[t] \in {"thread", "turn"} /\ Over(t, "error") /\ open' = open \ {t}
           \/ /\ at[t] = "interrupt" /\ open' = open \ {t}
              /\ \E o \in {"aborted", "failed"} : Over(t, o)
    BY <1>12, RefuseDoes DEF PhaseInv
  <2>2. open' \subseteq open \cup {t}
    BY <2>1 DEF Sent
  <2>3. Phase(t)'
    BY <2>1 DEF Phase, Loaded, Handled, Sent, Moved, Over, Requests
  <2> QED
    BY <2>1, <2>2, <2>3, PhaseOthers
<1>13. ASSUME NEW t \in Turn, NEW why \in {"reader", "deadline"}, Stop(t, why) PROVE PhaseInv'
  <2>1. UNCHANGED <<at, asked, items, outcome, opened, load, work>> /\ open' = open \ {t}
    BY <1>13, StopDoes
  <2>2. ASSUME NEW u \in Turn PROVE Phase(u)'
    BY <2>1, PhaseSame DEF PhaseInv, Same
  <2> QED
    BY <2>2 DEF PhaseInv
<1>14. ASSUME NEW t \in Turn, NEW v \in {"ready", "failed"}, Tell(t, v) PROVE PhaseInv'
  <2>1. /\ UNCHANGED <<at, asked, outcome, open, opened, work>>
        /\ load[t] = "loading" /\ load' = [load EXCEPT ![t] = "told"]
    BY <1>14, TellDoes
  <2>2. \A u \in Turn : load'[u] # "none" => load[u] # "none"
    BY <2>1 DEF DataTypes
  <2> QED
    BY <2>1, <2>2 DEF PhaseInv, Phase, Loaded, Handled
<1>15. ASSUME NEW t \in Turn, NEW v \in {"completed", "interrupted"}, CodexEnds(t, v)
      PROVE PhaseInv'
  <2>1. /\ UNCHANGED <<at, asked, outcome, open, opened, load>>
        /\ work[t] = "running" /\ work' = [work EXCEPT ![t] = v]
    BY <1>15, CodexEndsDoes
  <2>2. \A u \in Turn : work'[u] # "none" => work[u] # "none"
    BY <2>1 DEF DataTypes
  <2> QED
    BY <2>1, <2>2 DEF PhaseInv, Phase, Loaded, Handled
<1>16. ASSUME NEW g \in Gen, HandshakeOk(g) PROVE PhaseInv'
  <2>1. /\ UNCHANGED <<opened, load, work>> /\ open' = open \cup Waiting(g)
        /\ \A u \in Turn : \/ u \notin Waiting(g) /\ Same(u)
                           \/ /\ u \in Waiting(g) /\ at[u] = "connect"
                              /\ Moved(u, "lookup", asked[u])
    BY <1>16, HandshakeOkDoes
  <2>2. ASSUME NEW u \in Turn PROVE Phase(u)'
    <3>1. Phase(u)
      BY DEF PhaseInv
    <3>2. CASE u \notin Waiting(g) /\ Same(u)
      BY <2>1, <3>1, <3>2, PhaseSame
    <3>3. CASE at[u] = "connect" /\ Moved(u, "lookup", asked[u])
      BY <2>1, <3>1, <3>3 DEF Phase, Loaded, Handled, Moved, Requests
    <3> QED
      BY <2>1, <3>2, <3>3
  <2> QED
    BY <2>2 DEF PhaseInv
<1>17. ASSUME NEW g \in Gen, HandshakeFails(g) PROVE PhaseInv'
  <2>1. /\ UNCHANGED <<open, opened, load, work>>
        /\ \A u \in Turn : Same(u) \/ (at[u] = "connect" /\ Over(u, "error"))
    BY <1>17, HandshakeFailsDoes
  <2>2. ASSUME NEW u \in Turn PROVE Phase(u)'
    <3>1. Phase(u)
      BY DEF PhaseInv
    <3>2. CASE Same(u)
      BY <2>1, <3>1, <3>2, PhaseSame
    <3>3. CASE at[u] = "connect" /\ Over(u, "error")
      <4>1. u \notin open'
        BY <2>1, <3>1, <3>3 DEF Phase
      <4> QED
        BY <2>1, <3>1, <3>3, <4>1, PhaseOver
    <3> QED
      BY <2>1, <3>2, <3>3
  <2> QED
    BY <2>2 DEF PhaseInv
<1>18. ASSUME NEW g \in Gen, Exit(g) PROVE PhaseInv'
  <2>1. Closed(g)
    BY <1>18 DEF Exit
  <2> QED
    BY <2>1, PhaseClosed
<1>19. ASSUME NEW g \in Gen, SpawnFails(g) PROVE PhaseInv'
  <2>1. Closed(g)
    BY <1>19 DEF SpawnFails
  <2> QED
    BY <2>1, PhaseClosed
<1>20. ASSUME UNCHANGED agentVars PROVE PhaseInv'
  BY <1>20 DEF agentVars, PhaseInv, Phase, Loaded, Handled
<1>21. ASSUME NEW t \in Turn, DatabaseFails(t) PROVE PhaseInv'
  <2>1. /\ Others(t) /\ UNCHANGED <<opened, load, work>> /\ open' \subseteq open \cup {t}
        /\ Phase(t)
    BY <1>21, DatabaseDoes DEF PhaseInv
  <2>2. t \notin open' /\ \E o : Over(t, o)
    BY <1>21, DatabaseDoes
  <2>9. Phase(t)'
    BY <2>1, <2>2, PhaseOver
  <2> QED
    BY <2>1, <2>9, PhaseOthers
<1> QED
  BY <1>1, <1>2, <1>3, <1>4, <1>5, <1>6, <1>7, <1>8, <1>9, <1>10, <1>11, <1>12, <1>13, <1>14,
     <1>15, <1>16, <1>17, <1>18, <1>19, <1>20, <1>21
     DEF AgentNext, TurnStep, CodexAnswers, Handshake, AllDone

(* A thread is stored for the conversation that opened it. *)
LEMMA ThreadStep ==
  ASSUME AgentWellFormed, ControlTypes, DataTypes, PhaseInv, ThreadInv, [AgentNext]_agentVars
  PROVE  ThreadInv'
<1>1. ASSUME NEW t \in Turn, Begin(t) PROVE ThreadInv'
  BY <1>1, BeginDoes DEF ThreadInv
<1>2. ASSUME NEW t \in Turn, Prepared(t) PROVE ThreadInv'
  BY <1>2, PreparedDoes DEF ThreadInv
<1>3. ASSUME NEW t \in Turn, Lookup(t) PROVE ThreadInv'
  <2> DEFINE k == thread[SessionOf[t]]
  <2>1. /\ opened' = [opened EXCEPT ![t] = k] /\ thread' = thread /\ at[t] = "lookup"
    BY <1>3, LookupDoes
  <2>2. opened[t] = NoThread /\ opened'[t] = k /\ SessionOf[t] \in Conversation
    BY <2>1 DEF PhaseInv, Phase, DataTypes, AgentWellFormed
  <2>3. \A u \in Turn : opened[u] = u => opened'[u] = u
    BY <2>1, <2>2 DEF DataTypes, AgentWellFormed
  <2>4. \A s \in Conversation : thread'[s] \in Turn =>
          SessionOf[thread'[s]] = s /\ opened'[thread'[s]] = thread'[s]
    BY <2>1, <2>3 DEF ThreadInv
  <2>5. ASSUME NEW u \in Turn, opened'[u] \in Turn
        PROVE  SessionOf[opened'[u]] = SessionOf[u] /\ opened'[opened'[u]] = opened'[u]
    <3>1. CASE u = t
      BY <2>1, <2>2, <2>4, <2>5, <3>1
    <3>2. CASE u # t
      BY <2>1, <2>3, <2>5, <3>2 DEF ThreadInv, DataTypes
    <3> QED
      BY <3>1, <3>2
  <2> QED
    BY <2>4, <2>5 DEF ThreadInv
<1>4. ASSUME NEW t \in Turn, Remember(t) PROVE ThreadInv'
  <2>1. /\ opened' = opened /\ thread' = [thread EXCEPT ![SessionOf[t]] = opened[t]]
        /\ at[t] = "remember"
    BY <1>4, RememberDoes
  <2>2. opened[t] = t /\ SessionOf[t] \in Conversation
    BY <2>1 DEF PhaseInv, Phase, AgentWellFormed
  <2> QED
    BY <2>1, <2>2 DEF ThreadInv, DataTypes
<1>5. ASSUME NEW t \in Turn, GatewayItem(t) PROVE ThreadInv'
  BY <1>5, GatewayItemDoes DEF ThreadInv
<1>6. ASSUME NEW t \in Turn, GatewayNone(t) PROVE ThreadInv'
  BY <1>6, GatewayNoneDoes DEF ThreadInv
<1>7. ASSUME NEW t \in Turn, ReadItem(t) PROVE ThreadInv'
  BY <1>7, ReadItemDoes DEF ThreadInv
<1>8. ASSUME NEW t \in Turn, ReadNone(t) PROVE ThreadInv'
  BY <1>8, ReadNoneDoes DEF ThreadInv
<1>9. ASSUME NEW t \in Turn, InterruptGrace(t) PROVE ThreadInv'
  BY <1>9, InterruptGraceDoes DEF ThreadInv
<1>10. ASSUME NEW t \in Turn, Handle(t) PROVE ThreadInv'
  <2>1. thread' = thread /\ (opened' = opened \/ opened' = [opened EXCEPT ![t] = t])
    BY <1>10, HandleDoes
  <2> QED
    BY <2>1 DEF ThreadInv, DataTypes
<1>11. ASSUME NEW t \in Turn, Answer(t) PROVE ThreadInv'
  BY <1>11, AnswerDoes DEF ThreadInv
<1>12. ASSUME NEW t \in Turn, Refuse(t) PROVE ThreadInv'
  BY <1>12, RefuseDoes DEF ThreadInv
<1>13. ASSUME NEW t \in Turn, NEW why \in {"reader", "deadline"}, Stop(t, why) PROVE ThreadInv'
  BY <1>13, StopDoes DEF ThreadInv
<1>14. ASSUME NEW t \in Turn, NEW v \in {"ready", "failed"}, Tell(t, v) PROVE ThreadInv'
  BY <1>14, TellDoes DEF ThreadInv
<1>15. ASSUME NEW t \in Turn, NEW v \in {"completed", "interrupted"}, CodexEnds(t, v)
      PROVE ThreadInv'
  BY <1>15, CodexEndsDoes DEF ThreadInv
<1>16. ASSUME NEW g \in Gen, HandshakeOk(g) PROVE ThreadInv'
  BY <1>16, HandshakeOkDoes DEF ThreadInv
<1>17. ASSUME NEW g \in Gen, HandshakeFails(g) PROVE ThreadInv'
  BY <1>17, HandshakeFailsDoes DEF ThreadInv
<1>18. ASSUME NEW g \in Gen, Exit(g) PROVE ThreadInv'
  <2>1. Closed(g)
    BY <1>18 DEF Exit
  <2> QED
    BY <2>1, ClosedDoes DEF ThreadInv
<1>19. ASSUME NEW g \in Gen, SpawnFails(g) PROVE ThreadInv'
  <2>1. Closed(g)
    BY <1>19 DEF SpawnFails
  <2> QED
    BY <2>1, ClosedDoes DEF ThreadInv
<1>20. ASSUME UNCHANGED agentVars PROVE ThreadInv'
  BY <1>20 DEF agentVars, ThreadInv
<1>21. ASSUME NEW t \in Turn, DatabaseFails(t) PROVE ThreadInv'
  <2>1. /\ opened' = opened
        /\ \/ thread' = thread
           \/ at[t] = "remember" /\ thread' = [thread EXCEPT ![SessionOf[t]] = opened[t]]
    BY <1>21, DatabaseDoes
  <2>2. CASE thread' = thread
    BY <2>1, <2>2 DEF ThreadInv
  <2>3. CASE at[t] = "remember" /\ thread' = [thread EXCEPT ![SessionOf[t]] = opened[t]]
    <3>1. opened[t] = t /\ SessionOf[t] \in Conversation
      BY <2>3 DEF PhaseInv, Phase, AgentWellFormed
    <3> QED
      BY <2>1, <2>3, <3>1 DEF ThreadInv, DataTypes
  <2> QED
    BY <2>1, <2>2, <2>3
<1> QED
  BY <1>1, <1>2, <1>3, <1>4, <1>5, <1>6, <1>7, <1>8, <1>9, <1>10, <1>11, <1>12, <1>13, <1>14,
     <1>15, <1>16, <1>17, <1>18, <1>19, <1>20, <1>21
     DEF AgentNext, TurnStep, CodexAnswers, Handshake, AllDone

(* Turns that are over disturb nobody, *)
LEMMA SoleKept ==
  ASSUME SoleInv, shared \subseteq shared',
         \A u \in Turn : at[u] \in {"new", "done"} => at'[u] \in {"new", "done"}
  PROVE  SoleInv'
BY DEF SoleInv, Active

(* nor does the step of one that is active already. *)
LEMMA SoleOthers ==
  ASSUME SoleInv, NEW t \in Turn, Others(t), at[t] \notin {"new", "done"}, shared \subseteq shared'
  PROVE  SoleInv'
BY SoleKept DEF Others, Same

(* Only Begin makes a turn active, and it tells of those it joins. *)
LEMMA SoleStep ==
  ASSUME ControlTypes, PhaseInv, SoleInv, [AgentNext]_agentVars
  PROVE  SoleInv'
<1>1. ASSUME NEW t \in Turn, Begin(t) PROVE SoleInv'
  <2>1. Others(t) /\ at[t] = "new" /\ at'[t] = "prepare"
    BY <1>1, BeginDoes DEF Moved
  <2> DEFINE others == {u \in Turn : SessionOf[u] = SessionOf[t] /\ Active(u)}
  <2>2. shared' = IF others = {} THEN shared ELSE shared \cup others \cup {t}
    BY <1>1 DEF Begin
  <2>3. \A u \in Turn \ {t} : Active(u)' <=> Active(u)
    BY <2>1 DEF Others, Same, Active
  <2>4. t \notin others
    BY <2>1 DEF Active
  <2>5. ASSUME NEW x \in Turn \ shared', Active(x)', NEW u \in Turn \ {x},
               SessionOf[u] = SessionOf[x], Active(u)'
        PROVE  FALSE
    <3>1. CASE x = t
      <4>1. u \in others
        BY <2>3, <2>5, <3>1
      <4> QED
        BY <2>2, <2>5, <3>1, <4>1
    <3>2. CASE x # t /\ u = t
      <4>1. x \in others
        BY <2>3, <2>5, <3>2
      <4> QED
        BY <2>2, <2>5, <4>1
    <3>3. CASE x # t /\ u # t
      <4>1. Active(x) /\ Active(u)
        BY <2>3, <2>5, <3>3
      <4>2. x \notin shared
        BY <2>2, <2>5
      <4> QED
        BY <2>5, <4>1, <4>2 DEF SoleInv
    <3> QED
      BY <3>1, <3>2, <3>3
  <2> QED
    BY <2>5 DEF SoleInv
<1>2. ASSUME NEW t \in Turn, Prepared(t) PROVE SoleInv'
  <2>1. Others(t) /\ at[t] \notin {"new", "done"} /\ shared' = shared
    BY <1>2, PreparedDoes
  <2> QED
    BY <2>1, SoleOthers
<1>3. ASSUME NEW t \in Turn, Lookup(t) PROVE SoleInv'
  <2>1. Others(t) /\ at[t] \notin {"new", "done"} /\ shared' = shared
    BY <1>3, LookupDoes
  <2> QED
    BY <2>1, SoleOthers
<1>4. ASSUME NEW t \in Turn, Remember(t) PROVE SoleInv'
  <2>1. Others(t) /\ at[t] \notin {"new", "done"} /\ shared' = shared
    BY <1>4, RememberDoes
  <2> QED
    BY <2>1, SoleOthers
<1>5. ASSUME NEW t \in Turn, GatewayItem(t) PROVE SoleInv'
  <2>1. Others(t) /\ at[t] \notin {"new", "done"} /\ shared' = shared
    BY <1>5, GatewayItemDoes
  <2> QED
    BY <2>1, SoleOthers
<1>6. ASSUME NEW t \in Turn, GatewayNone(t) PROVE SoleInv'
  <2>1. Others(t) /\ at[t] \notin {"new", "done"} /\ shared' = shared
    BY <1>6, GatewayNoneDoes
  <2> QED
    BY <2>1, SoleOthers
<1>7. ASSUME NEW t \in Turn, ReadItem(t) PROVE SoleInv'
  <2>1. Others(t) /\ at[t] \notin {"new", "done"} /\ shared' = shared
    BY <1>7, ReadItemDoes
  <2> QED
    BY <2>1, SoleOthers
<1>8. ASSUME NEW t \in Turn, ReadNone(t) PROVE SoleInv'
  <2>1. Others(t) /\ at[t] \notin {"new", "done"} /\ shared' = shared
    BY <1>8, ReadNoneDoes
  <2> QED
    BY <2>1, SoleOthers
<1>9. ASSUME NEW t \in Turn, InterruptGrace(t) PROVE SoleInv'
  <2>1. Others(t) /\ at[t] \notin {"new", "done"} /\ shared' = shared
    BY <1>9, InterruptGraceDoes
  <2> QED
    BY <2>1, SoleOthers
<1>10. ASSUME NEW t \in Turn, Handle(t) PROVE SoleInv'
  <2>1. Others(t) /\ asked[t] # "none" /\ shared \subseteq shared'
    BY <1>10, HandleDoes
  <2>2. at[t] \notin {"new", "done"}
    BY <2>1 DEF PhaseInv, Phase, Requests
  <2> QED
    BY <2>1, <2>2, SoleOthers
<1>11. ASSUME NEW t \in Turn, Answer(t) PROVE SoleInv'
  <2>1. Others(t) /\ asked[t] # "none" /\ shared \subseteq shared'
    BY <1>11, AnswerDoes
  <2>2. at[t] \notin {"new", "done"}
    BY <2>1 DEF PhaseInv, Phase, Requests
  <2> QED
    BY <2>1, <2>2, SoleOthers
<1>12. ASSUME NEW t \in Turn, Refuse(t) PROVE SoleInv'
  <2>1. Others(t) /\ asked[t] # "none" /\ shared \subseteq shared'
    BY <1>12, RefuseDoes
  <2>2. at[t] \notin {"new", "done"}
    BY <2>1 DEF PhaseInv, Phase, Requests
  <2> QED
    BY <2>1, <2>2, SoleOthers
<1>13. ASSUME NEW t \in Turn, NEW why \in {"reader", "deadline"}, Stop(t, why) PROVE SoleInv'
  <2>1. at' = at /\ shared \subseteq shared'
    BY <1>13, StopDoes
  <2> QED
    BY <2>1, SoleKept
<1>14. ASSUME NEW t \in Turn, NEW v \in {"ready", "failed"}, Tell(t, v) PROVE SoleInv'
  <2>1. at' = at /\ shared \subseteq shared'
    BY <1>14, TellDoes
  <2> QED
    BY <2>1, SoleKept
<1>15. ASSUME NEW t \in Turn, NEW v \in {"completed", "interrupted"}, CodexEnds(t, v)
      PROVE SoleInv'
  <2>1. at' = at /\ shared \subseteq shared'
    BY <1>15, CodexEndsDoes
  <2> QED
    BY <2>1, SoleKept
<1>16. ASSUME NEW g \in Gen, HandshakeOk(g) PROVE SoleInv'
  <2>1. shared' = shared /\ \A u \in Turn : Same(u) \/ at[u] = "connect"
    BY <1>16, HandshakeOkDoes
  <2> QED
    BY <2>1, SoleKept DEF Same
<1>17. ASSUME NEW g \in Gen, HandshakeFails(g) PROVE SoleInv'
  <2>1. shared' = shared /\ \A u \in Turn : Same(u) \/ at[u] = "connect"
    BY <1>17, HandshakeFailsDoes
  <2> QED
    BY <2>1, SoleKept DEF Same
<1>18. ASSUME NEW g \in Gen, Exit(g) PROVE SoleInv'
  <2>1. Closed(g)
    BY <1>18 DEF Exit
  <2>2. shared' = shared /\ \A u \in Turn : Same(u) \/ at'[u] = "done"
    BY <2>1, ClosedDoes DEF Over
  <2> QED
    BY <2>2, SoleKept DEF Same
<1>19. ASSUME NEW g \in Gen, SpawnFails(g) PROVE SoleInv'
  <2>1. Closed(g)
    BY <1>19 DEF SpawnFails
  <2>2. shared' = shared /\ \A u \in Turn : Same(u) \/ at'[u] = "done"
    BY <2>1, ClosedDoes DEF Over
  <2> QED
    BY <2>2, SoleKept DEF Same
<1>20. ASSUME UNCHANGED agentVars PROVE SoleInv'
  BY <1>20, SoleKept DEF agentVars
<1>21. ASSUME NEW t \in Turn, DatabaseFails(t) PROVE SoleInv'
  <2>1. Others(t) /\ at[t] \notin {"new", "done"} /\ shared' = shared
    BY <1>21, DatabaseDoes
  <2> QED
    BY <2>1, SoleOthers
<1> QED
  BY <1>1, <1>2, <1>3, <1>4, <1>5, <1>6, <1>7, <1>8, <1>9, <1>10, <1>11, <1>12, <1>13, <1>14,
     <1>15, <1>16, <1>17, <1>18, <1>19, <1>20, <1>21
     DEF AgentNext, TurnStep, CodexAnswers, Handshake, AllDone

(* Of the turns that ever ran on the thread of an undisturbed turn, none    *)
(* but itself is under way.                                                 *)
LEMMA SoleOnThread ==
  ASSUME ThreadInv, SoleInv, NEW t \in Turn \ shared, Active(t), opened[t] \in Turn,
         NEW u \in Turn \ {t}, opened[u] = opened[t]
  PROVE  ~Active(u)
BY DEF ThreadInv, SoleInv

(* A step that starts nothing keeps QuietInv, *)
LEMMA QuietKept ==
  ASSUME QuietInv, shared \subseteq shared', opened' = opened,
         \A u \in Turn : work'[u] = "running" => work[u] = "running",
         \A u \in Turn \ shared' : Unloaded(u)' => Unloaded(u)
  PROVE  QuietInv'
BY DEF QuietInv

(* and so does one turn's that unloads nothing. *)
LEMMA QuietOthers ==
  ASSUME QuietInv, NEW t \in Turn, Others(t), shared \subseteq shared',
         opened' = opened, \A u \in Turn : work'[u] = "running" => work[u] = "running",
         t \notin shared' => (Unloaded(t)' => Unloaded(t))
  PROVE  QuietInv'
<1>1. \A u \in Turn \ {t} : Unloaded(u)' <=> Unloaded(u)
  BY DEF Others, Same, Unloaded, Handled
<1> QED
  BY <1>1, QuietKept

(* What earlier turns left on the thread of an undisturbed turn is gone. *)
LEMMA QuietStep ==
  ASSUME AgentWellFormed, ControlTypes, DataTypes, PhaseInv, ThreadInv, SoleInv, QuietInv,
         [AgentNext]_agentVars
  PROVE  QuietInv'
<1>1. ASSUME NEW t \in Turn, Begin(t) PROVE QuietInv'
  <2>1. Others(t) /\ UNCHANGED <<opened, work>>
    BY <1>1, BeginDoes
  <2>2. Unloaded(t)' => Unloaded(t)
    BY <1>1, BeginDoes DEF Unloaded, Handled, Moved, Over, Sent, Taken
  <2>3. shared \subseteq shared'
    BY <1>1 DEF Begin
  <2> QED
    BY <2>1, <2>2, <2>3, QuietOthers
<1>2. ASSUME NEW t \in Turn, Prepared(t) PROVE QuietInv'
  <2>1. Others(t) /\ UNCHANGED <<opened, work>>
    BY <1>2, PreparedDoes
  <2>2. Unloaded(t)' => Unloaded(t)
    BY <1>2, PreparedDoes DEF Unloaded, Handled, Moved, Over, Sent, Taken
  <2>3. shared \subseteq shared'
    BY <1>2, PreparedDoes
  <2> QED
    BY <2>1, <2>2, <2>3, QuietOthers
<1>3. ASSUME NEW t \in Turn, Lookup(t) PROVE QuietInv'
  <2> DEFINE k == thread[SessionOf[t]]
  <2>1. /\ Others(t) /\ opened' = [opened EXCEPT ![t] = k] /\ UNCHANGED <<work, shared>>
        /\ at[t] = "lookup" /\ Sent(t, IF k = NoThread THEN "thread" ELSE "unsubscribe")
    BY <1>3, LookupDoes
  <2>2. work[t] = "none"
    BY <2>1 DEF PhaseInv, Phase, Handled
  <2>3. Unloaded(t)' => opened'[t] \notin Turn
    BY <2>1 DEF Sent, Moved, Over, Unloaded, Handled, DataTypes, AgentWellFormed
  <2>4. \A u \in Turn \ {t} : (Unloaded(u)' <=> Unloaded(u)) /\ opened'[u] = opened[u]
    BY <2>1 DEF Others, Same, Unloaded, Handled, DataTypes
  <2> QED
    BY <2>1, <2>2, <2>3, <2>4 DEF QuietInv
<1>4. ASSUME NEW t \in Turn, Remember(t) PROVE QuietInv'
  <2>1. Others(t) /\ UNCHANGED <<opened, work>>
    BY <1>4, RememberDoes
  <2>2. Unloaded(t)' => Unloaded(t)
    BY <1>4, RememberDoes DEF Unloaded, Handled, Moved, Over, Sent, Taken
  <2>3. shared \subseteq shared'
    BY <1>4, RememberDoes
  <2> QED
    BY <2>1, <2>2, <2>3, QuietOthers
<1>5. ASSUME NEW t \in Turn, GatewayItem(t) PROVE QuietInv'
  <2>1. Others(t) /\ UNCHANGED <<opened, work>>
    BY <1>5, GatewayItemDoes
  <2>2. Unloaded(t)' => Unloaded(t)
    BY <1>5, GatewayItemDoes DEF Unloaded, Handled, Moved, Over, Sent, Taken
  <2>3. shared \subseteq shared'
    BY <1>5, GatewayItemDoes
  <2> QED
    BY <2>1, <2>2, <2>3, QuietOthers
<1>6. ASSUME NEW t \in Turn, GatewayNone(t) PROVE QuietInv'
  <2>1. Others(t) /\ UNCHANGED <<opened, work>>
    BY <1>6, GatewayNoneDoes
  <2>2. Unloaded(t)' => Unloaded(t)
    BY <1>6, GatewayNoneDoes DEF Unloaded, Handled, Moved, Over, Sent, Taken
  <2>3. shared \subseteq shared'
    BY <1>6, GatewayNoneDoes
  <2> QED
    BY <2>1, <2>2, <2>3, QuietOthers
<1>7. ASSUME NEW t \in Turn, ReadItem(t) PROVE QuietInv'
  <2>1. Others(t) /\ UNCHANGED <<opened, work>>
    BY <1>7, ReadItemDoes
  <2>2. Unloaded(t)' => Unloaded(t)
    BY <1>7, ReadItemDoes DEF Unloaded, Handled, Moved, Over, Sent, Taken
  <2>3. shared \subseteq shared'
    BY <1>7, ReadItemDoes
  <2> QED
    BY <2>1, <2>2, <2>3, QuietOthers
<1>8. ASSUME NEW t \in Turn, ReadNone(t) PROVE QuietInv'
  <2>1. Others(t) /\ UNCHANGED <<opened, work>>
    BY <1>8, ReadNoneDoes
  <2>2. Unloaded(t)' => Unloaded(t)
    BY <1>8, ReadNoneDoes DEF Unloaded, Handled, Moved, Over, Sent, Taken
  <2>3. shared \subseteq shared'
    BY <1>8, ReadNoneDoes
  <2> QED
    BY <2>1, <2>2, <2>3, QuietOthers
<1>9. ASSUME NEW t \in Turn, InterruptGrace(t) PROVE QuietInv'
  <2>1. Others(t) /\ UNCHANGED <<opened, work>>
    BY <1>9, InterruptGraceDoes
  <2>2. Unloaded(t)' => Unloaded(t)
    BY <1>9, InterruptGraceDoes DEF Unloaded, Handled, Moved, Over, Sent, Taken
  <2>3. shared \subseteq shared'
    BY <1>9, InterruptGraceDoes
  <2> QED
    BY <2>1, <2>2, <2>3, QuietOthers
<1>10. ASSUME NEW t \in Turn, Handle(t) PROVE QuietInv'
  <2>1. /\ Others(t) /\ asked[t] = "sent" /\ Moved(t, at[t], "handled") /\ shared' = shared
    BY <1>10, HandleDoes
  <2>2. \A u \in Turn \ {t} : Unloaded(u)' <=> Unloaded(u)
    BY <2>1 DEF Others, Same, Unloaded, Handled
  <2>3. at[t] # "unsubscribe" => (Unloaded(t)' <=> Unloaded(t))
    BY <2>1 DEF Moved, Unloaded, Handled
  <2>4. CASE at[t] = "unsubscribe" /\ Unload(opened[t]) /\ UNCHANGED opened
    <3>1. \A u \in Turn : /\ work'[u] = "running" => work[u] = "running"
                          /\ opened[u] = opened[t] => work'[u] # "running"
      BY <2>4, UnloadDoes
    <3> QED
      BY <2>1, <2>2, <2>4, <3>1 DEF QuietInv
  <2>5. CASE at[t] = "resume" /\ UNCHANGED <<work, opened>>
    BY <2>1, <2>3, <2>5, QuietOthers
  <2>6. CASE at[t] = "thread" /\ opened' = [opened EXCEPT ![t] = t] /\ UNCHANGED work
    <3>1. work[t] = "none"
      BY <2>1, <2>6 DEF PhaseInv, Phase, Handled
    <3>2. opened'[t] = t /\ \A u \in Turn \ {t} : opened'[u] = opened[u]
      BY <2>6 DEF DataTypes
    <3>3. \A u \in Turn : opened[u] # t
      <4> SUFFICES ASSUME NEW u \in Turn, opened[u] = t PROVE FALSE
        OBVIOUS
      <4>1. opened[t] = t
        BY DEF ThreadInv
      <4> QED
        BY <2>1, <2>6, <4>1 DEF PhaseInv, Phase, Loaded, Handled
    <3> QED
      BY <2>1, <2>2, <2>6, <3>1, <3>2, <3>3 DEF QuietInv
  <2>7. CASE at[t] = "turn" /\ work' = [work EXCEPT ![t] = "running"] /\ UNCHANGED opened
    <3>1. ASSUME NEW x \in Turn \ shared, x # t, Unloaded(x), opened[x] \in Turn
          PROVE  opened[t] # opened[x]
      <4>1. Active(x) /\ Active(t)
        BY <2>7, <3>1 DEF Active, Unloaded, Handled
      <4> QED
        BY <3>1, <4>1, SoleOnThread
    <3>2. \A u \in Turn \ {t} : work'[u] = work[u]
      BY <2>7 DEF DataTypes
    <3> QED
      BY <2>1, <2>2, <2>3, <2>7, <3>1, <3>2 DEF QuietInv
  <2>8. CASE at[t] = "interrupt" /\ UNCHANGED <<work, opened>>
    BY <2>1, <2>3, <2>8, QuietOthers
  <2> QED
    BY <1>10, <2>4, <2>5, <2>6, <2>7, <2>8, HandleDoes
<1>11. ASSUME NEW t \in Turn, Answer(t) PROVE QuietInv'
  <2>1. /\ Others(t) /\ UNCHANGED <<opened, work, shared>>
        /\ Handled(t, "unsubscribe") \/ at[t] \in {"resume", "thread", "turn", "interrupt"}
    BY <1>11, AnswerDoes DEF Handled
  <2>2. at[t] = "interrupt" => at'[t] = "done"
    BY <1>11, AnswerDoes DEF Over
  <2>3. Unloaded(t)' => Unloaded(t)
    BY <2>1, <2>2 DEF Unloaded, Handled
  <2> QED
    BY <2>1, <2>3, QuietOthers
<1>12. ASSUME NEW t \in Turn, Refuse(t) PROVE QuietInv'
  <2>1. /\ Others(t) /\ UNCHANGED <<opened, work>>
        /\ shared' = IF at[t] = "unsubscribe" THEN shared \cup {t} ELSE shared
        /\ at[t] \in {"unsubscribe", "resume", "thread", "turn", "interrupt"}
    BY <1>12, RefuseDoes
  <2>2. at[t] = "interrupt" => at'[t] = "done"
    BY <1>12, RefuseDoes DEF Over
  <2>3. t \notin shared' => (Unloaded(t)' => Unloaded(t))
    BY <2>1, <2>2 DEF Unloaded, Handled
  <2> QED
    BY <2>1, <2>3, QuietOthers
<1>13. ASSUME NEW t \in Turn, NEW why \in {"reader", "deadline"}, Stop(t, why) PROVE QuietInv'
  <2>1. UNCHANGED <<opened, work, at, asked, shared>> /\ shared \subseteq shared'
    BY <1>13, StopDoes
  <2> QED
    BY <2>1, QuietKept DEF Unloaded, Handled
<1>14. ASSUME NEW t \in Turn, NEW v \in {"ready", "failed"}, Tell(t, v) PROVE QuietInv'
  <2>1. UNCHANGED <<opened, work, at, asked>> /\ shared \subseteq shared'
    BY <1>14, TellDoes
  <2> QED
    BY <2>1, QuietKept DEF Unloaded, Handled
<1>15. ASSUME NEW t \in Turn, NEW v \in {"completed", "interrupted"}, CodexEnds(t, v)
      PROVE QuietInv'
  <2>1. UNCHANGED <<opened, at, asked, shared>> /\ work' = [work EXCEPT ![t] = v]
    BY <1>15, CodexEndsDoes
  <2>2. \A u \in Turn : work'[u] = "running" => work[u] = "running"
    BY <2>1 DEF DataTypes
  <2> QED
    BY <2>1, <2>2, QuietKept DEF Unloaded, Handled
<1>16. ASSUME NEW g \in Gen, HandshakeOk(g) PROVE QuietInv'
  <2>1. UNCHANGED <<opened, work, shared>> /\ \A u \in Turn : Same(u) \/ at'[u] = "lookup"
    BY <1>16, HandshakeOkDoes DEF Moved
  <2>2. \A u \in Turn : Unloaded(u)' => Unloaded(u)
    BY <2>1 DEF Same, Unloaded, Handled
  <2> QED
    BY <2>1, <2>2, QuietKept
<1>17. ASSUME NEW g \in Gen, HandshakeFails(g) PROVE QuietInv'
  <2>1. UNCHANGED <<opened, work, shared>> /\ \A u \in Turn : Same(u) \/ at'[u] = "done"
    BY <1>17, HandshakeFailsDoes DEF Over
  <2>2. \A u \in Turn : Unloaded(u)' => Unloaded(u)
    BY <2>1 DEF Same, Unloaded, Handled
  <2> QED
    BY <2>1, <2>2, QuietKept
<1>18. ASSUME NEW g \in Gen, Exit(g) PROVE QuietInv'
  <2>1. Closed(g)
    BY <1>18 DEF Exit
  <2>2. UNCHANGED <<opened, shared>> /\ \A u \in Turn : Same(u) \/ at'[u] = "done"
    BY <2>1, ClosedDoes DEF Over
  <2>3. \A u \in Turn : Unloaded(u)' => Unloaded(u)
    BY <2>2 DEF Same, Unloaded, Handled
  <2>4. \A u \in Turn : work'[u] = "running" => work[u] = "running"
    BY <2>1, ClosedDoes
  <2> QED
    BY <2>2, <2>3, <2>4, QuietKept
<1>19. ASSUME NEW g \in Gen, SpawnFails(g) PROVE QuietInv'
  <2>1. Closed(g)
    BY <1>19 DEF SpawnFails
  <2>2. UNCHANGED <<opened, shared>> /\ \A u \in Turn : Same(u) \/ at'[u] = "done"
    BY <2>1, ClosedDoes DEF Over
  <2>3. \A u \in Turn : Unloaded(u)' => Unloaded(u)
    BY <2>2 DEF Same, Unloaded, Handled
  <2>4. \A u \in Turn : work'[u] = "running" => work[u] = "running"
    BY <2>1, ClosedDoes
  <2> QED
    BY <2>2, <2>3, <2>4, QuietKept
<1>20. ASSUME UNCHANGED agentVars PROVE QuietInv'
  BY <1>20, QuietKept DEF agentVars, Unloaded, Handled
<1>21. ASSUME NEW t \in Turn, DatabaseFails(t) PROVE QuietInv'
  <2>1. Others(t) /\ UNCHANGED <<opened, work>>
    BY <1>21, DatabaseDoes
  <2>2. Unloaded(t)' => Unloaded(t)
    BY <1>21, DatabaseDoes DEF Unloaded, Handled, Moved, Over, Sent, Taken
  <2>3. shared \subseteq shared'
    BY <1>21, DatabaseDoes
  <2> QED
    BY <2>1, <2>2, <2>3, QuietOthers
<1> QED
  BY <1>1, <1>2, <1>3, <1>4, <1>5, <1>6, <1>7, <1>8, <1>9, <1>10, <1>11, <1>12, <1>13, <1>14,
     <1>15, <1>16, <1>17, <1>18, <1>19, <1>20, <1>21
     DEF AgentNext, TurnStep, CodexAnswers, Handshake, AllDone

(* What is queued is a notification. *)
LEMMA NoteAt ==
  ASSUME ControlTypes, NEW u \in Turn, NEW i \in 1 .. Len(items[u])
  PROVE  /\ items[u][i].kind \in {"status", "completed"} /\ items[u][i].thread \in Turn
         /\ items[u][i].kind = "completed" => items[u][i].says \in {"completed", "interrupted"}
<1>1. items[u] \in Seq(Note)
  BY DEF ControlTypes
<1>2. items[u][i] \in Note
  BY <1>1
<1> QED
  BY <1>2 DEF Note

(* Places in a queue that grows, *)
LEMMA AppendAt ==
  ASSUME NEW q \in Seq(Note), NEW n \in Note
  PROVE  /\ Len(Append(q, n)) = Len(q) + 1 /\ Append(q, n)[Len(q) + 1] = n /\ Len(q) \in Nat
         /\ \A i \in 1 .. Len(q) : Append(q, n)[i] = q[i]
OBVIOUS

(* and in one that shrinks. *)
LEMMA TailAt ==
  ASSUME NEW q \in Seq(Note), q # <<>>
  PROVE  /\ Len(q) \in Nat \ {0} /\ Len(Tail(q)) = Len(q) - 1 /\ Head(q) = q[1]
         /\ \A i \in 1 .. Len(q) - 1 : Tail(q)[i] = q[i + 1]
OBVIOUS

(* A queue that a step leaves alone, *)
LEMMA QueueSame ==
  ASSUME ControlTypes, NEW u \in Turn, Queue(u), items'[u] = items[u], opened'[u] = opened[u],
         u \in shared => u \in shared', load[u] = "told" => load'[u] = "told",
         work[u] \in {"completed", "interrupted"} => work'[u] = work[u],
         at'[u] \in {"turn", "read"} => at[u] \in {"turn", "read"}
  PROVE  Queue(u)'
<1>1. OwnNotes(u)'
  BY NoteAt DEF Queue, OwnNotes
<1>2. u \notin shared' => OwnLoad(u)' /\ InOrder(u)' /\ ReadsOwn(u)'
  BY DEF Queue, OwnLoad, InOrder, ReadsOwn, Foreign
<1> QED
  BY <1>1, <1>2 DEF Queue

(* and one that is closed. *)
LEMMA QueueEmpty ==
  ASSUME NEW u \in Turn, items'[u] = <<>>
  PROVE  Queue(u)'
<1>1. Len(items'[u]) = 0
  OBVIOUS
<1>2. 1 .. Len(items'[u]) = {}
  BY <1>1
<1> QED
  BY <1>2 DEF Queue, OwnNotes, OwnLoad, InOrder, ReadsOwn

(* A queue whose head is taken is in order still; when the head was the     *)
(* status waited for, what is left is the turn's own.                       *)
LEMMA QueueTail ==
  ASSUME ControlTypes, NEW u \in Turn, Queue(u), items[u] # <<>>, items'[u] = Tail(items[u]),
         opened'[u] = opened[u], u \in shared => u \in shared', UNCHANGED <<load, work>>,
         \/ at'[u] \in {"turn", "read"} => at[u] \in {"turn", "read"}
         \/ Head(items[u]).kind = "status" /\ Head(items[u]).thread = opened[u]
  PROVE  Queue(u)'
<1> DEFINE q == items[u]
           n == Len(q) - 1
<1>1. q \in Seq(Note)
  BY DEF ControlTypes
<1>2. /\ n \in Nat /\ n + 1 = Len(q) /\ Len(items'[u]) = n /\ Head(q) = q[1]
      /\ \A i \in 1 .. n : items'[u][i] = q[i + 1]
  BY <1>1, TailAt
<1>3. /\ 1 \in 1 .. Len(q)
      /\ \A i \in 1 .. n : i \in Int /\ i + 1 \in 1 .. Len(q) /\ 1 < i + 1
      /\ \A i, j \in 1 .. n : i < j => i + 1 < j + 1
  BY <1>2
<1> HIDE DEF n
<1>4. OwnNotes(u)'
  BY <1>2, <1>3 DEF Queue, OwnNotes
<1>5. ASSUME u \notin shared' PROVE OwnLoad(u)' /\ InOrder(u)' /\ ReadsOwn(u)'
  <2>1. OwnLoad(u) /\ InOrder(u) /\ ReadsOwn(u)
    BY <1>5 DEF Queue
  <2>2. OwnLoad(u)'
    BY <1>2, <1>3, <2>1 DEF OwnLoad
  <2>3. InOrder(u)'
    <3>1. SUFFICES ASSUME NEW i \in 1 .. n, NEW j \in 1 .. n, i < j,
                          q[i + 1].kind = "status", q[i + 1].thread = opened[u]
                   PROVE  ~Foreign(u, q[j + 1])
      BY <1>2 DEF InOrder, Foreign
    <3> QED
      BY <1>3, <2>1, <3>1 DEF InOrder
  <2>4. ReadsOwn(u)'
    <3>1. CASE at'[u] \in {"turn", "read"} => at[u] \in {"turn", "read"}
      BY <1>2, <1>3, <2>1, <3>1 DEF ReadsOwn, Foreign
    <3>2. CASE Head(items[u]).kind = "status" /\ Head(items[u]).thread = opened[u]
      <4>1. \A j \in 1 .. n : ~Foreign(u, q[j + 1])
        BY <1>2, <1>3, <2>1, <3>2 DEF InOrder
      <4> QED
        BY <1>2, <4>1 DEF ReadsOwn, Foreign
    <3> QED
      BY <3>1, <3>2
  <2> QED
    BY <2>2, <2>3, <2>4
<1> QED
  BY <1>4, <1>5 DEF Queue

(* The status of a load joins a queue. *)
LEMMA QueueStatus ==
  ASSUME ControlTypes, NEW u \in Turn, Queue(u), NEW n \in Note, n.kind = "status",
         items'[u] = Append(items[u], n), UNCHANGED <<opened, work, at>>,
         u \in shared => u \in shared', load[u] = "told" => load'[u] = "told",
         u \notin shared' => load'[u] = "told" \/ SessionOf[n.thread] # SessionOf[u]
  PROVE  Queue(u)'
<1> DEFINE q == items[u]
           m == Len(q)
<1>1. q \in Seq(Note)
  BY DEF ControlTypes
<1>2. /\ Len(items'[u]) = m + 1 /\ items'[u][m + 1] = n /\ m \in Nat
      /\ \A i \in 1 .. m : items'[u][i] = q[i]
  BY <1>1, AppendAt
<1>3. /\ \A i \in 1 .. m + 1 : i \in Int /\ (i \in 1 .. m \/ i = m + 1)
      /\ \A i, j \in 1 .. m + 1 : i < j => i \in 1 .. m
  BY <1>2
<1> HIDE DEF m
<1>4. OwnNotes(u)'
  BY <1>2, <1>3 DEF Queue, OwnNotes
<1>5. ASSUME u \notin shared' PROVE OwnLoad(u)' /\ InOrder(u)' /\ ReadsOwn(u)'
  <2>1. OwnLoad(u) /\ InOrder(u) /\ ReadsOwn(u)
    BY <1>5 DEF Queue
  <2>2. OwnLoad(u)'
    BY <1>2, <1>3, <1>5, <2>1 DEF OwnLoad
  <2>3. InOrder(u)'
    BY <1>2, <1>3, <2>1 DEF InOrder, Foreign
  <2>4. ReadsOwn(u)'
    BY <1>2, <1>3, <2>1 DEF ReadsOwn, Foreign
  <2> QED
    BY <2>2, <2>3, <2>4
<1> QED
  BY <1>4, <1>5 DEF Queue

(* The end of a turn joins a queue: its own, or that of a turn that does    *)
(* not run on its thread, or that has not been told of its load yet.        *)
LEMMA QueueEnd ==
  ASSUME ControlTypes, NEW u \in Turn, Queue(u), NEW n \in Note, n.kind = "completed",
         items'[u] = Append(items[u], n), UNCHANGED <<opened, load, at, shared>>,
         n.turn = u => work[u] = "running" /\ work'[u] = n.says,
         n.turn # u => work'[u] = work[u],
         u \notin shared /\ Foreign(u, n) =>
           load[u] # "told" /\ SessionOf[opened[u]] = SessionOf[u] /\ at[u] \notin {"turn", "read"}
  PROVE  Queue(u)'
<1> DEFINE q == items[u]
           m == Len(q)
<1>1. q \in Seq(Note)
  BY DEF ControlTypes
<1>2. /\ Len(items'[u]) = m + 1 /\ items'[u][m + 1] = n /\ m \in Nat
      /\ \A i \in 1 .. m : items'[u][i] = q[i]
  BY <1>1, AppendAt
<1>3. /\ \A i \in 1 .. m + 1 : i \in Int /\ (i \in 1 .. m \/ i = m + 1)
      /\ \A i, j \in 1 .. m + 1 : i < j => i \in 1 .. m
  BY <1>2
<1>4. \A i \in 1 .. m : q[i].kind = "completed" => q[i].says \in {"completed", "interrupted"}
  BY NoteAt
<1> HIDE DEF m
<1>5. OwnNotes(u)'
  BY <1>2, <1>3, <1>4 DEF Queue, OwnNotes, m
<1>6. ASSUME u \notin shared' PROVE OwnLoad(u)' /\ InOrder(u)' /\ ReadsOwn(u)'
  <2>1. OwnLoad(u) /\ InOrder(u) /\ ReadsOwn(u)
    BY <1>6 DEF Queue
  <2>2. OwnLoad(u)'
    BY <1>2, <1>3, <2>1 DEF OwnLoad, m
  <2>3. ASSUME NEW i \in 1 .. m + 1, NEW j \in 1 .. m + 1, i < j,
               items'[u][i].kind = "status", items'[u][i].thread = opened[u]
        PROVE  ~Foreign(u, items'[u][j])
    <3>1. i \in 1 .. m /\ items'[u][i] = q[i]
      BY <1>2, <1>3, <2>3
    <3>2. CASE j \in 1 .. m
      BY <1>2, <2>1, <2>3, <3>1, <3>2 DEF InOrder, m
    <3>3. CASE j = m + 1
      <4> SUFFICES ASSUME Foreign(u, n) PROVE FALSE
        BY <1>2, <3>3
      <4>1. load[u] # "told" /\ SessionOf[opened[u]] = SessionOf[u]
        BY <1>6
      <4>2. SessionOf[q[i].thread] = SessionOf[u] /\ q[i].kind = "status"
        BY <2>3, <3>1, <4>1
      <4> QED
        BY <2>1, <3>1, <4>1, <4>2 DEF OwnLoad, m
    <3> QED
      BY <1>3, <3>2, <3>3
  <2>4. InOrder(u)'
    BY <1>2, <2>3 DEF InOrder, Foreign
  <2>5. ReadsOwn(u)'
    <3> SUFFICES ASSUME at[u] \in {"turn", "read"}, NEW i \in 1 .. m + 1
                 PROVE  ~Foreign(u, items'[u][i])
      BY <1>2 DEF ReadsOwn, Foreign
    <3>1. CASE i \in 1 .. m
      BY <1>2, <2>1, <3>1 DEF ReadsOwn, m
    <3>2. CASE i = m + 1
      BY <1>2, <1>6, <3>2
    <3> QED
      BY <1>3, <3>1, <3>2
  <2> QED
    BY <2>2, <2>4, <2>5
<1> QED
  BY <1>5, <1>6 DEF Queue

(* A turn that takes up a thread has heard of none of its conversation.     *)
LEMMA QueueOpens ==
  ASSUME ControlTypes, NEW u \in Turn, Queue(u), items'[u] = items[u],
         UNCHANGED <<work, shared>>, load[u] = "none",
         opened'[u] \in Turn => SessionOf[opened'[u]] = SessionOf[u],
         at'[u] \notin {"turn", "read"}
  PROVE  Queue(u)'
<1>1. OwnNotes(u)'
  BY DEF Queue, OwnNotes
<1>2. ASSUME u \notin shared' PROVE OwnLoad(u)' /\ InOrder(u)' /\ ReadsOwn(u)'
  <2>1. OwnLoad(u)
    BY <1>2 DEF Queue
  <2>2. \A i \in 1 .. Len(items[u]) :
          items[u][i].kind = "status" => SessionOf[items[u][i].thread] # SessionOf[u]
    BY <2>1 DEF OwnLoad
  <2>3. \A i \in 1 .. Len(items[u]) : items[u][i].kind = "status" => items[u][i].thread # opened'[u]
    BY <2>2, NoteAt
  <2>4. OwnLoad(u)'
    BY <2>2 DEF OwnLoad
  <2>5. InOrder(u)'
    BY <2>3 DEF InOrder
  <2> QED
    BY <2>4, <2>5 DEF ReadsOwn
<1> QED
  BY <1>1, <1>2 DEF Queue

(* The step of one turn. *)
LEMMA QueueOthers ==
  ASSUME ControlTypes, QueueInv, NEW t \in Turn, Others(t), shared \subseteq shared',
         \A u \in Turn \ {t} :
           /\ opened'[u] = opened[u] /\ (load[u] = "told" => load'[u] = "told")
           /\ work[u] \in {"completed", "interrupted"} => work'[u] = work[u],
         Queue(t)'
  PROVE  QueueInv'
<1> SUFFICES ASSUME NEW u \in Turn PROVE Queue(u)'
  BY DEF QueueInv
<1>1. CASE u = t
  BY <1>1
<1>2. CASE u # t
  <2>1. /\ Queue(u) /\ items'[u] = items[u] /\ at'[u] = at[u] /\ opened'[u] = opened[u]
        /\ load[u] = "told" => load'[u] = "told"
        /\ work[u] \in {"completed", "interrupted"} => work'[u] = work[u]
    BY <1>2 DEF QueueInv, Others, Same
  <2> QED
    BY <2>1, QueueSame
<1> QED
  BY <1>1, <1>2

(* A turn that moves on with its queue as it was, or is over.               *)
LEMMA QueueMoves ==
  ASSUME ControlTypes, QueueInv, NEW t \in Turn, Others(t), shared \subseteq shared',
         UNCHANGED <<opened, load, work>>,
         \/ items'[t] = <<>>
         \/ items'[t] = items[t] /\ (at'[t] \in {"turn", "read"} => at[t] \in {"turn", "read"})
  PROVE  QueueInv'
<1>1. CASE items'[t] = <<>>
  <2>1. Queue(t)'
    BY <1>1, QueueEmpty
  <2> QED
    BY <2>1, QueueOthers
<1>2. CASE items'[t] = items[t] /\ (at'[t] \in {"turn", "read"} => at[t] \in {"turn", "read"})
  <2>1. Queue(t)
    BY DEF QueueInv
  <2>2. Queue(t)'
    BY <1>2, <2>1, QueueSame
  <2> QED
    BY <2>2, QueueOthers
<1> QED
  BY <1>1, <1>2

(* A notification that a queue keeps is the turn's own, or one it passes    *)
(* over before its gateway is ready.                                        *)
LEMMA QueueStep ==
  ASSUME AgentWellFormed, ControlTypes, DataTypes, PhaseInv, ThreadInv, QuietInv, QueueInv,
         [AgentNext]_agentVars
  PROVE  QueueInv'
<1>1. ASSUME NEW t \in Turn, Begin(t) PROVE QueueInv'
  <2>1. Others(t) /\ UNCHANGED <<opened, load, work>>
    BY <1>1, BeginDoes
  <2>2. \/ items'[t] = <<>>
        \/ items'[t] = items[t] /\ (at'[t] \in {"turn", "read"} => at[t] \in {"turn", "read"})
    BY <1>1, BeginDoes DEF Sent, Moved, Over
  <2>3. shared \subseteq shared'
    BY <1>1 DEF Begin
  <2> QED
    BY <2>1, <2>2, <2>3, QueueMoves
<1>2. ASSUME NEW t \in Turn, Prepared(t) PROVE QueueInv'
  <2>1. Others(t) /\ UNCHANGED <<opened, load, work>>
    BY <1>2, PreparedDoes
  <2>2. \/ items'[t] = <<>>
        \/ items'[t] = items[t] /\ (at'[t] \in {"turn", "read"} => at[t] \in {"turn", "read"})
    BY <1>2, PreparedDoes DEF Sent, Moved, Over
  <2>3. shared \subseteq shared'
    BY <1>2, PreparedDoes
  <2> QED
    BY <2>1, <2>2, <2>3, QueueMoves
<1>3. ASSUME NEW t \in Turn, Lookup(t) PROVE QueueInv'
  <2> DEFINE k == thread[SessionOf[t]]
  <2>1. /\ Others(t) /\ opened' = [opened EXCEPT ![t] = k] /\ UNCHANGED <<load, work, shared>>
        /\ at[t] = "lookup" /\ Sent(t, IF k = NoThread THEN "thread" ELSE "unsubscribe")
    BY <1>3, LookupDoes
  <2>2. opened'[t] = k /\ \A u \in Turn \ {t} : opened'[u] = opened[u]
    BY <2>1 DEF DataTypes
  <2>3. k \in Turn => SessionOf[k] = SessionOf[t]
    BY DEF ThreadInv, AgentWellFormed
  <2>4. load[t] = "none" /\ Queue(t)
    BY <2>1 DEF PhaseInv, Phase, Loaded, Handled, QueueInv
  <2>5. Queue(t)'
    <3>1. CASE items'[t] = items[t] /\ at'[t] \notin {"turn", "read"}
      BY <2>1, <2>2, <2>3, <2>4, <3>1, QueueOpens
    <3>2. CASE items'[t] = <<>>
      BY <3>2, QueueEmpty
    <3> QED
      BY <2>1, <3>1, <3>2 DEF Sent, Moved, Over
  <2> QED
    BY <2>1, <2>2, <2>5, QueueOthers
<1>4. ASSUME NEW t \in Turn, Remember(t) PROVE QueueInv'
  <2>1. Others(t) /\ UNCHANGED <<opened, load, work>>
    BY <1>4, RememberDoes
  <2>2. \/ items'[t] = <<>>
        \/ items'[t] = items[t] /\ (at'[t] \in {"turn", "read"} => at[t] \in {"turn", "read"})
    BY <1>4, RememberDoes DEF Sent, Moved, Over
  <2>3. shared \subseteq shared'
    BY <1>4, RememberDoes
  <2> QED
    BY <2>1, <2>2, <2>3, QueueMoves
<1>5. ASSUME NEW t \in Turn, GatewayItem(t) PROVE QueueInv'
  <2>1. /\ Others(t) /\ UNCHANGED <<opened, load, work, shared>> /\ items[t] # <<>>
        /\ at[t] = "gateway" /\ Queue(t)
    BY <1>5, GatewayItemDoes DEF QueueInv
  <2>2. CASE Taken(t, "gateway", asked[t])
    <3>1. items'[t] = Tail(items[t]) /\ at'[t] = "gateway"
      BY <2>2 DEF Taken
    <3>2. Queue(t)'
      BY <2>1, <3>1, QueueTail
    <3> QED
      BY <2>1, <3>2, QueueOthers
  <2>3. CASE /\ Head(items[t]).kind = "status" /\ Head(items[t]).thread = opened[t]
             /\ Taken(t, "turn", "sent")
    <3>1. items'[t] = Tail(items[t])
      BY <2>3 DEF Taken
    <3>2. Queue(t)'
      BY <2>1, <2>3, <3>1, QueueTail
    <3> QED
      BY <2>1, <3>2, QueueOthers
  <2>4. CASE \E o \in {"error", "unavailable"} : Over(t, o)
    BY <2>1, <2>4, QueueMoves DEF Over
  <2> QED
    BY <1>5, <2>2, <2>3, <2>4, GatewayItemDoes
<1>6. ASSUME NEW t \in Turn, GatewayNone(t) PROVE QueueInv'
  <2>1. Others(t) /\ UNCHANGED <<opened, load, work>>
    BY <1>6, GatewayNoneDoes
  <2>2. \/ items'[t] = <<>>
        \/ items'[t] = items[t] /\ (at'[t] \in {"turn", "read"} => at[t] \in {"turn", "read"})
    BY <1>6, GatewayNoneDoes DEF Sent, Moved, Over
  <2>3. shared \subseteq shared'
    BY <1>6, GatewayNoneDoes
  <2> QED
    BY <2>1, <2>2, <2>3, QueueMoves
<1>7. ASSUME NEW t \in Turn, ReadItem(t) PROVE QueueInv'
  <2>1. /\ Others(t) /\ UNCHANGED <<opened, load, work, shared>> /\ items[t] # <<>>
        /\ at[t] = "read" /\ Queue(t)
    BY <1>7, ReadItemDoes DEF QueueInv
  <2>2. CASE Taken(t, "read", asked[t])
    <3>1. items'[t] = Tail(items[t])
      BY <2>2 DEF Taken
    <3>2. Queue(t)'
      BY <2>1, <3>1, QueueTail
    <3> QED
      BY <2>1, <3>2, QueueOthers
  <2>3. CASE items'[t] = <<>>
    BY <2>1, <2>3, QueueMoves
  <2> QED
    BY <1>7, <2>2, <2>3, ReadItemDoes DEF Over
<1>8. ASSUME NEW t \in Turn, ReadNone(t) PROVE QueueInv'
  <2>1. Others(t) /\ UNCHANGED <<opened, load, work>>
    BY <1>8, ReadNoneDoes
  <2>2. \/ items'[t] = <<>>
        \/ items'[t] = items[t] /\ (at'[t] \in {"turn", "read"} => at[t] \in {"turn", "read"})
    BY <1>8, ReadNoneDoes DEF Sent, Moved, Over
  <2>3. shared \subseteq shared'
    BY <1>8, ReadNoneDoes
  <2> QED
    BY <2>1, <2>2, <2>3, QueueMoves
<1>9. ASSUME NEW t \in Turn, InterruptGrace(t) PROVE QueueInv'
  <2>1. Others(t) /\ UNCHANGED <<opened, load, work>>
    BY <1>9, InterruptGraceDoes
  <2>2. \/ items'[t] = <<>>
        \/ items'[t] = items[t] /\ (at'[t] \in {"turn", "read"} => at[t] \in {"turn", "read"})
    BY <1>9, InterruptGraceDoes DEF Sent, Moved, Over
  <2>3. shared \subseteq shared'
    BY <1>9, InterruptGraceDoes
  <2> QED
    BY <2>1, <2>2, <2>3, QueueMoves
<1>10. ASSUME NEW t \in Turn, Handle(t) PROVE QueueInv'
  <2>1. /\ Others(t) /\ asked[t] = "sent" /\ shared' = shared /\ Queue(t)
        /\ items'[t] = items[t] /\ at'[t] = at[t]
    BY <1>10, HandleDoes DEF QueueInv, Moved
  <2>2. CASE at[t] = "unsubscribe" /\ Unload(opened[t]) /\ UNCHANGED opened
    <3>1. \A u \in Turn : /\ work[u] \in {"completed", "interrupted"} => work'[u] = work[u]
                          /\ load[u] = "told" => load'[u] = "told"
      BY <2>2, UnloadDoes
    <3>2. Queue(t)'
      BY <2>1, <2>2, <3>1, QueueSame
    <3> QED
      BY <2>1, <2>2, <3>1, <3>2, QueueOthers
  <2>3. CASE /\ at[t] = "resume"
             /\ load' = [load EXCEPT ![t] = "loading"] /\ UNCHANGED <<work, opened>>
    <3>1. load[t] = "none"
      BY <2>1, <2>3 DEF PhaseInv, Phase, Loaded, Handled
    <3>2. \A u \in Turn \ {t} : load'[u] = load[u]
      BY <2>3 DEF DataTypes
    <3>3. Queue(t)'
      BY <2>1, <2>3, <3>1, QueueSame
    <3> QED
      BY <2>1, <2>3, <3>2, <3>3, QueueOthers
  <2>4. CASE /\ at[t] = "thread" /\ opened' = [opened EXCEPT ![t] = t]
             /\ load' = [load EXCEPT ![t] = "loading"] /\ UNCHANGED work
    <3>1. load[t] = "none"
      BY <2>1, <2>4 DEF PhaseInv, Phase, Loaded, Handled
    <3>2. /\ opened'[t] = t
          /\ \A u \in Turn \ {t} : load'[u] = load[u] /\ opened'[u] = opened[u]
      BY <2>4 DEF DataTypes
    <3>3. Queue(t)'
      BY <2>1, <2>4, <3>1, <3>2, QueueOpens
    <3> QED
      BY <2>1, <2>4, <3>2, <3>3, QueueOthers
  <2>5. CASE /\ at[t] = "turn"
             /\ work' = [work EXCEPT ![t] = "running"] /\ UNCHANGED <<load, opened>>
    <3>1. work[t] = "none"
      BY <2>1, <2>5 DEF PhaseInv, Phase, Handled
    <3>2. \A u \in Turn \ {t} : work'[u] = work[u]
      BY <2>5 DEF DataTypes
    <3>3. Queue(t)'
      BY <2>1, <2>5, <3>1, QueueSame
    <3> QED
      BY <2>1, <2>5, <3>2, <3>3, QueueOthers
  <2>6. CASE at[t] = "interrupt" /\ UNCHANGED <<load, work, opened>>
    BY <2>1, <2>6, QueueMoves
  <2> QED
    BY <1>10, <2>2, <2>3, <2>4, <2>5, <2>6, HandleDoes
<1>11. ASSUME NEW t \in Turn, Answer(t) PROVE QueueInv'
  <2>1. Others(t) /\ UNCHANGED <<opened, load, work>>
    BY <1>11, AnswerDoes
  <2>2. \/ items'[t] = <<>>
        \/ items'[t] = items[t] /\ (at'[t] \in {"turn", "read"} => at[t] \in {"turn", "read"})
    BY <1>11, AnswerDoes DEF Sent, Moved, Over
  <2>3. shared \subseteq shared'
    BY <1>11, AnswerDoes
  <2> QED
    BY <2>1, <2>2, <2>3, QueueMoves
<1>12. ASSUME NEW t \in Turn, Refuse(t) PROVE QueueInv'
  <2>1. Others(t) /\ UNCHANGED <<opened, load, work>>
    BY <1>12, RefuseDoes
  <2>2. \/ items'[t] = <<>>
        \/ items'[t] = items[t] /\ (at'[t] \in {"turn", "read"} => at[t] \in {"turn", "read"})
    BY <1>12, RefuseDoes DEF Sent, Moved, Over
  <2>3. shared \subseteq shared'
    BY <1>12, RefuseDoes
  <2> QED
    BY <2>1, <2>2, <2>3, QueueMoves
<1>13. ASSUME NEW t \in Turn, NEW why \in {"reader", "deadline"}, Stop(t, why) PROVE QueueInv'
  <2>1. UNCHANGED <<at, items, opened, load, work, shared>>
    BY <1>13, StopDoes
  <2>2. \A u \in Turn : Queue(u)'
    BY <2>1, QueueSame DEF QueueInv
  <2> QED
    BY <2>2 DEF QueueInv
<1>14. ASSUME NEW t \in Turn, NEW v \in {"ready", "failed"}, Tell(t, v) PROVE QueueInv'
  <2> DEFINE n == Status(opened[t], v)
  <2>1. /\ n \in Note /\ load[t] = "loading" /\ load' = [load EXCEPT ![t] = "told"]
        /\ UNCHANGED <<at, opened, work>>
        /\ shared' = shared \cup {u \in open \ {t} : gen[u] = gen[t] /\ SessionOf[u] = SessionOf[t]}
        /\ \A u \in Turn : \/ items'[u] = items[u]
                           \/ /\ u \in open /\ gen[u] = gen[t]
                              /\ items'[u] = Append(items[u], n)
    BY <1>14, TellDoes
  <2>2. n.kind = "status" /\ n.thread = opened[t]
    BY DEF Status
  <2>3. SessionOf[opened[t]] = SessionOf[t]
    BY <2>1 DEF PhaseInv, Phase, ThreadInv
  <2>4. load'[t] = "told" /\ \A u \in Turn : load[u] = "told" => load'[u] = "told"
    BY <2>1 DEF DataTypes
  <2> HIDE DEF n
  <2> SUFFICES ASSUME NEW u \in Turn PROVE Queue(u)'
    BY DEF QueueInv
  <2>5. Queue(u) /\ (u \in shared => u \in shared')
    BY <2>1 DEF QueueInv
  <2>6. CASE items'[u] = items[u]
    BY <2>1, <2>4, <2>5, <2>6, QueueSame
  <2>7. CASE u \in open /\ gen[u] = gen[t] /\ items'[u] = Append(items[u], n)
    <3>1. u \notin shared' => load'[u] = "told" \/ SessionOf[n.thread] # SessionOf[u]
      BY <2>1, <2>2, <2>3, <2>4, <2>7
    <3> QED
      BY <2>1, <2>2, <2>4, <2>5, <2>7, <3>1, QueueStatus
  <2> QED
    BY <2>1, <2>6, <2>7
<1>15. ASSUME NEW t \in Turn, NEW v \in {"completed", "interrupted"}, CodexEnds(t, v)
      PROVE QueueInv'
  <2> DEFINE n == Completed(opened[t], t, v)
  <2>1. /\ n \in Note /\ work[t] = "running" /\ work' = [work EXCEPT ![t] = v]
        /\ UNCHANGED <<at, opened, load, shared>>
        /\ \A u \in Turn : \/ items'[u] = items[u]
                           \/ u \in open /\ items'[u] = Append(items[u], n)
    BY <1>15, CodexEndsDoes
  <2>2. n.kind = "completed" /\ n.turn = t /\ n.thread = opened[t] /\ n.says = v
    BY DEF Completed
  <2>3. work'[t] = v /\ \A u \in Turn \ {t} : work'[u] = work[u]
    BY <2>1 DEF DataTypes
  <2>4. opened[t] \in Turn
    BY <2>1 DEF PhaseInv, Phase
  <2> HIDE DEF n
  <2> SUFFICES ASSUME NEW u \in Turn PROVE Queue(u)'
    BY DEF QueueInv
  <2>5. Queue(u)
    BY DEF QueueInv
  <2>6. CASE items'[u] = items[u]
    <3>1. work[u] \in {"completed", "interrupted"} => work'[u] = work[u]
      BY <2>1, <2>3
    <3> QED
      BY <2>1, <2>5, <2>6, <3>1, QueueSame
  <2>7. CASE u \in open /\ items'[u] = Append(items[u], n)
    <3>1. ASSUME u \notin shared, Foreign(u, n)
          PROVE  /\ load[u] # "told" /\ SessionOf[opened[u]] = SessionOf[u]
                 /\ at[u] \notin {"turn", "read"}
      <4>1. u # t /\ opened[u] = opened[t]
        BY <2>2, <3>1 DEF Foreign
      <4>2. ~Unloaded(u)
        BY <2>1, <2>4, <3>1, <4>1 DEF QuietInv
      <4>3. load[u] # "told"
        BY <2>7, <4>2 DEF PhaseInv, Phase, Loaded, Unloaded, Handled
      <4> QED
        BY <2>4, <4>1, <4>2, <4>3 DEF Unloaded, ThreadInv
    <3>2. /\ n.turn = u => work[u] = "running" /\ work'[u] = n.says
          /\ n.turn # u => work'[u] = work[u]
      BY <2>1, <2>2, <2>3
    <3> QED
      BY <2>1, <2>2, <2>5, <2>7, <3>1, <3>2, QueueEnd
  <2> QED
    BY <2>1, <2>6, <2>7
<1>16. ASSUME NEW g \in Gen, HandshakeOk(g) PROVE QueueInv'
  <2>1. /\ UNCHANGED <<opened, load, work, shared>>
        /\ \A u \in Turn : items'[u] = items[u] /\ (at'[u] = at[u] \/ at'[u] = "lookup")
    BY <1>16, HandshakeOkDoes DEF Same, Moved
  <2>2. \A u \in Turn : Queue(u)'
    BY <2>1, QueueSame DEF QueueInv
  <2> QED
    BY <2>2 DEF QueueInv
<1>17. ASSUME NEW g \in Gen, HandshakeFails(g) PROVE QueueInv'
  <2>1. /\ UNCHANGED <<opened, load, work, shared>>
        /\ \A u \in Turn : items'[u] = <<>> \/ (items'[u] = items[u] /\ at'[u] = at[u])
    BY <1>17, HandshakeFailsDoes DEF Same, Over
  <2>2. \A u \in Turn : Queue(u)'
    BY <2>1, QueueSame, QueueEmpty DEF QueueInv
  <2> QED
    BY <2>2 DEF QueueInv
<1>18. ASSUME NEW g \in Gen, Exit(g) PROVE QueueInv'
  <2>1. Closed(g)
    BY <1>18 DEF Exit
  <2>2. /\ UNCHANGED <<opened, shared>>
        /\ \A u \in Turn : items'[u] = <<>> \/ (items'[u] = items[u] /\ at'[u] = at[u])
    BY <2>1, ClosedDoes DEF Same, Over
  <2>3. \A u \in Turn : /\ work[u] \in {"completed", "interrupted"} => work'[u] = work[u]
                        /\ load[u] = "told" => load'[u] = "told"
    BY <2>1, ClosedDoes
  <2>4. \A u \in Turn : Queue(u)'
    BY <2>2, <2>3, QueueSame, QueueEmpty DEF QueueInv
  <2> QED
    BY <2>4 DEF QueueInv
<1>19. ASSUME NEW g \in Gen, SpawnFails(g) PROVE QueueInv'
  <2>1. Closed(g)
    BY <1>19 DEF SpawnFails
  <2>2. /\ UNCHANGED <<opened, shared>>
        /\ \A u \in Turn : items'[u] = <<>> \/ (items'[u] = items[u] /\ at'[u] = at[u])
    BY <2>1, ClosedDoes DEF Same, Over
  <2>3. \A u \in Turn : /\ work[u] \in {"completed", "interrupted"} => work'[u] = work[u]
                        /\ load[u] = "told" => load'[u] = "told"
    BY <2>1, ClosedDoes
  <2>4. \A u \in Turn : Queue(u)'
    BY <2>2, <2>3, QueueSame, QueueEmpty DEF QueueInv
  <2> QED
    BY <2>4 DEF QueueInv
<1>20. ASSUME UNCHANGED agentVars PROVE QueueInv'
  <2>1. UNCHANGED <<at, items, opened, load, work, shared>>
    BY <1>20 DEF agentVars
  <2>2. \A u \in Turn : Queue(u)'
    BY <2>1, QueueSame DEF QueueInv
  <2> QED
    BY <2>2 DEF QueueInv
<1>21. ASSUME NEW t \in Turn, DatabaseFails(t) PROVE QueueInv'
  <2>1. Others(t) /\ UNCHANGED <<opened, load, work>>
    BY <1>21, DatabaseDoes
  <2>2. \/ items'[t] = <<>>
        \/ items'[t] = items[t] /\ (at'[t] \in {"turn", "read"} => at[t] \in {"turn", "read"})
    BY <1>21, DatabaseDoes DEF Sent, Moved, Over
  <2>3. shared \subseteq shared'
    BY <1>21, DatabaseDoes
  <2> QED
    BY <2>1, <2>2, <2>3, QueueMoves
<1> QED
  BY <1>1, <1>2, <1>3, <1>4, <1>5, <1>6, <1>7, <1>8, <1>9, <1>10, <1>11, <1>12, <1>13, <1>14,
     <1>15, <1>16, <1>17, <1>18, <1>19, <1>20, <1>21
     DEF AgentNext, TurnStep, CodexAnswers, Handshake, AllDone

(* A turn that a step leaves alone keeps its completion. *)
LEMMA DueSame ==
  ASSUME NEW u \in Turn, Due(u), Same(u), opened'[u] = opened[u],
         work[u] = "completed" => work'[u] = "completed"
  PROVE  Due(u)'
BY DEF Due, Same, Completed

(* The step of one turn. *)
LEMMA DueOthers ==
  ASSUME DueInv, due \subseteq Turn, NEW t \in Turn, Others(t), shared \subseteq shared',
         due' = due,
         \A u \in Turn \ {t} : /\ opened'[u] = opened[u]
                               /\ work[u] = "completed" => work'[u] = "completed",
         t \in due \ shared' => Due(t)'
  PROVE  DueInv'
<1> SUFFICES ASSUME NEW u \in due \ shared' PROVE Due(u)'
  BY DEF DueInv
<1>1. u \in Turn /\ Due(u)
  BY DEF DueInv
<1>2. CASE u = t
  BY <1>2
<1>3. CASE u # t
  BY <1>1, <1>3, DueSame DEF Others
<1> QED
  BY <1>2, <1>3

(* The end of a turn stays in its queue when another notification joins.    *)
LEMMA DueAppend ==
  ASSUME ControlTypes, NEW u \in Turn, Due(u), NEW n \in Note, items'[u] = Append(items[u], n),
         UNCHANGED <<at, outcome, opened>>, work[u] = "completed" => work'[u] = "completed"
  PROVE  Due(u)'
<1> DEFINE q == items[u]
<1>1. q \in Seq(Note)
  BY DEF ControlTypes
<1>2. /\ Len(items'[u]) = Len(q) + 1 /\ Len(q) \in Nat
      /\ \A i \in 1 .. Len(q) : items'[u][i] = q[i] /\ i \in 1 .. Len(items'[u])
  BY <1>1, AppendAt
<1> QED
  BY <1>2 DEF Due, Completed

(* It stays there when another is taken from the head. *)
LEMMA DueTail ==
  ASSUME ControlTypes, NEW u \in Turn, Due(u), items[u] # <<>>, at[u] = "read",
         Head(items[u]) # Completed(opened[u], u, "completed"),
         items'[u] = Tail(items[u]), at'[u] = at[u], UNCHANGED <<opened, work>>
  PROVE  Due(u)'
<1> DEFINE q == items[u]
           n == Len(q) - 1
<1>1. q \in Seq(Note)
  BY DEF ControlTypes
<1>2. /\ n \in Nat /\ n + 1 = Len(q) /\ Len(items'[u]) = n /\ Head(q) = q[1]
      /\ \A i \in 1 .. n : items'[u][i] = q[i + 1]
  BY <1>1, TailAt
<1>3. PICK i \in 1 .. Len(q) : q[i] = Completed(opened[u], u, "completed")
  BY DEF Due
<1>4. i - 1 \in 1 .. n /\ (i - 1) + 1 = i
  BY <1>2, <1>3
<1>5. items'[u][i - 1] = Completed(opened[u], u, "completed")
  BY <1>2, <1>3, <1>4
<1> HIDE DEF n
<1>6. i - 1 \in 1 .. Len(items'[u])
  BY <1>2, <1>4
<1> QED
  BY <1>5, <1>6 DEF Due, Completed

(* The end that a turn reads is its own, and is what codex did. *)
LEMMA ReadsItsEnd ==
  ASSUME ControlTypes, QueueInv, NEW t \in Turn \ shared, at[t] = "read", items[t] # <<>>,
         Head(items[t]).kind = "completed", Head(items[t]).thread = opened[t]
  PROVE  work[t] = Head(items[t]).says
<1>1. items[t] \in Seq(Note)
  BY DEF ControlTypes
<1>2. 1 \in 1 .. Len(items[t]) /\ items[t][1] = Head(items[t])
  BY <1>1, TailAt
<1>3. OwnNotes(t) /\ ReadsOwn(t)
  BY DEF QueueInv, Queue
<1>4. Head(items[t]).turn = t
  BY <1>2, <1>3 DEF ReadsOwn, Foreign
<1> QED
  BY <1>2, <1>3, <1>4 DEF OwnNotes

(* A completion that reached its turn's queue is in it until it is read, or *)
(* the answer to turn/start is lost.                                        *)
LEMMA DueStep ==
  ASSUME ControlTypes, DataTypes, PhaseInv, QueueInv, DueInv, [AgentNext]_agentVars
  PROVE  DueInv'
<1>1. ASSUME NEW t \in Turn, Begin(t) PROVE DueInv'
  <2>1. /\ Others(t) /\ UNCHANGED <<opened, work, due>>
        /\ at[t] \in {"new", "prepare", "remember", "gateway", "interrupt"}
    BY <1>1, BeginDoes
  <2>2. t \notin due \ shared
    BY <2>1 DEF DueInv, Due
  <2>3. shared \subseteq shared'
    BY <1>1 DEF Begin
  <2> QED
    BY <2>1, <2>2, <2>3, DueOthers DEF DataTypes
<1>2. ASSUME NEW t \in Turn, Prepared(t) PROVE DueInv'
  <2>1. /\ Others(t) /\ UNCHANGED <<opened, work, due>>
        /\ at[t] \in {"new", "prepare", "remember", "gateway", "interrupt"}
    BY <1>2, PreparedDoes
  <2>2. t \notin due \ shared
    BY <2>1 DEF DueInv, Due
  <2>3. shared \subseteq shared'
    BY <1>2, PreparedDoes
  <2> QED
    BY <2>1, <2>2, <2>3, DueOthers DEF DataTypes
<1>3. ASSUME NEW t \in Turn, Lookup(t) PROVE DueInv'
  <2>1. /\ Others(t) /\ opened' = [opened EXCEPT ![t] = thread[SessionOf[t]]]
        /\ at[t] = "lookup" /\ UNCHANGED <<work, shared, due>>
    BY <1>3, LookupDoes
  <2>2. t \notin due \ shared
    BY <2>1 DEF DueInv, Due
  <2>3. \A u \in Turn \ {t} : opened'[u] = opened[u]
    BY <2>1 DEF DataTypes
  <2> QED
    BY <2>1, <2>2, <2>3, DueOthers DEF DataTypes
<1>4. ASSUME NEW t \in Turn, Remember(t) PROVE DueInv'
  <2>1. /\ Others(t) /\ UNCHANGED <<opened, work, due>>
        /\ at[t] \in {"new", "prepare", "remember", "gateway", "interrupt"}
    BY <1>4, RememberDoes
  <2>2. t \notin due \ shared
    BY <2>1 DEF DueInv, Due
  <2>3. shared \subseteq shared'
    BY <1>4, RememberDoes
  <2> QED
    BY <2>1, <2>2, <2>3, DueOthers DEF DataTypes
<1>5. ASSUME NEW t \in Turn, GatewayItem(t) PROVE DueInv'
  <2>1. /\ Others(t) /\ UNCHANGED <<opened, work, due>>
        /\ at[t] \in {"new", "prepare", "remember", "gateway", "interrupt"}
    BY <1>5, GatewayItemDoes
  <2>2. t \notin due \ shared
    BY <2>1 DEF DueInv, Due
  <2>3. shared \subseteq shared'
    BY <1>5, GatewayItemDoes
  <2> QED
    BY <2>1, <2>2, <2>3, DueOthers DEF DataTypes
<1>6. ASSUME NEW t \in Turn, GatewayNone(t) PROVE DueInv'
  <2>1. /\ Others(t) /\ UNCHANGED <<opened, work, due>>
        /\ at[t] \in {"new", "prepare", "remember", "gateway", "interrupt"}
    BY <1>6, GatewayNoneDoes
  <2>2. t \notin due \ shared
    BY <2>1 DEF DueInv, Due
  <2>3. shared \subseteq shared'
    BY <1>6, GatewayNoneDoes
  <2> QED
    BY <2>1, <2>2, <2>3, DueOthers DEF DataTypes
<1>7. ASSUME NEW t \in Turn, ReadItem(t) PROVE DueInv'
  <2> DEFINE n == Head(items[t])
             mine == n.kind = "completed" /\ n.thread = opened[t]
  <2>1. /\ Others(t) /\ UNCHANGED <<opened, work, shared, due>> /\ at[t] = "read" /\ items[t] # <<>>
        /\ \/ ~mine /\ Taken(t, "read", asked[t])
           \/ mine /\ Over(t, Conclusion(t, n.says))
    BY <1>7, ReadItemDoes
  <2>2. ASSUME t \in due \ shared PROVE Due(t)'
    <3>1. Due(t)
      BY <2>2 DEF DueInv
    <3>2. CASE ~mine /\ Taken(t, "read", asked[t])
      <4>1. n # Completed(opened[t], t, "completed")
        BY <3>2 DEF Completed
      <4> QED
        BY <2>1, <3>1, <3>2, <4>1, DueTail DEF Taken
    <3>3. CASE mine /\ Over(t, Conclusion(t, n.says))
      <4>1. work[t] = n.says
        BY <2>1, <2>2, <3>3, ReadsItsEnd
      <4>2. Conclusion(t, n.says) = "completed"
        BY <3>1, <4>1 DEF Due, Conclusion
      <4> QED
        BY <2>1, <3>1, <3>3, <4>2 DEF Due, Over
    <3> QED
      BY <2>1, <3>2, <3>3
  <2> QED
    BY <2>1, <2>2, DueOthers DEF DataTypes
<1>8. ASSUME NEW t \in Turn, ReadNone(t) PROVE DueInv'
  <2>1. /\ Others(t) /\ UNCHANGED <<opened, work, shared, due>>
        /\ at[t] = "read" /\ items[t] = <<>>
    BY <1>8, ReadNoneDoes
  <2>2. 1 .. Len(items[t]) = {}
    BY <2>1
  <2>3. t \notin due \ shared
    BY <2>1, <2>2 DEF DueInv, Due
  <2> QED
    BY <2>1, <2>3, DueOthers DEF DataTypes
<1>9. ASSUME NEW t \in Turn, InterruptGrace(t) PROVE DueInv'
  <2>1. /\ Others(t) /\ UNCHANGED <<opened, work, due>>
        /\ at[t] \in {"new", "prepare", "remember", "gateway", "interrupt"}
    BY <1>9, InterruptGraceDoes
  <2>2. t \notin due \ shared
    BY <2>1 DEF DueInv, Due
  <2>3. shared \subseteq shared'
    BY <1>9, InterruptGraceDoes
  <2> QED
    BY <2>1, <2>2, <2>3, DueOthers DEF DataTypes
<1>10. ASSUME NEW t \in Turn, Handle(t) PROVE DueInv'
  <2>1. Others(t) /\ asked[t] = "sent" /\ UNCHANGED <<shared, due>>
    BY <1>10, HandleDoes
  <2>2. t \notin due \ shared
    BY <2>1 DEF DueInv, Due, PhaseInv, Phase, Handled, Requests
  <2>3. \A u \in Turn \ {t} : /\ opened'[u] = opened[u]
                              /\ work[u] = "completed" => work'[u] = "completed"
    <3>1. CASE Unload(opened[t]) /\ UNCHANGED opened
      BY <3>1, UnloadDoes
    <3>2. CASE UNCHANGED <<work, opened>>
      BY <3>2
    <3>3. CASE opened' = [opened EXCEPT ![t] = t] /\ UNCHANGED work
      BY <3>3 DEF DataTypes
    <3>4. CASE work' = [work EXCEPT ![t] = "running"] /\ UNCHANGED opened
      BY <3>4 DEF DataTypes
    <3> QED
      BY <1>10, <3>1, <3>2, <3>3, <3>4, HandleDoes
  <2> QED
    BY <2>1, <2>2, <2>3, DueOthers DEF DataTypes
<1>11. ASSUME NEW t \in Turn, Answer(t) PROVE DueInv'
  <2>1. Others(t) /\ asked[t] = "handled" /\ UNCHANGED <<opened, work, shared, due>>
    BY <1>11, AnswerDoes
  <2>2. ASSUME t \in due \ shared PROVE Due(t)'
    <3>1. Due(t)
      BY <2>2 DEF DueInv
    <3>2. at[t] = "turn"
      BY <2>1, <3>1 DEF Due, PhaseInv, Phase, Requests
    <3>3. Moved(t, "read", "none")
      BY <1>11, <3>2, AnswerDoes
    <3> QED
      BY <2>1, <3>1, <3>2, <3>3 DEF Due, Moved, Completed
  <2> QED
    BY <2>1, <2>2, DueOthers DEF DataTypes
<1>12. ASSUME NEW t \in Turn, Refuse(t) PROVE DueInv'
  <2>1. Others(t) /\ asked[t] = "sent" /\ UNCHANGED <<opened, work, due>> /\ shared \subseteq shared'
    BY <1>12, RefuseDoes
  <2>2. t \notin due \ shared
    BY <2>1 DEF DueInv, Due, PhaseInv, Phase, Handled, Requests
  <2> QED
    BY <2>1, <2>2, DueOthers DEF DataTypes
<1>13. ASSUME NEW t \in Turn, NEW why \in {"reader", "deadline"}, Stop(t, why) PROVE DueInv'
  <2>1. UNCHANGED <<at, items, outcome, opened, work, shared, due>>
    BY <1>13, StopDoes
  <2> QED
    BY <2>1 DEF DueInv, Due, Completed
<1>14. ASSUME NEW t \in Turn, NEW v \in {"ready", "failed"}, Tell(t, v) PROVE DueInv'
  <2> DEFINE n == Status(opened[t], v)
  <2>1. /\ n \in Note /\ UNCHANGED <<at, outcome, opened, work, due>> /\ shared \subseteq shared'
        /\ \A u \in Turn : items'[u] = items[u] \/ items'[u] = Append(items[u], n)
    BY <1>14, TellDoes
  <2> HIDE DEF n
  <2> SUFFICES ASSUME NEW u \in due \ shared' PROVE Due(u)'
    BY <2>1 DEF DueInv
  <2>2. u \in Turn /\ Due(u)
    BY <2>1 DEF DueInv, DataTypes
  <2>3. CASE items'[u] = items[u]
    BY <2>1, <2>2, <2>3 DEF Due, Completed
  <2>4. CASE items'[u] = Append(items[u], n)
    BY <2>1, <2>2, <2>4, DueAppend
  <2> QED
    BY <2>1, <2>2, <2>3, <2>4
<1>15. ASSUME NEW t \in Turn, NEW v \in {"completed", "interrupted"}, CodexEnds(t, v)
      PROVE DueInv'
  <2> DEFINE n == Completed(opened[t], t, v)
  <2>1. /\ n \in Note /\ work[t] = "running" /\ work' = [work EXCEPT ![t] = v]
        /\ UNCHANGED <<at, outcome, opened, shared>>
        /\ due' = IF v = "completed" /\ t \in open THEN due \cup {t} ELSE due
        /\ \A u \in Turn : items'[u] = items[u] \/ items'[u] = Append(items[u], n)
        /\ t \in open => items'[t] = Append(items[t], n)
    BY <1>15, CodexEndsDoes
  <2>2. work'[t] = v /\ \A u \in Turn \ {t} : work'[u] = work[u]
    BY <2>1 DEF DataTypes
  <2> SUFFICES ASSUME NEW u \in due' \ shared PROVE Due(u)'
    BY <2>1 DEF DueInv
  <2>3. CASE u = t
    <3>1. v = "completed" /\ t \in open
      BY <2>1, <2>3 DEF DueInv, Due
    <3>2. at[t] \in {"turn", "read"}
      BY <2>1, <3>1 DEF PhaseInv, Phase, Handled
    <3>3. items[t] \in Seq(Note)
      BY DEF ControlTypes
    <3>4. /\ Len(items'[t]) = Len(items[t]) + 1 /\ Len(items[t]) \in Nat
          /\ items'[t][Len(items[t]) + 1] = n
      BY <2>1, <3>1, <3>3, AppendAt
    <3>5. Len(items[t]) + 1 \in 1 .. Len(items'[t])
      BY <3>4
    <3> QED
      BY <2>1, <2>2, <2>3, <3>1, <3>2, <3>4, <3>5 DEF Due, Completed
  <2>4. CASE u # t
    <3>1. u \in Turn /\ Due(u) /\ work'[u] = work[u]
      BY <2>1, <2>2, <2>4 DEF DueInv, DataTypes
    <3>2. CASE items'[u] = items[u]
      BY <2>1, <3>1, <3>2 DEF Due, Completed
    <3>3. CASE items'[u] = Append(items[u], n)
      BY <2>1, <3>1, <3>3, DueAppend
    <3> QED
      BY <2>1, <3>1, <3>2, <3>3
  <2> QED
    BY <2>3, <2>4
<1>16. ASSUME NEW g \in Gen, HandshakeOk(g) PROVE DueInv'
  <2>1. UNCHANGED <<opened, work, shared, due>> /\ \A u \in Turn : Same(u) \/ at[u] = "connect"
    BY <1>16, HandshakeOkDoes
  <2>2. \A u \in due \ shared : u \in Turn /\ Due(u) /\ at[u] # "connect"
    BY DEF DueInv, Due, DataTypes
  <2>3. \A u \in due \ shared : Due(u)'
    BY <2>1, <2>2, DueSame
  <2> QED
    BY <2>1, <2>3 DEF DueInv
<1>17. ASSUME NEW g \in Gen, HandshakeFails(g) PROVE DueInv'
  <2>1. UNCHANGED <<opened, work, shared, due>> /\ \A u \in Turn : Same(u) \/ at[u] = "connect"
    BY <1>17, HandshakeFailsDoes
  <2>2. \A u \in due \ shared : u \in Turn /\ Due(u) /\ at[u] # "connect"
    BY DEF DueInv, Due, DataTypes
  <2>3. \A u \in due \ shared : Due(u)'
    BY <2>1, <2>2, DueSame
  <2> QED
    BY <2>1, <2>3 DEF DueInv
<1>18. ASSUME NEW g \in Gen, Exit(g) PROVE DueInv'
  <2>1. Closed(g)
    BY <1>18 DEF Exit
  <2>2. UNCHANGED <<opened, shared, due>>
    BY <2>1, ClosedDoes
  <2> SUFFICES ASSUME NEW u \in due \ shared PROVE Due(u)'
    BY <2>2 DEF DueInv
  <2>3. u \in Turn /\ Due(u)
    BY DEF DueInv, DataTypes
  <2>4. work[u] = "completed" => work'[u] = "completed"
    BY <2>1, <2>3, ClosedDoes
  <2>5. CASE Same(u)
    BY <2>2, <2>3, <2>4, <2>5, DueSame
  <2>6. CASE /\ at[u] \in {"connect"} \cup Requests
             /\ \E o \in {"error", "aborted", "failed"} :
                  Over(u, o) /\ (at[u] # "interrupt" => o = "error")
    <3>1. Over(u, "error")
      BY <2>3, <2>6 DEF Due
    <3> QED
      BY <2>3, <2>4, <3>1 DEF Due, Over
  <2> QED
    BY <2>1, <2>3, <2>5, <2>6, ClosedDoes
<1>19. ASSUME NEW g \in Gen, SpawnFails(g) PROVE DueInv'
  <2>1. Closed(g)
    BY <1>19 DEF SpawnFails
  <2>2. UNCHANGED <<opened, shared, due>>
    BY <2>1, ClosedDoes
  <2> SUFFICES ASSUME NEW u \in due \ shared PROVE Due(u)'
    BY <2>2 DEF DueInv
  <2>3. u \in Turn /\ Due(u)
    BY DEF DueInv, DataTypes
  <2>4. work[u] = "completed" => work'[u] = "completed"
    BY <2>1, <2>3, ClosedDoes
  <2>5. CASE Same(u)
    BY <2>2, <2>3, <2>4, <2>5, DueSame
  <2>6. CASE /\ at[u] \in {"connect"} \cup Requests
             /\ \E o \in {"error", "aborted", "failed"} :
                  Over(u, o) /\ (at[u] # "interrupt" => o = "error")
    <3>1. Over(u, "error")
      BY <2>3, <2>6 DEF Due
    <3> QED
      BY <2>3, <2>4, <3>1 DEF Due, Over
  <2> QED
    BY <2>1, <2>3, <2>5, <2>6, ClosedDoes
<1>20. ASSUME UNCHANGED agentVars PROVE DueInv'
  <2>1. UNCHANGED <<at, items, outcome, opened, work, shared, due>>
    BY <1>20 DEF agentVars
  <2> QED
    BY <2>1 DEF DueInv, Due, Completed
<1>21. ASSUME NEW t \in Turn, DatabaseFails(t) PROVE DueInv'
  <2>1. /\ Others(t) /\ UNCHANGED <<opened, work, due>> /\ at[t] \in {"lookup", "remember"}
    BY <1>21, DatabaseDoes
  <2>2. t \notin due \ shared
    BY <2>1 DEF DueInv, Due
  <2>3. shared \subseteq shared'
    BY <1>21, DatabaseDoes
  <2> QED
    BY <2>1, <2>2, <2>3, DueOthers DEF DataTypes
<1> QED
  BY <1>1, <1>2, <1>3, <1>4, <1>5, <1>6, <1>7, <1>8, <1>9, <1>10, <1>11, <1>12, <1>13, <1>14,
     <1>15, <1>16, <1>17, <1>18, <1>19, <1>20, <1>21
     DEF AgentNext, TurnStep, CodexAnswers, Handshake, AllDone

(* A step that reports no completion keeps OwnCompletion. *)
LEMMA OwnKept ==
  ASSUME OwnCompletion, shared \subseteq shared',
         \A u \in Turn : /\ outcome'[u] = outcome[u] \/ outcome'[u] # "completed"
                         /\ work[u] = "completed" => work'[u] = "completed"
  PROVE  OwnCompletion'
BY DEF OwnCompletion

(* The step of one turn. *)
LEMMA OwnOthers ==
  ASSUME OwnCompletion, NEW t \in Turn, Others(t), shared \subseteq shared', UNCHANGED work,
         outcome'[t] = outcome[t] \/ outcome'[t] # "completed"
  PROVE  OwnCompletion'
BY OwnKept DEF Others, Same

(* Only the end that a turn reads makes it report completed. *)
LEMMA OwnStep ==
  ASSUME ControlTypes, DataTypes, PhaseInv, QueueInv, OwnCompletion, [AgentNext]_agentVars
  PROVE  OwnCompletion'
<1>1. ASSUME NEW t \in Turn, Begin(t) PROVE OwnCompletion'
  <2>1. Others(t) /\ UNCHANGED work
    BY <1>1, BeginDoes
  <2>2. outcome'[t] = outcome[t] \/ outcome'[t] # "completed"
    BY <1>1, BeginDoes DEF Moved, Over, Sent, Taken
  <2>3. shared \subseteq shared'
    BY <1>1 DEF Begin
  <2> QED
    BY <2>1, <2>2, <2>3, OwnOthers
<1>2. ASSUME NEW t \in Turn, Prepared(t) PROVE OwnCompletion'
  <2>1. Others(t) /\ UNCHANGED work
    BY <1>2, PreparedDoes
  <2>2. outcome'[t] = outcome[t] \/ outcome'[t] # "completed"
    BY <1>2, PreparedDoes DEF Moved, Over, Sent, Taken
  <2>3. shared \subseteq shared'
    BY <1>2, PreparedDoes
  <2> QED
    BY <2>1, <2>2, <2>3, OwnOthers
<1>3. ASSUME NEW t \in Turn, Lookup(t) PROVE OwnCompletion'
  <2>1. Others(t) /\ UNCHANGED work
    BY <1>3, LookupDoes
  <2>2. outcome'[t] = outcome[t] \/ outcome'[t] # "completed"
    BY <1>3, LookupDoes DEF Moved, Over, Sent, Taken
  <2>3. shared \subseteq shared'
    BY <1>3, LookupDoes
  <2> QED
    BY <2>1, <2>2, <2>3, OwnOthers
<1>4. ASSUME NEW t \in Turn, Remember(t) PROVE OwnCompletion'
  <2>1. Others(t) /\ UNCHANGED work
    BY <1>4, RememberDoes
  <2>2. outcome'[t] = outcome[t] \/ outcome'[t] # "completed"
    BY <1>4, RememberDoes DEF Moved, Over, Sent, Taken
  <2>3. shared \subseteq shared'
    BY <1>4, RememberDoes
  <2> QED
    BY <2>1, <2>2, <2>3, OwnOthers
<1>5. ASSUME NEW t \in Turn, GatewayItem(t) PROVE OwnCompletion'
  <2>1. Others(t) /\ UNCHANGED work
    BY <1>5, GatewayItemDoes
  <2>2. outcome'[t] = outcome[t] \/ outcome'[t] # "completed"
    BY <1>5, GatewayItemDoes DEF Moved, Over, Sent, Taken
  <2>3. shared \subseteq shared'
    BY <1>5, GatewayItemDoes
  <2> QED
    BY <2>1, <2>2, <2>3, OwnOthers
<1>6. ASSUME NEW t \in Turn, GatewayNone(t) PROVE OwnCompletion'
  <2>1. Others(t) /\ UNCHANGED work
    BY <1>6, GatewayNoneDoes
  <2>2. outcome'[t] = outcome[t] \/ outcome'[t] # "completed"
    BY <1>6, GatewayNoneDoes DEF Moved, Over, Sent, Taken
  <2>3. shared \subseteq shared'
    BY <1>6, GatewayNoneDoes
  <2> QED
    BY <2>1, <2>2, <2>3, OwnOthers
<1>7. ASSUME NEW t \in Turn, ReadItem(t) PROVE OwnCompletion'
  <2> DEFINE n == Head(items[t])
             mine == n.kind = "completed" /\ n.thread = opened[t]
  <2>1. /\ Others(t) /\ UNCHANGED <<work, shared>> /\ at[t] = "read" /\ items[t] # <<>>
        /\ \/ outcome'[t] = outcome[t]
           \/ mine /\ outcome'[t] = Conclusion(t, n.says)
    BY <1>7, ReadItemDoes DEF Taken, Over
  <2>2. CASE outcome'[t] = outcome[t]
    BY <2>1, <2>2, OwnOthers
  <2>3. CASE mine /\ outcome'[t] = Conclusion(t, n.says)
    <3>1. t \notin shared => work[t] = n.says
      BY <2>1, <2>3, ReadsItsEnd
    <3>2. outcome'[t] = "completed" => n.says = "completed"
      BY <2>3 DEF Conclusion
    <3>3. \A u \in Turn \ {t} : outcome'[u] = outcome[u]
      BY <2>1 DEF Others, Same
    <3> QED
      BY <2>1, <3>1, <3>2, <3>3 DEF OwnCompletion
  <2> QED
    BY <2>1, <2>2, <2>3
<1>8. ASSUME NEW t \in Turn, ReadNone(t) PROVE OwnCompletion'
  <2>1. Others(t) /\ UNCHANGED work
    BY <1>8, ReadNoneDoes
  <2>2. outcome'[t] = outcome[t] \/ outcome'[t] # "completed"
    BY <1>8, ReadNoneDoes DEF Moved, Over, Sent, Taken
  <2>3. shared \subseteq shared'
    BY <1>8, ReadNoneDoes
  <2> QED
    BY <2>1, <2>2, <2>3, OwnOthers
<1>9. ASSUME NEW t \in Turn, InterruptGrace(t) PROVE OwnCompletion'
  <2>1. Others(t) /\ UNCHANGED work
    BY <1>9, InterruptGraceDoes
  <2>2. outcome'[t] = outcome[t] \/ outcome'[t] # "completed"
    BY <1>9, InterruptGraceDoes DEF Moved, Over, Sent, Taken
  <2>3. shared \subseteq shared'
    BY <1>9, InterruptGraceDoes
  <2> QED
    BY <2>1, <2>2, <2>3, OwnOthers
<1>10. ASSUME NEW t \in Turn, Handle(t) PROVE OwnCompletion'
  <2>1. Others(t) /\ asked[t] = "sent" /\ Moved(t, at[t], "handled") /\ shared' = shared
    BY <1>10, HandleDoes
  <2>2. \A u \in Turn : outcome'[u] = outcome[u]
    BY <2>1 DEF Others, Same, Moved
  <2>3. \A u \in Turn : work[u] = "completed" => work'[u] = "completed"
    <3>1. CASE Unload(opened[t])
      BY <3>1, UnloadDoes
    <3>2. CASE UNCHANGED work
      BY <3>2
    <3>3. CASE at[t] = "turn" /\ work' = [work EXCEPT ![t] = "running"]
      <4>1. work[t] = "none"
        BY <2>1, <3>3 DEF PhaseInv, Phase, Handled
      <4> QED
        BY <3>3, <4>1 DEF DataTypes
    <3> QED
      BY <1>10, <3>1, <3>2, <3>3, HandleDoes
  <2> QED
    BY <2>1, <2>2, <2>3, OwnKept
<1>11. ASSUME NEW t \in Turn, Answer(t) PROVE OwnCompletion'
  <2>1. Others(t) /\ UNCHANGED work
    BY <1>11, AnswerDoes
  <2>2. outcome'[t] = outcome[t] \/ outcome'[t] # "completed"
    BY <1>11, AnswerDoes DEF Moved, Over, Sent, Taken
  <2>3. shared \subseteq shared'
    BY <1>11, AnswerDoes
  <2> QED
    BY <2>1, <2>2, <2>3, OwnOthers
<1>12. ASSUME NEW t \in Turn, Refuse(t) PROVE OwnCompletion'
  <2>1. Others(t) /\ UNCHANGED work
    BY <1>12, RefuseDoes
  <2>2. outcome'[t] = outcome[t] \/ outcome'[t] # "completed"
    BY <1>12, RefuseDoes DEF Moved, Over, Sent, Taken
  <2>3. shared \subseteq shared'
    BY <1>12, RefuseDoes
  <2> QED
    BY <2>1, <2>2, <2>3, OwnOthers
<1>13. ASSUME NEW t \in Turn, NEW why \in {"reader", "deadline"}, Stop(t, why)
      PROVE OwnCompletion'
  <2>1. UNCHANGED <<outcome, work>> /\ shared \subseteq shared'
    BY <1>13, StopDoes
  <2> QED
    BY <2>1, OwnKept
<1>14. ASSUME NEW t \in Turn, NEW v \in {"ready", "failed"}, Tell(t, v) PROVE OwnCompletion'
  <2>1. UNCHANGED <<outcome, work>> /\ shared \subseteq shared'
    BY <1>14, TellDoes
  <2> QED
    BY <2>1, OwnKept
<1>15. ASSUME NEW t \in Turn, NEW v \in {"completed", "interrupted"}, CodexEnds(t, v)
      PROVE OwnCompletion'
  <2>1. UNCHANGED <<outcome, shared>> /\ work[t] = "running" /\ work' = [work EXCEPT ![t] = v]
    BY <1>15, CodexEndsDoes
  <2>2. \A u \in Turn : work[u] = "completed" => work'[u] = "completed"
    BY <2>1 DEF DataTypes
  <2> QED
    BY <2>1, <2>2, OwnKept
<1>16. ASSUME NEW g \in Gen, HandshakeOk(g) PROVE OwnCompletion'
  <2>1. UNCHANGED <<work, shared>>
    BY <1>16, HandshakeOkDoes
  <2>2. \A u \in Turn : outcome'[u] = outcome[u] \/ outcome'[u] # "completed"
    BY <1>16, HandshakeOkDoes DEF Same, Moved, Over
  <2> QED
    BY <2>1, <2>2, OwnKept
<1>17. ASSUME NEW g \in Gen, HandshakeFails(g) PROVE OwnCompletion'
  <2>1. UNCHANGED <<work, shared>>
    BY <1>17, HandshakeFailsDoes
  <2>2. \A u \in Turn : outcome'[u] = outcome[u] \/ outcome'[u] # "completed"
    BY <1>17, HandshakeFailsDoes DEF Same, Moved, Over
  <2> QED
    BY <2>1, <2>2, OwnKept
<1>18. ASSUME NEW g \in Gen, Exit(g) PROVE OwnCompletion'
  <2>1. Closed(g)
    BY <1>18 DEF Exit
  <2>2. shared' = shared
    BY <2>1, ClosedDoes
  <2>3. \A u \in Turn : outcome'[u] = outcome[u] \/ outcome'[u] # "completed"
    BY <2>1, ClosedDoes DEF Same, Over
  <2>4. \A u \in Turn : work[u] = "completed" => work'[u] = "completed"
    BY <2>1, ClosedDoes
  <2> QED
    BY <2>2, <2>3, <2>4, OwnKept
<1>19. ASSUME NEW g \in Gen, SpawnFails(g) PROVE OwnCompletion'
  <2>1. Closed(g)
    BY <1>19 DEF SpawnFails
  <2>2. shared' = shared
    BY <2>1, ClosedDoes
  <2>3. \A u \in Turn : outcome'[u] = outcome[u] \/ outcome'[u] # "completed"
    BY <2>1, ClosedDoes DEF Same, Over
  <2>4. \A u \in Turn : work[u] = "completed" => work'[u] = "completed"
    BY <2>1, ClosedDoes
  <2> QED
    BY <2>2, <2>3, <2>4, OwnKept
<1>20. ASSUME UNCHANGED agentVars PROVE OwnCompletion'
  <2>1. UNCHANGED <<outcome, work>> /\ shared \subseteq shared'
    BY <1>20 DEF agentVars
  <2> QED
    BY <2>1, OwnKept
<1>21. ASSUME NEW t \in Turn, DatabaseFails(t) PROVE OwnCompletion'
  <2>1. Others(t) /\ UNCHANGED work
    BY <1>21, DatabaseDoes
  <2>2. outcome'[t] = outcome[t] \/ outcome'[t] # "completed"
    BY <1>21, DatabaseDoes DEF Moved, Over, Sent, Taken
  <2>3. shared \subseteq shared'
    BY <1>21, DatabaseDoes
  <2> QED
    BY <2>1, <2>2, <2>3, OwnOthers
<1> QED
  BY <1>1, <1>2, <1>3, <1>4, <1>5, <1>6, <1>7, <1>8, <1>9, <1>10, <1>11, <1>12, <1>13, <1>14,
     <1>15, <1>16, <1>17, <1>18, <1>19, <1>20, <1>21
     DEF AgentNext, TurnStep, CodexAnswers, Handshake, AllDone

(* The inductive invariant. *)
AgentInv ==
  /\ ControlTypes /\ DataTypes /\ PhaseInv /\ ThreadInv /\ SoleInv /\ QuietInv /\ QueueInv
  /\ DueInv /\ OwnCompletion

(* It holds at first, *)
LEMMA AgentInvInit ==
  ASSUME AgentWellFormed, AgentInit
  PROVE  AgentInv
<1>1. \A t \in Turn : /\ at[t] = "new" /\ asked[t] = "none" /\ items[t] = <<>> /\ outcome[t] = "none"
                      /\ opened[t] = NoThread /\ load[t] = "none" /\ work[t] = "none"
  BY DEF AgentInit
<1>2. open = {} /\ shared = {} /\ due = {} /\ \A s \in Conversation : thread[s] = NoThread
  BY DEF AgentInit
<1>3. ControlTypes
  BY DEF AgentInit, ControlTypes, PC, Outcome
<1>4. DataTypes
  BY DEF AgentInit, DataTypes
<1>5. PhaseInv
  BY <1>1, <1>2 DEF PhaseInv, Phase, Loaded, Handled, AgentWellFormed
<1>6. ThreadInv
  BY <1>1, <1>2 DEF ThreadInv, AgentWellFormed
<1>7. SoleInv
  BY <1>1 DEF SoleInv, Active
<1>8. QuietInv
  BY <1>1 DEF QuietInv
<1>9. \A t \in Turn : 1 .. Len(items[t]) = {}
  BY <1>1
<1>10. QueueInv
  BY <1>9 DEF QueueInv, Queue, OwnNotes, OwnLoad, InOrder, ReadsOwn
<1>11. DueInv /\ OwnCompletion
  BY <1>1, <1>2 DEF DueInv, OwnCompletion
<1> QED
  BY <1>3, <1>4, <1>5, <1>6, <1>7, <1>8, <1>10, <1>11 DEF AgentInv

(* and every step keeps it. *)
LEMMA AgentInvStep ==
  ASSUME AgentWellFormed, AgentInv, [AgentNext]_agentVars
  PROVE  AgentInv'
BY ControlStep, DataStep, PhaseStep, ThreadStep, SoleStep, QuietStep, QueueStep, DueStep, OwnStep
   DEF AgentInv

(* In every state that turns reach, each notification a queue keeps is      *)
(* accounted for.                                                           *)
THEOREM AgentInvAlways == AgentSpec => []AgentInv
<1>1. AgentInit => AgentInv
  BY AgentInvInit, TurnAssumption
<1>2. AgentInv /\ [AgentNext]_agentVars => AgentInv'
  BY AgentInvStep, TurnAssumption
<1> QED
  BY <1>1, <1>2, PTL DEF AgentSpec

(* A turn reports completed only when codex completed that very turn, never *)
(* on the late end of an earlier turn of its thread.                        *)
THEOREM OwnCompletionAlways == AgentSpec => []OwnCompletion
<1>1. AgentInv => OwnCompletion
  BY DEF AgentInv
<1> QED
  BY <1>1, AgentInvAlways, PTL

(* A completion that reached the turn's queue decides its outcome, though a *)
(* stop or the loss of the connection followed it before it was read.       *)
THEOREM CompletionKeptAlways == AgentSpec => []CompletionKept
<1>1. ASSUME AgentInv PROVE CompletionKept
  <2> SUFFICES ASSUME NEW t \in due \ shared
               PROVE  at[t] # "interrupt" /\ outcome[t] \in {"none", "completed", "error"}
    BY DEF CompletionKept
  <2>1. t \in Turn /\ Due(t) /\ Phase(t)
    BY <1>1 DEF AgentInv, DueInv, DataTypes, PhaseInv
  <2> QED
    BY <2>1 DEF Due, Phase
<1> QED
  BY <1>1, AgentInvAlways, PTL
=============================================================================
