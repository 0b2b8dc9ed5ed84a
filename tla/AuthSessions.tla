---------------------------- MODULE AuthSessions ----------------------------
(***************************************************************************)
(* One signed-in browser and the session it holds: the tabs that rotate    *)
(* the session's cookies (web auth-refresh.ts and http.ts), the cookie jar *)
(* they share, and the api that rotates refresh tokens                     *)
(* (auth-session.repository.ts, auth-session.service.ts,                   *)
(* auth.controller.ts).                                                    *)
(*                                                                         *)
(* A call is one use of request, authFetch or recoverSession.  A flight is *)
(* named by the call that started it, and so is its refresh request.  A    *)
(* refresh token is named by its generation.  rotateRefreshToken runs at   *)
(* READ COMMITTED: the loser of updateMany waits for the winner's commit,  *)
(* so the winner's update, create and commit are one step.                 *)
(*                                                                         *)
(* Time: the reuse grace of a token, the lifetime of an access token and   *)
(* every timeout pass at any moment, with two exceptions the constants of  *)
(* the code give: a fetch is over within ten seconds, as long as the grace *)
(* its own rotation started; and a call is over within the fifteen minutes *)
(* of an access token.  Signing in again makes another session, which is   *)
(* not followed.                                                           *)
(***************************************************************************)
EXTENDS Integers, FiniteSets

CONSTANTS Tab, Call, TabOf, Probes, NoCall   \* Probes: the calls of recoverSession

AuthWellFormed == TabOf \in [Call -> Tab] /\ Probes \subseteq Call /\ NoCall \notin Call

ASSUME CallAssumption == AuthWellFormed

VARIABLES
  locks,      \* navigator.locks is there
  cookie,     \* the generation in the jar, None when cleared
  access,     \* the jar's access token has not lapsed
  young,      \* calls that were under way when it was issued
  pc,         \* of a call: new, wait, sent, flight, again, done
  since,      \* the epoch a call was sent in
  carried,    \* the access token a call was sent with has not lapsed
  status,     \* what the api answered it
  refused,    \* calls that returned a 401
  flight,     \* of a tab: inFlight
  epoch, exhausted,
  lock,       \* the flight that holds the lock
  stage,      \* of a flight: none, lock, fetch
  skip,       \* flights that asked for the lock before the last rotation
  presented,  \* the token a refresh request carries
  srv,        \* of a refresh request: none, sent, found, revoking, or its outcome
  late,       \* requests whose token had been consumed longer than the grace
  consumed,   \* generations consumed
  graceOver,  \* those whose grace is over
  top,        \* the last generation
  session,    \* live, revoked or expired
  logout,     \* no, sent, served, landed
  lost,       \* history: some flight got no answer
  refusals,   \* history: the errors flights were answered with, 401 apart
  overtaken   \* history: a token's grace ended, or its successor was spent,
              \* before the api had settled a request that presented it

jarVars == <<cookie, access, young>>
callVars == <<pc, since, carried, status, refused>>
tabVars == <<flight, epoch, exhausted, lock, stage, skip, presented>>
dbVars == <<consumed, top, session>>
timeVars == <<graceOver, logout, overtaken>>
flightHistory == <<lost, refusals>>
authVars ==
  <<locks, jarVars, callVars, tabVars, srv, late, dbVars, timeVars, flightHistory>>

None == -1
Generation == 0 .. Cardinality(Call)
Broken == {"broken", "unsaid"}   \* 500, without or after the rotation's commit
Refusal == {"limited", "forbidden"} \cup Broken   \* 429, 403
RefreshOutcome == {"rotated", "superseded", "replayed", "invalid"} \cup Refusal

AuthInit ==
  /\ locks \in BOOLEAN
  /\ cookie = 0 /\ access = TRUE /\ young = {}
  /\ pc = [c \in Call |-> "new"] /\ since = [c \in Call |-> 0]
  /\ carried = {} /\ status = [c \in Call |-> "none"] /\ refused = {}
  /\ flight = [t \in Tab |-> NoCall] /\ epoch = [t \in Tab |-> 0] /\ exhausted = {}
  /\ lock = NoCall /\ stage = [c \in Call |-> "none"] /\ skip = {}
  /\ presented = [c \in Call |-> None]
  /\ srv = [c \in Call |-> "none"] /\ late = {}
  /\ consumed = {} /\ graceOver = {} /\ top = 0 /\ session = "live"
  /\ logout = "no" /\ lost = FALSE /\ refusals = {} /\ overtaken = FALSE

-----------------------------------------------------------------------------
ActiveCalls == {c \in Call : pc[c] \notin {"new", "done"}}
Gone == session # "live"
Of(t, p) == {c \in Call : TabOf[c] = t /\ pc[c] = p}

(* dispatch: the calls of C are sent with the access cookie of the jar.     *)
Dispatched(C, acc) ==
  /\ carried' = IF acc THEN carried \cup C ELSE carried \ C
  /\ status' = [c \in Call |-> IF c \in C THEN "none" ELSE status[c]]

(* attempt: the refresh request of flight c. *)
Fetch(c) ==
  /\ stage' = [stage EXCEPT ![c] = "fetch"]
  /\ presented' = [presented EXCEPT ![c] = cookie]
  /\ srv' = [srv EXCEPT ![c] = "sent"]

(* flight and acrossTabs: a flight under way is joined. *)
JoinFlight(c) ==
  /\ pc' = [pc EXCEPT ![c] = "flight"]
  /\ \/ flight[TabOf[c]] # NoCall /\ UNCHANGED <<flight, stage, presented, srv>>
     \/ /\ flight[TabOf[c]] = NoCall
        /\ flight' = [flight EXCEPT ![TabOf[c]] = c]
        /\ \/ locks /\ stage' = [stage EXCEPT ![c] = "lock"] /\ UNCHANGED <<presented, srv>>
           \/ ~locks /\ Fetch(c)

-----------------------------------------------------------------------------
(* Calls. *)

(* sessionEpoch, and the first dispatch. *)
BeginCall(c) ==
  LET t == TabOf[c] IN
  /\ pc[c] = "new" /\ c \notin Probes
  /\ \/ /\ flight[t] # NoCall /\ pc' = [pc EXCEPT ![c] = "wait"]
        /\ UNCHANGED <<since, carried, status>>
     \/ /\ flight[t] = NoCall /\ pc' = [pc EXCEPT ![c] = "sent"]
        /\ since' = [since EXCEPT ![c] = epoch[t]] /\ Dispatched({c}, access)
  /\ UNCHANGED <<locks, jarVars, refused, tabVars, srv, late, dbVars, timeVars, flightHistory>>

(* recoverSession *)
Probe(c) ==
  /\ pc[c] = "new" /\ c \in Probes
  /\ JoinFlight(c)
  /\ UNCHANGED <<locks, jarVars, since, carried, status, refused, epoch, exhausted, lock, skip,
                 late, dbVars, timeVars, flightHistory>>

(* authenticate *)
Serve(c) ==
  /\ pc[c] \in {"sent", "again"} /\ status[c] = "none"
  /\ status' = [status EXCEPT ![c] = IF c \in carried /\ ~Gone THEN "ok" ELSE "401"]
  /\ UNCHANGED <<locks, jarVars, pc, since, carried, refused, tabVars, srv, late, dbVars,
                 timeVars, flightHistory>>

Return(c, r) ==
  /\ pc' = [pc EXCEPT ![c] = "done"]
  /\ refused' = IF r = "401" THEN refused \cup {c} ELSE refused
  /\ since' = [since EXCEPT ![c] = 0] /\ carried' = carried \ {c}
  /\ status' = [status EXCEPT ![c] = "none"]

(* Mutant: a 401 of this epoch is the one that proves nothing. *)
OutdatedSwapped(c) == since[c] = epoch[TabOf[c]]

(* refreshSession: the tab rotated since the call was sent. *)
Outdated(c) == since[c] # epoch[TabOf[c]]

(* The answer lands.  refreshSession: a 401 of an earlier epoch is retried  *)
(* at once, one of this epoch waits for a flight.                           *)
Arrive(c) ==
  LET t == TabOf[c] IN
  /\ pc[c] \in {"sent", "again"} /\ status[c] # "none"
  /\ \/ /\ \/ status[c] = "ok" \/ pc[c] = "again" \/ t \in exhausted
        /\ Return(c, status[c])
        /\ UNCHANGED <<flight, stage, presented, srv>>
     \/ /\ status[c] = "401" /\ pc[c] = "sent" /\ t \notin exhausted
        /\ \/ /\ Outdated(c) /\ pc' = [pc EXCEPT ![c] = "again"]
              /\ Dispatched({c}, access)
              /\ UNCHANGED <<flight, stage, presented, srv>>
           \/ ~Outdated(c) /\ JoinFlight(c) /\ UNCHANGED <<carried, status>>
        /\ UNCHANGED <<since, refused>>
  /\ UNCHANGED <<locks, jarVars, epoch, exhausted, lock, skip, late, dbVars,
                 timeVars, flightHistory>>

(* The call times out, the network fails it, or the api answers it with an  *)
(* error that is not a 401.                                                 *)
CallFails(c) ==
  /\ pc[c] \in {"sent", "again"}
  /\ Return(c, "error")
  /\ UNCHANGED <<locks, jarVars, tabVars, srv, late, dbVars, timeVars, flightHistory>>

-----------------------------------------------------------------------------
(* Flights. *)

(* attempt: 409 is success for the caller. *)
Accepted(o) == o \in {"rotated", "superseded"}

(* What follows the outcome of the flight of tab t: the calls that joined   *)
(* it retry, or return the 401 they had and end the session for the tab     *)
(* when the status says so; the calls that waited are sent.                 *)
Concludes(t, ok, terminal, acc) ==
  LET joined == Of(t, "flight")
      asked == joined \ Probes
      waited == Of(t, "wait")
      over == IF ok THEN joined \cap Probes ELSE joined IN
  /\ flight' = [flight EXCEPT ![t] = NoCall]
  /\ stage' = [stage EXCEPT ![flight[t]] = "none"]
  /\ epoch' = [epoch EXCEPT ![t] = IF ok THEN @ + 1 ELSE @]
  /\ since' = [c \in Call |-> IF c \in waited THEN epoch'[t]
                              ELSE IF c \in over THEN 0 ELSE since[c]]
  /\ exhausted' = IF terminal /\ asked # {} THEN exhausted \cup {t} ELSE exhausted
  /\ pc' = [c \in Call |-> IF c \in over THEN "done"
                           ELSE IF c \in joined THEN "again"
                           ELSE IF c \in waited THEN "sent" ELSE pc[c]]
  /\ refused' = IF ok THEN refused ELSE refused \cup joined
  /\ Dispatched((joined \ over) \cup waited, acc)

(* navigator.locks.request: a flight that finds another tab rotated since   *)
(* it asked does not rotate.                                                *)
LockGranted(c) ==
  /\ stage[c] = "lock" /\ lock = NoCall
  /\ \/ /\ c \notin skip /\ lock' = c /\ Fetch(c)
        /\ UNCHANGED <<callVars, flight, epoch, exhausted, skip>>
     \/ /\ c \in skip /\ Concludes(TabOf[c], TRUE, FALSE, access)
        /\ skip' = skip \ {c} /\ UNCHANGED <<lock, presented, srv>>
  /\ UNCHANGED <<locks, jarVars, late, dbVars, timeVars, flightHistory>>

LockTimeout(c) ==
  /\ stage[c] = "lock"
  /\ Concludes(TabOf[c], FALSE, FALSE, access)
  /\ lost' = TRUE /\ skip' = skip \ {c}
  /\ UNCHANGED <<locks, jarVars, lock, presented, srv, late, dbVars, timeVars, refusals>>

Unlocked(c) == IF lock = c THEN NoCall ELSE lock

(* TERMINAL_STATUSES: a 401 or 403 ends the session for the tab. *)
Terminal(o) == o \in {"replayed", "invalid", "forbidden"}

(* Mutant: refresh_superseded clears the cookies the twin was issued. *)
ClearedForTwin(o) == o \in {"replayed", "invalid", "superseded"} \cup Broken

(* What the answer does to the jar: AuthController.refresh issues the       *)
(* cookies, or clears them on every error but refresh_superseded; the       *)
(* guards before it leave them alone.                                       *)
Issued(o) == o = "rotated"
Cleared(o) == o \in {"replayed", "invalid"} \cup Broken

(* The refresh answer lands.  markRotated is seen by the flights that asked *)
(* in an earlier millisecond.                                               *)
Land(c) ==
  LET o == srv[c]  ok == Accepted(o)  acc == Issued(o) \/ (~Cleared(o) /\ access) IN
  /\ stage[c] = "fetch" /\ o \in RefreshOutcome
  /\ cookie' = IF Issued(o) THEN presented[c] + 1 ELSE IF Cleared(o) THEN None ELSE cookie
  /\ access' = acc
  /\ young' = IF Issued(o) THEN ActiveCalls ELSE young
  /\ Concludes(TabOf[c], ok, Terminal(o), acc)
  /\ lock' = Unlocked(c)
  /\ \/ ok /\ \E D \in SUBSET {d \in Call : stage[d] = "lock"} : skip' = skip \cup D
     \/ ~ok /\ UNCHANGED skip
  /\ srv' = [srv EXCEPT ![c] = "none"] /\ presented' = [presented EXCEPT ![c] = None]
  /\ refusals' = refusals \cup ({o} \cap Refusal)
  /\ UNCHANGED <<locks, late, dbVars, timeVars, lost>>

(* The fetch times out or the connection drops; the api may still read it.  *)
FetchFails(c) ==
  /\ stage[c] = "fetch"
  /\ Concludes(TabOf[c], FALSE, FALSE, access)
  /\ lock' = Unlocked(c) /\ lost' = TRUE
  /\ srv' = IF srv[c] \in RefreshOutcome THEN [srv EXCEPT ![c] = "none"] ELSE srv
  /\ UNCHANGED <<locks, jarVars, skip, presented, late, dbVars, timeVars, refusals>>

(* The page is loaded anew: its module state and what it awaited are gone.  *)
Reload(t) ==
  LET gone == {c \in ActiveCalls : TabOf[c] = t}  f == flight[t] IN
  /\ gone # {}
  /\ pc' = [c \in Call |-> IF c \in gone THEN "done" ELSE pc[c]]
  /\ since' = [c \in Call |-> IF c \in gone THEN 0 ELSE since[c]]
  /\ Dispatched(gone, FALSE)
  /\ flight' = [flight EXCEPT ![t] = NoCall]
  /\ epoch' = [epoch EXCEPT ![t] = 0] /\ exhausted' = exhausted \ {t}
  /\ lock' = Unlocked(f) /\ skip' = skip \ {f}
  /\ stage' = [c \in Call |-> IF c = f THEN "none" ELSE stage[c]]
  /\ lost' = (lost \/ f # NoCall)
  /\ srv' = [c \in Call |-> IF c = f /\ srv[c] \in RefreshOutcome THEN "none" ELSE srv[c]]
  /\ UNCHANGED <<locks, jarVars, refused, presented, late, dbVars, timeVars, refusals>>

-----------------------------------------------------------------------------
(* The api. *)

(* The outcome goes to the fetch, if it still waits. *)
Answers(c, o) == srv' = [srv EXCEPT ![c] = IF stage[c] = "fetch" THEN o ELSE "none"]

(* ThrottlerGuard or AuthOriginGuard refuses the request. *)
GuardRefuses(c) ==
  /\ srv[c] = "sent"
  /\ Answers(c, "limited") \/ Answers(c, "forbidden")
  /\ UNCHANGED <<locks, jarVars, callVars, tabVars, late, dbVars, timeVars, flightHistory>>

(* A statement fails, and the transaction is rolled back. *)
StatementFails(c) ==
  /\ srv[c] \in {"sent", "found", "revoking"} /\ presented[c] # None
  /\ Answers(c, "broken") /\ late' = late \ {c}
  /\ UNCHANGED <<locks, jarVars, callVars, tabVars, dbVars, timeVars, flightHistory>>

(* rotateRefreshToken: the token and its session are read, at now. *)
Find(c) ==
  /\ srv[c] = "sent"
  /\ \/ /\ presented[c] = None \/ Gone
        /\ Answers(c, "invalid") /\ UNCHANGED late
     \/ /\ presented[c] # None /\ ~Gone
        /\ srv' = [srv EXCEPT ![c] = "found"]
        /\ late' = IF presented[c] \in graceOver THEN late \cup {c} ELSE late
  /\ UNCHANGED <<locks, jarVars, callVars, tabVars, dbVars, timeVars, flightHistory>>

(* Mutant: a consumed token is never a twin's. *)
NeverConcurrent(c) == FALSE

(* isConcurrentRotation *)
IsConcurrentRotation(c) == c \notin late /\ presented[c] + 1 \notin consumed

Unsettled(g) == \E c \in Call : srv[c] \in {"sent", "found"} /\ presented[c] = g

(* updateMany, and what its count decides.  Once it is committed the answer *)
(* may still be a 500: the commit's answer is lost, or the access token is  *)
(* not signed.                                                              *)
Settle(c) ==
  LET g == presented[c] IN
  /\ srv[c] = "found"
  /\ \/ /\ g \notin consumed
        /\ consumed' = consumed \cup {g} /\ top' = g + 1
        /\ Answers(c, "rotated") \/ Answers(c, "unsaid")
        /\ overtaken' = (overtaken \/ Unsettled(g - 1))
     \/ /\ g \in consumed /\ UNCHANGED <<consumed, top, overtaken>>
        /\ \/ IsConcurrentRotation(c) /\ Answers(c, "superseded")
           \/ ~IsConcurrentRotation(c) /\ srv' = [srv EXCEPT ![c] = "revoking"]
  /\ late' = late \ {c}
  /\ UNCHANGED <<locks, jarVars, callVars, tabVars, session, graceOver, logout, flightHistory>>

Revoke(c) ==
  /\ srv[c] = "revoking"
  /\ Answers(c, "replayed") \/ Answers(c, "broken")
  /\ session' = "revoked"
  /\ UNCHANGED <<locks, jarVars, callVars, tabVars, late, consumed, top, timeVars,
                 flightHistory>>

(* logoutCurrent: the session of the access token, or of the refresh token. *)
Logout ==
  /\ logout = "no"
  /\ logout' = "served"
  /\ session' = IF access \/ cookie # None THEN "revoked" ELSE session
  /\ UNCHANGED <<locks, jarVars, callVars, tabVars, srv, late, consumed, top, graceOver, overtaken,
                 flightHistory>>

LogoutLands ==
  /\ logout = "served"
  /\ logout' = "landed" /\ cookie' = None /\ access' = FALSE
  /\ UNCHANGED <<locks, young, callVars, tabVars, srv, late, dbVars, graceOver, overtaken,
                 flightHistory>>

-----------------------------------------------------------------------------
(* Time. *)

(* Fifteen minutes: every call of the time it was issued is over. *)
AccessLapses ==
  /\ access /\ young \cap ActiveCalls = {}
  /\ access' = FALSE /\ carried' = {}
  /\ UNCHANGED <<locks, cookie, young, pc, since, status, refused, tabVars, srv, late,
                 dbVars, timeVars, flightHistory>>

(* Ten seconds after the consumption: the fetch that caused it is over. *)
GraceEnds(g) ==
  /\ g \in consumed \ graceOver
  /\ \A c \in Call : presented[c] = g /\ srv[c] \in {"rotated", "unsaid"} => stage[c] # "fetch"
  /\ graceOver' = graceOver \cup {g}
  /\ overtaken' = (overtaken \/ Unsettled(g))
  /\ UNCHANGED <<locks, jarVars, callVars, tabVars, srv, late, dbVars, logout, flightHistory>>

(* The session's thirty days are over, or its user is disabled. *)
Expire ==
  /\ ~Gone
  /\ session' = "expired"
  /\ UNCHANGED <<locks, jarVars, callVars, tabVars, srv, late, consumed, top, timeVars,
                 flightHistory>>

-----------------------------------------------------------------------------
CallStep(c) ==
  \/ Serve(c) \/ Arrive(c) \/ CallFails(c)
  \/ LockGranted(c) \/ LockTimeout(c) \/ Land(c) \/ FetchFails(c)
ServerStep(c) ==
  \/ GuardRefuses(c) \/ StatementFails(c) \/ Find(c) \/ Settle(c) \/ Revoke(c)

AuthNext ==
  \/ \E c \in Call : BeginCall(c) \/ Probe(c) \/ CallStep(c) \/ ServerStep(c)
  \/ \E t \in Tab : Reload(t)
  \/ Logout \/ LogoutLands \/ AccessLapses \/ Expire
  \/ \E g \in Generation : GraceEnds(g)

AuthSpec == AuthInit /\ [][AuthNext]_authVars

-----------------------------------------------------------------------------
(* Every variable keeps its type, and each rotation made one generation:    *)
(* all but the last are consumed, so two racing requests never both get a   *)
(* successor.                                                               *)
AuthTypeOK ==
  /\ cookie \in Generation \cup {None} /\ access \in BOOLEAN /\ young \subseteq Call
  /\ pc \in [Call -> {"new", "wait", "sent", "flight", "again", "done"}]
  /\ since \in [Call -> Nat] /\ carried \subseteq Call
  /\ status \in [Call -> {"none", "ok", "401"}]
  /\ flight \in [Tab -> Call \cup {NoCall}] /\ epoch \in [Tab -> Nat]
  /\ exhausted \subseteq Tab /\ lock \in Call \cup {NoCall}
  /\ stage \in [Call -> {"none", "lock", "fetch"}] /\ skip \subseteq Call
  /\ presented \in [Call -> Generation \cup {None}]
  /\ srv \in [Call -> RefreshOutcome \cup {"none", "sent", "found", "revoking"}]
  /\ late \cup refused \subseteq Call
  /\ top \in Generation /\ consumed = 0 .. top - 1 /\ graceOver \subseteq consumed
  /\ {locks, overtaken, lost} \subseteq BOOLEAN /\ refusals \subseteq Refusal
  /\ session \in {"live", "revoked", "expired"}
  /\ logout \in {"no", "served", "landed"}

(* The browser never gets its own session revoked, however its tabs race:   *)
(* only signing out does, a rotation whose answer was lost and that is      *)
(* tried again, or, where the tabs share no lock, a request that the api    *)
(* settles after the grace of its twin, or after the twin's successor was   *)
(* spent as well.                                                           *)
HealthyKept ==
  session = "revoked" => logout # "no" \/ lost \/ (~locks /\ overtaken)

(* A tab gives the session up only when it is over for good, or when the    *)
(* api took it from the browser: by a 500, which clears the cookies, so     *)
(* that the next flight has no token to present, or by the guard's 403.     *)
(* A lost answer, a 429 or a twin's rotation never signs anybody out.       *)
LatchTruthful ==
  exhausted # {} => Gone \/ refusals \ {"limited"} # {}

(* Where the tabs share a lock, no answer is lost and no flight is answered *)
(* with another error than 401, a reader whose session is alive never meets *)
(* a 401: the retry always carries the new access token, whichever tab's    *)
(* rotation brought it.                                                     *)
RetrySucceeds ==
  locks /\ ~lost /\ refusals = {} /\ ~Gone /\ logout = "no" => refused = {}
=============================================================================
