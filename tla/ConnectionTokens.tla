-------------------------- MODULE ConnectionTokens --------------------------
(***************************************************************************)
(* The OAuth connection of one user to one integration: the row of the     *)
(* connection table (connection.repository.ts), the calls that renew its   *)
(* token under a refresh lease (connection-token.service.ts), the callback *)
(* that stores a new grant (connection-authorization.service.ts) and the   *)
(* disconnect that withdraws it (connection-revocation.service.ts).        *)
(*                                                                         *)
(* The API runs in several processes over one Postgres, so a step is one   *)
(* database statement or one answer of the provider.  Tokens are pairs     *)
(* <<grant, generation>>; the cipher opens what it sealed.  The provider   *)
(* rotates refresh tokens or not, and may refuse any of them.              *)
(***************************************************************************)
EXTENDS Integers, FiniteSets

CONSTANTS
  Caller,       \* calls of accessTokenFor
  Connect,      \* OAuth callbacks; a callback names the grant it is given
  Disconnect,   \* calls of disconnect
  Attempt,      \* authorization attempts sent to the provider
  AttemptOf,    \* the attempt whose state a callback carries
  FirstGrant,   \* the grant the row holds at the start
  NoToken,
  MaxRotations, \* bound on the rotations of one grant
  MaxPolls      \* LEASE_ATTEMPTS

ASSUME PollAssumption == MaxPolls \in Nat \ {0} /\ MaxRotations \in Nat
ASSUME AttemptAssumption == AttemptOf \in [Connect -> Attempt]

Grant == Connect \cup {FirstGrant}
Token == Grant \X (0..MaxRotations)
OptToken == Token \cup {NoToken}
Proc == Caller \cup Connect \cup Disconnect

(* A process is one call; the callbacks' grants are new. *)
ASSUME ProcAssumption ==
  /\ Caller \cap Connect = {} /\ Caller \cap Disconnect = {} /\ Connect \cap Disconnect = {}
  /\ FirstGrant \notin Connect /\ NoToken \notin Token

VARIABLES
  row,       \* the connection row
  attempts,  \* the connection_attempt rows
  phase,     \* where each process stands
  held,      \* the refresh token a process read and will present
  reply,     \* the token the provider returned to a caller; held again if it did not rotate
  polls,     \* how often a caller has polled for the holder
  answer,    \* what each process returned
  cur,       \* provider: the generation it accepts for a grant, -1 before it exists
  dead,      \* provider: the grants it was told to revoke
  lost,      \* history: tokens spent at the provider whose successor was not stored
  refused,   \* history: tokens that some answer of the provider gave up
  overtaken  \* history: callers that refreshed while their lease ended or a callback
             \* filled their row anew

providerVars == <<cur, dead>>
historyVars == <<lost, refused, overtaken>>
vars == <<row, attempts, phase, held, reply, polls, answer, providerVars, historyVars>>

Row == [status : {"absent", "active", "reauth", "revoked"},
        access : OptToken, refresh : OptToken,
        spent : BOOLEAN, lease : {"none", "live", "expired"}]

(* A caller between takeRefreshLease and the statement that gives it back. *)
HoldPhase == {"reload", "prepare", "spend", "apply", "mark", "release", "giveup"}
Holding == {c \in Caller : phase[c] \in HoldPhase}

(* A caller that found no token to spend gives its lease back first and     *)
(* marks the row after it.                                                  *)
RefreshPhase == HoldPhase \cup {"retire"}
Refreshing == {c \in Caller : phase[c] \in RefreshPhase}

(* Every variable keeps its type; no caller polls for the holder more often *)
(* than LEASE_ATTEMPTS.                                                     *)
TypeOK ==
  /\ row \in Row
  /\ attempts \in [Attempt -> {"none", "open", "expired", "used"}]
  /\ phase \in [Proc -> {"new", "claim", "await", "exchange", "begin", "complete", "remote",
                         "done", "crashed"} \cup RefreshPhase]
  /\ held \in [Caller \cup Disconnect -> OptToken]
  /\ reply \in [Caller -> OptToken]
  /\ polls \in [Caller -> 0..MaxPolls]
  /\ answer \in [Proc -> {"none", "ok", "not_connected", "reauth_required",
                          "provider_unavailable", "error", "connected", "refused",
                          "disconnected"}]
  /\ cur \in [Grant -> -1..MaxRotations]
  /\ dead \in [Grant -> BOOLEAN]
  /\ lost \subseteq Token /\ refused \subseteq Token /\ overtaken \subseteq Caller

Init ==
  /\ row \in {[status |-> "active", access |-> <<FirstGrant, 0>>, refresh |-> <<FirstGrant, 0>>,
               spent |-> FALSE, lease |-> "none"],
              [status |-> "absent", access |-> NoToken, refresh |-> NoToken,
               spent |-> FALSE, lease |-> "none"]}
  /\ attempts = [a \in Attempt |-> "none"]
  /\ phase = [p \in Proc |-> "new"]
  /\ held = [p \in Caller \cup Disconnect |-> NoToken]
  /\ reply = [c \in Caller |-> NoToken]
  /\ polls = [c \in Caller |-> 0]
  /\ answer = [p \in Proc |-> "none"]
  /\ cur = [g \in Grant |-> IF g = FirstGrant THEN 0 ELSE -1]
  /\ dead = [g \in Grant |-> FALSE]
  /\ lost = {} /\ refused = {} /\ overtaken = {}

Goto(p, ph) == phase' = [phase EXCEPT ![p] = ph] /\ UNCHANGED answer
Return(p, a) == phase' = [phase EXCEPT ![p] = "done"] /\ answer' = [answer EXCEPT ![p] = a]
(* Give the lease back, then return a. *)
ReleaseThen(c, a) == phase' = [phase EXCEPT ![c] = "release"]
                     /\ answer' = [answer EXCEPT ![c] = a]

-----------------------------------------------------------------------------
(* accessTokenFor *)

Load(c) ==
  /\ phase[c] = "new"
  /\ CASE row.status = "absent" -> Return(c, "not_connected")
       [] row.status \in {"reauth", "revoked"} -> Return(c, "reauth_required")
       [] row.status = "active" /\ row.access = NoToken -> Return(c, "reauth_required")
       [] row.status = "active" /\ row.access # NoToken /\ ~row.spent -> Return(c, "ok")
       [] OTHER -> Goto(c, "claim")
  /\ UNCHANGED <<row, attempts, held, reply, polls, providerVars, historyVars>>

(* Mutant: the claim is not conditional on the lease. *)
TakeRefreshLeaseAlways(c) ==
  /\ phase[c] = "claim"
  /\ IF row.status = "active"
       THEN row' = [row EXCEPT !.lease = "live"] /\ Goto(c, "reload")
       ELSE Goto(c, "await") /\ UNCHANGED row
  /\ UNCHANGED <<attempts, held, reply, polls, providerVars, historyVars>>

TakeRefreshLease(c) ==
  /\ phase[c] = "claim"
  /\ IF row.status = "active" /\ row.lease # "live"
       THEN row' = [row EXCEPT !.lease = "live"] /\ Goto(c, "reload")
       ELSE Goto(c, "await") /\ UNCHANGED row
  /\ UNCHANGED <<attempts, held, reply, polls, providerVars, historyVars>>

(* Mutant: awaitHolder polls without counting its attempts. *)
AwaitHolderForever(c) ==
  /\ phase[c] = "await"
  /\ IF row.status # "active" \/ row.access = NoToken
       THEN Return(c, "reauth_required")
       ELSE IF ~row.spent THEN Return(c, "ok") ELSE UNCHANGED <<phase, answer>>
  /\ UNCHANGED <<row, attempts, held, reply, polls, providerVars, historyVars>>

AwaitHolder(c) ==
  /\ phase[c] = "await"
  /\ polls' = [polls EXCEPT ![c] = @ + 1]
  /\ IF row.status # "active" \/ row.access = NoToken
       THEN Return(c, "reauth_required")
       ELSE IF ~row.spent
              THEN Return(c, "ok")
              ELSE IF polls[c] + 1 = MaxPolls
                     THEN Return(c, "provider_unavailable")
                     ELSE UNCHANGED <<phase, answer>>
  /\ UNCHANGED <<row, attempts, held, reply, providerVars, historyVars>>

(* spendRefreshToken reads the row again under the lease. *)
Reload(c) ==
  /\ phase[c] = "reload"
  /\ held' = [held EXCEPT ![c] = row.refresh]
  /\ IF row.status # "active" \/ row.refresh = NoToken
       THEN Goto(c, "giveup")
       ELSE IF ~row.spent THEN ReleaseThen(c, "ok") ELSE Goto(c, "prepare")
  /\ UNCHANGED <<row, attempts, reply, polls, providerVars, historyVars>>

(* ensureClient and credentialFor: discovery and registration may take     *)
(* several requests; each failure releases the lease and returns.          *)
Prepare(c) ==
  /\ phase[c] = "prepare"
  /\ \/ Goto(c, "spend")
     \/ \E a \in {"provider_unavailable", "reauth_required", "error"} : ReleaseThen(c, a)
  /\ UNCHANGED <<row, attempts, held, reply, polls, providerVars, historyVars>>

(* External: the generation the provider accepts for a grant not revoked.  *)
Grantable(t) == t # NoToken /\ cur[t[1]] = t[2] /\ ~dead[t[1]]

(* The provider spends t for generation n. *)
Grants(c, t, n) ==
  /\ Grantable(t) /\ n <= MaxRotations
  /\ cur' = [cur EXCEPT ![t[1]] = n]
  /\ reply' = [reply EXCEPT ![c] = <<t[1], n>>]

(* It rotates the token or not, and its answer is used. *)
Granted(c, t) ==
  /\ \E n \in {t[2], t[2] + 1} : Grants(c, t, n)
  /\ Goto(c, "apply") /\ UNCHANGED <<lost, refused>>

(* The answer is lost on its way, or it is read and is no bearer token. *)
GrantUnused(c, t) ==
  \E n \in {t[2], t[2] + 1} :
    /\ Grants(c, t, n)
    /\ lost' = IF n = t[2] THEN lost ELSE lost \cup {t}
    /\ \/ ReleaseThen(c, "provider_unavailable") /\ UNCHANGED refused
       \/ Goto(c, "mark") /\ refused' = refused \cup {t}

(* Any error body of the token endpoint is `rejected', whatever it names:   *)
(* a token superseded or revoked, a client, or a moment.                    *)
Rejected(c, t) ==
  Goto(c, "mark") /\ refused' = refused \cup {t} /\ UNCHANGED <<cur, reply, lost>>

(* Mutant: a transport failure is read as the provider's refusal. *)
UnreachedIsRefusal(c) == Goto(c, "mark") /\ UNCHANGED <<cur, reply, lost, refused>>

(* A transport failure. *)
Unreached(c) ==
  ReleaseThen(c, "provider_unavailable") /\ UNCHANGED <<cur, reply, lost, refused>>

(* refreshTokens, and what spendRefreshToken makes of its outcome. *)
RefreshTokens(c) ==
  /\ phase[c] = "spend"
  /\ \/ Granted(c, held[c]) \/ GrantUnused(c, held[c]) \/ Rejected(c, held[c]) \/ Unreached(c)
  /\ UNCHANGED <<row, attempts, held, polls, dead, overtaken>>

(* A statement that ends the lease, sent by a caller that was overtaken,    *)
(* ends the lease of whoever holds it now.                                  *)
Overtakes(c) == overtaken' = IF c \in overtaken THEN overtaken \cup Refreshing ELSE overtaken

(* A refresh that did not rotate leaves the stored refresh token alone. *)
Renewed(c) == IF reply[c] = held[c] THEN row.refresh ELSE reply[c]

(* Mutant: connection_token_state_check is missing. *)
ApplyRefreshUnchecked(c) ==
  /\ phase[c] = "apply"
  /\ row' = [row EXCEPT !.access = reply[c], !.refresh = Renewed(c),
                        !.spent = FALSE, !.lease = "none"]
  /\ Return(c, "ok") /\ Overtakes(c)
  /\ UNCHANGED <<attempts, held, reply, polls, providerVars, lost, refused>>

(* Mutant: the rotated refresh token is not stored. *)
ApplyRefreshKeepsOldToken(c) ==
  /\ phase[c] = "apply"
  /\ IF row.status = "active"
       THEN row' = [row EXCEPT !.access = reply[c], !.spent = FALSE, !.lease = "none"]
            /\ Return(c, "ok") /\ Overtakes(c)
       ELSE ReleaseThen(c, "error") /\ UNCHANGED <<row, overtaken>>
  /\ UNCHANGED <<attempts, held, reply, polls, providerVars, lost, refused>>

(* applyRefresh: connection_token_state_check rejects the update of a row  *)
(* that is not active; renew then releases the lease and rethrows.         *)
ApplyRefresh(c) ==
  /\ phase[c] = "apply"
  /\ IF row.status = "active"
       THEN row' = [row EXCEPT !.access = reply[c], !.refresh = Renewed(c),
                               !.spent = FALSE, !.lease = "none"]
            /\ Return(c, "ok") /\ Overtakes(c)
       ELSE ReleaseThen(c, "error") /\ UNCHANGED <<row, overtaken>>
  /\ UNCHANGED <<attempts, held, reply, polls, providerVars, lost, refused>>

ClearedRow(status) == [row EXCEPT !.status = status, !.access = NoToken, !.refresh = NoToken,
                                  !.spent = FALSE, !.lease = "none"]

(* markReauthRequired: by row id and status, whatever the row holds now. *)
MarkReauthRequired(c) ==
  /\ phase[c] \in {"mark", "retire"}
  /\ IF row.status = "active"
       THEN row' = ClearedRow("reauth") /\ Overtakes(c)
       ELSE UNCHANGED <<row, overtaken>>
  /\ Return(c, "reauth_required")
  /\ UNCHANGED <<attempts, held, reply, polls, providerVars, lost, refused>>

(* releaseRefreshLease: by row id, whoever holds the lease now. *)
ReleaseRefreshLease(c) ==
  /\ \/ phase[c] = "release" /\ phase' = [phase EXCEPT ![c] = "done"]
     \/ phase[c] = "giveup" /\ phase' = [phase EXCEPT ![c] = "retire"]
  /\ row' = [row EXCEPT !.lease = "none"] /\ Overtakes(c)
  /\ UNCHANGED <<attempts, held, reply, polls, answer, providerVars, lost, refused>>

-----------------------------------------------------------------------------
(* start and complete *)

OpenAttempt(a) ==
  /\ attempts[a] = "none"
  /\ attempts' = [attempts EXCEPT ![a] = "open"]
  /\ UNCHANGED <<row, phase, held, reply, polls, answer, providerVars, historyVars>>

AttemptExpires(a) ==
  /\ attempts[a] = "open"
  /\ attempts' = [attempts EXCEPT ![a] = "expired"]
  /\ UNCHANGED <<row, phase, held, reply, polls, answer, providerVars, historyVars>>

(* Mutant: consume finds the attempt without the `consumedAt: null` filter. *)
ConsumeAgain(k) ==
  LET a == AttemptOf[k] IN
  /\ phase[k] = "new"
  /\ attempts[a] # "none"
  /\ IF attempts[a] \in {"open", "used"}
       THEN attempts' = [attempts EXCEPT ![a] = "used"] /\ Goto(k, "exchange")
       ELSE Return(k, "refused") /\ UNCHANGED attempts
  /\ UNCHANGED <<row, held, reply, polls, providerVars, historyVars>>

(* complete: claim the attempt, then check what the callback carried; a    *)
(* denied callback does not claim it.                                      *)
Consume(k) ==
  LET a == AttemptOf[k] IN
  /\ phase[k] = "new"
  /\ attempts[a] # "none"
  /\ IF attempts[a] = "open"
       THEN \/ attempts' = [attempts EXCEPT ![a] = "used"]
               /\ (Goto(k, "exchange") \/ Return(k, "refused"))
            \/ Return(k, "refused") /\ UNCHANGED attempts
       ELSE Return(k, "refused") /\ UNCHANGED attempts
  /\ UNCHANGED <<row, held, reply, polls, providerVars, historyVars>>

ExchangeCode(k) ==
  /\ phase[k] = "exchange"
  /\ \/ cur' = [cur EXCEPT ![k] = 0] /\ Goto(k, "begin")
     \/ Return(k, "refused") /\ UNCHANGED cur
  /\ UNCHANGED <<row, attempts, held, reply, polls, dead, historyVars>>

(* beginAuthorization clears the tokens and leaves the lease. *)
BeginAuthorization(k) ==
  /\ phase[k] = "begin"
  /\ row' = [ClearedRow("reauth") EXCEPT !.lease = row.lease]
  /\ Goto(k, "complete")
  /\ UNCHANGED <<attempts, held, reply, polls, providerVars, historyVars>>

CompleteAuthorization(k) ==
  /\ phase[k] = "complete"
  /\ \E r \in {<<k, 0>>, NoToken} :
       row' = [row EXCEPT !.status = "active", !.access = <<k, 0>>, !.refresh = r,
                          !.spent = FALSE]
  /\ Return(k, "connected") /\ overtaken' = overtaken \cup Refreshing
  /\ UNCHANGED <<attempts, held, reply, polls, providerVars, lost, refused>>

-----------------------------------------------------------------------------
(* disconnect *)

LoadForDisconnect(d) ==
  /\ phase[d] = "new"
  /\ held' = [held EXCEPT ![d] = row.refresh]
  /\ IF row.status = "absent" THEN Return(d, "not_connected") ELSE Goto(d, "remote")
  /\ UNCHANGED <<row, attempts, reply, polls, providerVars, historyVars>>

(* The provider accepts the revocation of a token it knows, or the call    *)
(* fails, or there is nothing to present.                                  *)
RevokeRemotely(d) ==
  /\ phase[d] = "remote"
  /\ dead' \in {dead} \cup {[dead EXCEPT ![g] = TRUE] :
                             g \in {h \in Grant : Grantable(held[d]) /\ h = held[d][1]}}
  /\ Goto(d, "mark")
  /\ UNCHANGED <<row, attempts, held, reply, polls, cur, historyVars>>

MarkRevoked(d) ==
  /\ phase[d] = "mark"
  /\ IF row.status # "revoked"
       THEN row' = ClearedRow("revoked") /\ Return(d, "disconnected")
       ELSE Return(d, "not_connected") /\ UNCHANGED row
  /\ UNCHANGED <<attempts, held, reply, polls, providerVars, historyVars>>

-----------------------------------------------------------------------------
(* Time and failures. *)

AccessExpires ==
  /\ row.status = "active" /\ row.access # NoToken /\ ~row.spent
  /\ row' = [row EXCEPT !.spent = TRUE]
  /\ UNCHANGED <<attempts, phase, held, reply, polls, answer, providerVars, historyVars>>

(* LEASE_MS pass, though the holder may still be discovering, registering   *)
(* or waiting for the token endpoint.                                       *)
LeaseExpires ==
  /\ row.lease = "live"
  /\ row' = [row EXCEPT !.lease = "expired"]
  /\ overtaken' = overtaken \cup Refreshing
  /\ UNCHANGED <<attempts, phase, held, reply, polls, answer, providerVars, lost, refused>>

(* The process that runs p dies; a rotated token it had received is lost. *)
Crash(p) ==
  /\ phase[p] \in RefreshPhase \cup {"exchange", "begin", "complete", "remote"}
  /\ phase' = [phase EXCEPT ![p] = "crashed"]
  /\ lost' = IF p \in Caller /\ phase[p] = "apply" /\ reply[p] # held[p]
               THEN lost \cup {held[p]} ELSE lost
  /\ UNCHANGED <<row, attempts, held, reply, polls, answer, providerVars, refused, overtaken>>

CallerStep(c) ==
  \/ Load(c) \/ TakeRefreshLease(c) \/ AwaitHolder(c) \/ Reload(c) \/ Prepare(c)
  \/ RefreshTokens(c) \/ ApplyRefresh(c) \/ MarkReauthRequired(c) \/ ReleaseRefreshLease(c)

ConnectStep(k) ==
  Consume(k) \/ ExchangeCode(k) \/ BeginAuthorization(k) \/ CompleteAuthorization(k)

DisconnectStep(d) == LoadForDisconnect(d) \/ RevokeRemotely(d) \/ MarkRevoked(d)

AllDone == (\A p \in Proc : phase[p] \in {"done", "crashed"}) /\ UNCHANGED vars

Next ==
  \/ \E c \in Caller : CallerStep(c)
  \/ \E k \in Connect : ConnectStep(k)
  \/ \E d \in Disconnect : DisconnectStep(d)
  \/ \E a \in Attempt : OpenAttempt(a) \/ AttemptExpires(a)
  \/ \E p \in Proc : Crash(p)
  \/ AccessExpires
  \/ LeaseExpires
  \/ AllDone

Spec == Init /\ [][Next]_vars

(* Requests end by their timeouts and statements return, so a caller that  *)
(* has not crashed keeps going.                                            *)
FairSpec == Spec /\ \A c \in Caller : WF_vars(CallerStep(c))

-----------------------------------------------------------------------------
(* Properties. *)

(* "Two requests arriving together cannot both believe they hold the        *)
(* claim": of the live callers between takeRefreshLease and the end of      *)
(* their refresh, all but one were overtaken, however leases expire, end at *)
(* the hands of a late holder, outlive a crash or meet a reconnect.         *)
ClaimExclusive == Cardinality(Holding \ overtaken) <= 1

Begins == \E k \in Connect : phase[k] = "begin" /\ phase'[k] = "complete"

(* An active connection becomes reauth_required only when the provider has  *)
(* given up the very token it stores, or it stores none, or a callback      *)
(* starts over; or a caller acts on it that was overtaken.  Neither a       *)
(* transport failure nor a caller that shares the row in time does it.      *)
WorkingGrantKept ==
  [][row.status = "active" /\ row'.status = "reauth"
       => \/ row.refresh \in refused \cup {NoToken} \/ Begins
          \/ \E c \in overtaken : phase[c] \in {"mark", "retire"} /\ phase'[c] = "done"]_vars

(* The stored refresh token is the one the provider accepts, unless its     *)
(* grant was revoked, or its successor was lost or is about to be applied:  *)
(* no order of late answers, overrun leases, reconnects and applies leaves  *)
(* a spent token in the row.                                                *)
StoredTokenSpendable ==
  row.refresh # NoToken /\ row.refresh \notin lost
    => \/ Grantable(row.refresh) \/ dead[row.refresh[1]]
       \/ \E c \in Caller : phase[c] = "apply" /\ held[c] = row.refresh /\ reply[c] # held[c]

(* connection_token_state_check holds after every statement: a refresh that *)
(* ends after a disconnect or during a reconnect writes no token into a row *)
(* that is not active.                                                      *)
OnlyActiveHoldsTokens ==
  row.status # "active" => row.access = NoToken /\ row.refresh = NoToken

(* An attempt yields at most one exchange, however many callbacks carry its *)
(* state.                                                                   *)
OneExchangePerAttempt ==
  \A a \in Attempt :
    Cardinality({k \in Connect : AttemptOf[k] = a /\ cur[k] >= 0}) <= 1

(* Every caller is answered unless its process dies: the wait for another   *)
(* holder is bounded.                                                       *)
CallerAnswered == \A c \in Caller : phase[c] # "new" ~> phase[c] \in {"done", "crashed"}
=============================================================================
