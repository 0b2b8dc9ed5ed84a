----------------------- MODULE ConnectionTokensProofs -----------------------
(***************************************************************************)
(* Theorems about ConnectionTokens, for any number of calls, callbacks,    *)
(* disconnects, attempts and rotations.                                    *)
(*                                                                         *)
(* A lease may end under its holder.  LeaseInv and HolderInv say what a    *)
(* caller that was not overtaken can rely on: it holds alone, and what it  *)
(* read is still the row's.  GrantInv, OrderInv and SpendInv hold of every *)
(* caller: they follow the refresh tokens of a grant from the row through  *)
(* the callers to the provider and back, in the order of their             *)
(* generations.                                                            *)
(***************************************************************************)
EXTENDS ConnectionTokens, FiniteSetTheorems, TLAPS

(* A caller that still may poll has polls left; one that is past reload has *)
(* a token to present, and one whose refresh was answered a token to store. *)
CallerInv ==
  \A c \in Caller :
    /\ phase[c] \in {"new", "claim", "await"} => polls[c] < MaxPolls
    /\ phase[c] \in {"prepare", "spend", "apply"} => held[c] # NoToken
    /\ phase[c] = "apply" => reply[c] # NoToken

(* A callback that claimed its attempt and went on to the provider. *)
Exchanged(k) == phase[k] = "exchange" \/ cur[k] >= 0

ExchangeInv ==
  /\ \A k \in Connect : Exchanged(k) => attempts[AttemptOf[k]] = "used"
  /\ \A j, k \in Connect : Exchanged(j) /\ Exchanged(k) /\ AttemptOf[j] = AttemptOf[k] => j = k

(* The lease is the claim of one caller that was not overtaken: it is live  *)
(* while that caller works, unless the row is no longer active and nobody   *)
(* can claim it.                                                            *)
LeaseInv ==
  /\ \A b, c \in Holding \ overtaken : b = c
  /\ \A c \in Holding \ overtaken : row.lease = "live" \/ row.status # "active"

(* What such a caller read under the lease is still the row's, and one that *)
(* will mark the row has the refusal of that token, or read that there is   *)
(* none.                                                                    *)
HolderInv ==
  /\ \A c \in Caller : phase[c] = "mark" => held[c] \in refused
  /\ \A c \in Caller \ overtaken : row.status = "active" =>
       /\ phase[c] \in {"prepare", "spend", "apply", "mark"} => held[c] = row.refresh
       /\ phase[c] \in {"giveup", "retire"} => row.refresh = NoToken

(* A caller with a rotated token that nobody has stored. *)
Fresh(c) == phase[c] = "apply" /\ reply[c] # held[c]

(* Tokens of one grant are met in the order of their generations: none is   *)
(* ahead of the provider, and a fresh one is ahead of every other, so that  *)
(* a grant has at most one.                                                 *)
Reached(t) == t # NoToken =>
  /\ t[2] <= cur[t[1]]
  /\ \A c \in Caller : Fresh(c) /\ reply[c][1] = t[1] => t[2] < reply[c][2]
OrderInv ==
  /\ Reached(row.refresh) /\ \A c \in Caller : Reached(held[c])
  /\ \A c \in Caller : Fresh(c) =>
       held[c][1] = reply[c][1] /\ reply[c][2] = cur[reply[c][1]]
  /\ \A b, c \in Caller : Fresh(b) /\ Fresh(c) /\ reply[b][1] = reply[c][1] => b = c

(* Nobody has met the grant of a callback that has not completed, *)
Unmet(k, t) == t # NoToken => t[1] # k
GrantInv ==
  \A k \in Connect :
    /\ phase[k] \in {"begin", "complete"} => cur[k] = 0
    /\ phase[k] \in {"new", "exchange", "begin", "complete"} =>
         Unmet(k, row.refresh) /\ \A c \in Caller : Unmet(k, held[c])

(* and the stored token is the newest unless its successor is on the way or *)
(* was lost.                                                                *)
SpendInv ==
  row.refresh # NoToken /\ row.refresh \notin lost =>
    \/ cur[row.refresh[1]] = row.refresh[2]
    \/ \E c \in Caller : Fresh(c) /\ held[c] = row.refresh

(* A set with no two different elements has at most one. *)
LEMMA AtMostOne ==
  ASSUME NEW S, \A x, y \in S : x = y
  PROVE  Cardinality(S) <= 1
<1>1. CASE S = {}
  BY <1>1, FS_EmptySet
<1>2. CASE S # {}
  <2>1. PICK x \in S : TRUE
    BY <1>2
  <2>2. S = {x}
    BY <2>1
  <2> QED
    BY <2>2, FS_Singleton
<1> QED
  BY <1>1, <1>2

(* What a caller presents to the provider, and what it may get for it. *)
LEMMA SpendsToken ==
  ASSUME TypeOK, CallerInv, NEW c \in Caller, phase[c] = "spend"
  PROVE  /\ held[c] \in Token /\ held[c][1] \in Grant /\ held[c][2] \in 0 .. MaxRotations
         /\ \A n \in {held[c][2], held[c][2] + 1} : n <= MaxRotations =>
              /\ n \in 0 .. MaxRotations
              /\ <<held[c][1], n>> \in Token /\ <<held[c][1], n>> # NoToken
<1>1. held[c] \in Token
  BY DEF TypeOK, CallerInv, OptToken
<1>2. held[c][1] \in Grant /\ held[c][2] \in 0 .. MaxRotations
  BY <1>1 DEF Token
<1>3. ASSUME NEW n \in {held[c][2], held[c][2] + 1}, n <= MaxRotations
      PROVE  /\ n \in 0 .. MaxRotations
             /\ <<held[c][1], n>> \in Token /\ <<held[c][1], n>> # NoToken
  <2>1. n \in 0 .. MaxRotations
    BY <1>2, <1>3, PollAssumption
  <2>2. <<held[c][1], n>> \in Token
    BY <1>2, <2>1 DEF Token
  <2> QED
    BY <2>1, <2>2, ProcAssumption
<1> QED
  BY <1>1, <1>2, <1>3

(* Every action keeps the types. *)
LEMMA TypeStep == TypeOK /\ CallerInv /\ [Next]_vars => TypeOK'
<1> SUFFICES ASSUME TypeOK, CallerInv, [Next]_vars PROVE TypeOK'
  OBVIOUS
<1>1. ASSUME UNCHANGED vars PROVE TypeOK'
  BY <1>1 DEF vars, Goto, Return, ReleaseThen, providerVars, historyVars,
     TypeOK, Row, Proc, HoldPhase, RefreshPhase, CallerInv
<1>2. ASSUME AllDone PROVE TypeOK'
  BY <1>2 DEF AllDone, vars, Goto, Return, ReleaseThen, providerVars,
     historyVars, TypeOK, Row, Proc, HoldPhase, RefreshPhase, CallerInv
<1>3. ASSUME NEW c \in Caller, Load(c) PROVE TypeOK'
  BY <1>3 DEF Load, Goto, Return, ReleaseThen, providerVars, historyVars,
     TypeOK, Row, Proc, HoldPhase, RefreshPhase, CallerInv
<1>4. ASSUME NEW c \in Caller, TakeRefreshLease(c) PROVE TypeOK'
  BY <1>4 DEF TakeRefreshLease, Goto, Return, ReleaseThen, providerVars,
     historyVars, TypeOK, Row, Proc, HoldPhase, RefreshPhase, CallerInv
<1>5. ASSUME NEW c \in Caller, AwaitHolder(c) PROVE TypeOK'
  BY <1>5, PollAssumption DEF AwaitHolder, Goto, Return, ReleaseThen, providerVars,
     historyVars, TypeOK, Row, Proc, HoldPhase, RefreshPhase, CallerInv
<1>6. ASSUME NEW c \in Caller, Reload(c) PROVE TypeOK'
  BY <1>6 DEF Reload, Goto, Return, ReleaseThen, providerVars, historyVars,
     TypeOK, Row, Proc, HoldPhase, RefreshPhase, CallerInv
<1>7. ASSUME NEW c \in Caller, Prepare(c) PROVE TypeOK'
  BY <1>7 DEF Prepare, Goto, Return, ReleaseThen, providerVars, historyVars,
     TypeOK, Row, Proc, HoldPhase, RefreshPhase, CallerInv
<1>8. ASSUME NEW c \in Caller, RefreshTokens(c) PROVE TypeOK'
  <2> DEFINE t == held[c]
  <2>1. /\ phase[c] = "spend" /\ t \in Token /\ t[1] \in Grant
        /\ \A n \in {t[2], t[2] + 1} : n <= MaxRotations => n \in 0 .. MaxRotations /\ <<t[1], n>> \in Token
    BY <1>8, SpendsToken DEF RefreshTokens
  <2>2. /\ phase' \in [Proc -> {"new", "claim", "await", "exchange", "begin", "complete",
                                "remote", "done", "crashed"} \cup RefreshPhase]
        /\ answer' \in [Proc -> {"none", "ok", "not_connected", "reauth_required",
                                 "provider_unavailable", "error", "connected", "refused",
                                 "disconnected"}]
    BY <1>8 DEF RefreshTokens, Granted, GrantUnused, Rejected, Unreached, Goto, ReleaseThen,
       TypeOK, Proc, HoldPhase, RefreshPhase
  <2>3. ASSUME NEW n \in {t[2], t[2] + 1}, Grants(c, t, n)
        PROVE  cur' \in [Grant -> -1 .. MaxRotations] /\ reply' \in [Caller -> OptToken]
    <3>1. n \in -1 .. MaxRotations /\ <<t[1], n>> \in OptToken
      BY <2>1, <2>3, PollAssumption DEF Grants, OptToken
    <3> QED
      BY <2>1, <2>3, <3>1 DEF Grants, TypeOK
  <2>4. lost' \subseteq Token /\ refused' \subseteq Token
    BY <1>8, <2>1 DEF RefreshTokens, Granted, GrantUnused, Rejected, Unreached, TypeOK
  <2>5. cur' \in [Grant -> -1 .. MaxRotations] /\ reply' \in [Caller -> OptToken]
    BY <1>8, <2>3 DEF RefreshTokens, Granted, GrantUnused, Rejected, Unreached, TypeOK
  <2> QED
    BY <1>8, <2>2, <2>4, <2>5 DEF RefreshTokens, TypeOK
<1>9. ASSUME NEW c \in Caller, ApplyRefresh(c) PROVE TypeOK'
  <2>1. reply[c] \in OptToken /\ Renewed(c) \in OptToken
    BY DEF TypeOK, Row, Renewed
  <2>2. row' \in Row /\ overtaken' \subseteq Caller
    BY <1>9, <2>1 DEF ApplyRefresh, Overtakes, Refreshing, TypeOK, Row
  <2> QED
    BY <1>9, <2>2 DEF ApplyRefresh, Goto, Return, ReleaseThen, providerVars,
       TypeOK, Proc, HoldPhase, RefreshPhase
<1>10. ASSUME NEW c \in Caller, MarkReauthRequired(c) PROVE TypeOK'
  <2>1. ClearedRow("reauth") \in Row
    BY DEF ClearedRow, TypeOK, Row, OptToken
  <2>2. row' \in Row
    BY <1>10, <2>1 DEF MarkReauthRequired, TypeOK
  <2>3. overtaken' \subseteq Caller
    BY <1>10 DEF MarkReauthRequired, Overtakes, Refreshing, TypeOK
  <2> QED
    BY <1>10, <2>2, <2>3 DEF MarkReauthRequired, Return, providerVars, TypeOK, Proc, HoldPhase, RefreshPhase
<1>11. ASSUME NEW c \in Caller, ReleaseRefreshLease(c) PROVE TypeOK'
  <2>1. row' \in Row /\ overtaken' \subseteq Caller
    BY <1>11 DEF ReleaseRefreshLease, Overtakes, Refreshing, TypeOK, Row
  <2> QED
    BY <1>11, <2>1 DEF ReleaseRefreshLease, providerVars, TypeOK, Proc, HoldPhase, RefreshPhase
<1>12. ASSUME NEW k \in Connect, Consume(k) PROVE TypeOK'
  BY <1>12 DEF Consume, Goto, Return, ReleaseThen, providerVars, historyVars,
     TypeOK, Row, Proc, HoldPhase, RefreshPhase, CallerInv
<1>13. ASSUME NEW k \in Connect, ExchangeCode(k) PROVE TypeOK'
  <2>1. 0 \in -1 .. MaxRotations
    BY PollAssumption
  <2> QED
    BY <1>13, <2>1 DEF ExchangeCode, Goto, Return, ReleaseThen, providerVars, historyVars,
       TypeOK, Proc, HoldPhase, RefreshPhase
<1>14. ASSUME NEW k \in Connect, BeginAuthorization(k) PROVE TypeOK'
  <2>1. row' \in Row
    BY <1>14 DEF BeginAuthorization, ClearedRow, TypeOK, Row, OptToken
  <2> QED
    BY <1>14, <2>1 DEF BeginAuthorization, ClearedRow, Goto, Return,
       ReleaseThen, providerVars, historyVars, TypeOK, Proc, HoldPhase, RefreshPhase
<1>15. ASSUME NEW k \in Connect, CompleteAuthorization(k) PROVE TypeOK'
  <2>1. <<k, 0>> \in OptToken /\ NoToken \in OptToken
    BY PollAssumption DEF OptToken, Token, Grant
  <2>2. row' \in Row
    <3>1. PICK q \in {<<k, 0>>, NoToken} :
            row' = [row EXCEPT !.status = "active", !.access = <<k, 0>>, !.refresh = q, !.spent = FALSE]
      BY <1>15 DEF CompleteAuthorization
    <3> QED
      BY <2>1, <3>1 DEF TypeOK, Row
  <2> QED
    BY <1>15, <2>2 DEF CompleteAuthorization, Refreshing, Goto, Return, ReleaseThen,
       providerVars, historyVars, TypeOK, Proc, HoldPhase, RefreshPhase
<1>16. ASSUME NEW d \in Disconnect, LoadForDisconnect(d) PROVE TypeOK'
  BY <1>16 DEF LoadForDisconnect, Goto, Return, ReleaseThen, providerVars,
     historyVars, TypeOK, Row, Proc, HoldPhase, RefreshPhase, CallerInv
<1>17. ASSUME NEW d \in Disconnect, RevokeRemotely(d) PROVE TypeOK'
  BY <1>17 DEF RevokeRemotely, Grantable, Goto, Return, ReleaseThen,
     providerVars, historyVars, TypeOK, Row, Proc, HoldPhase, RefreshPhase,
     CallerInv
<1>18. ASSUME NEW d \in Disconnect, MarkRevoked(d) PROVE TypeOK'
  <2>1. row' \in Row
    <3>1. ClearedRow("revoked") \in Row
      BY DEF ClearedRow, TypeOK, Row, OptToken
    <3>2. row' = row \/ row' = ClearedRow("revoked")
      BY <1>18 DEF MarkRevoked
    <3> QED
      BY <3>1, <3>2 DEF TypeOK
  <2> QED
    BY <1>18, <2>1 DEF MarkRevoked, ClearedRow, Goto, Return, ReleaseThen,
       providerVars, historyVars, TypeOK, Proc, HoldPhase, RefreshPhase
<1>19. ASSUME NEW a \in Attempt, OpenAttempt(a) PROVE TypeOK'
  BY <1>19 DEF OpenAttempt, Goto, Return, ReleaseThen, providerVars,
     historyVars, TypeOK, Row, Proc, HoldPhase, RefreshPhase, CallerInv
<1>20. ASSUME NEW a \in Attempt, AttemptExpires(a) PROVE TypeOK'
  BY <1>20 DEF AttemptExpires, Goto, Return, ReleaseThen, providerVars,
     historyVars, TypeOK, Row, Proc, HoldPhase, RefreshPhase, CallerInv
<1>21. ASSUME NEW p \in Proc, Crash(p) PROVE TypeOK'
  <2>1. p \in Caller /\ phase[p] = "apply" => held[p] \in Token
    BY DEF TypeOK, CallerInv, OptToken
  <2> QED
    BY <1>21, <2>1 DEF Crash, providerVars, TypeOK, Proc, HoldPhase, RefreshPhase
<1>22. ASSUME AccessExpires PROVE TypeOK'
  BY <1>22 DEF AccessExpires, Goto, Return, ReleaseThen, providerVars,
     historyVars, TypeOK, Row, Proc, HoldPhase, RefreshPhase, CallerInv
<1>23. ASSUME LeaseExpires PROVE TypeOK'
  BY <1>23 DEF LeaseExpires, Refreshing, Goto, Return, ReleaseThen,
     providerVars, historyVars, TypeOK, Row, Proc, HoldPhase, RefreshPhase,
     CallerInv
<1> QED
  BY <1>1, <1>2, <1>3, <1>4, <1>5, <1>6, <1>7, <1>8, <1>9, <1>10, <1>11,
     <1>12, <1>13, <1>14, <1>15, <1>16, <1>17, <1>18, <1>19, <1>20, <1>21,
     <1>22, <1>23 DEF Next, CallerStep, ConnectStep, DisconnectStep

(* Every action keeps CallerInv. *)
LEMMA CallersStep == TypeOK /\ CallerInv /\ [Next]_vars => CallerInv'
<1> SUFFICES ASSUME TypeOK, CallerInv, [Next]_vars PROVE CallerInv'
  OBVIOUS
<1>1. ASSUME UNCHANGED vars PROVE CallerInv'
  BY <1>1, ProcAssumption DEF vars, Goto, Return, ReleaseThen, providerVars,
     historyVars, TypeOK, Row, Proc, HoldPhase, RefreshPhase, CallerInv
<1>2. ASSUME AllDone PROVE CallerInv'
  BY <1>2, ProcAssumption DEF AllDone, vars, Goto, Return, ReleaseThen,
     providerVars, historyVars, TypeOK, Row, Proc, HoldPhase, RefreshPhase,
     CallerInv
<1>3. ASSUME NEW c \in Caller, Load(c) PROVE CallerInv'
  BY <1>3, ProcAssumption DEF Load, Goto, Return, ReleaseThen, providerVars,
     historyVars, TypeOK, Row, Proc, HoldPhase, RefreshPhase, CallerInv
<1>4. ASSUME NEW c \in Caller, TakeRefreshLease(c) PROVE CallerInv'
  BY <1>4, ProcAssumption DEF TakeRefreshLease, Goto, Return, ReleaseThen,
     providerVars, historyVars, TypeOK, Row, Proc, HoldPhase, RefreshPhase,
     CallerInv
<1>5. ASSUME NEW c \in Caller, AwaitHolder(c) PROVE CallerInv'
  BY <1>5, ProcAssumption, PollAssumption DEF AwaitHolder, Goto, Return, ReleaseThen,
     providerVars, historyVars, TypeOK, Row, Proc, HoldPhase, RefreshPhase,
     CallerInv
<1>6. ASSUME NEW c \in Caller, Reload(c) PROVE CallerInv'
  BY <1>6, ProcAssumption DEF Reload, Goto, Return, ReleaseThen, providerVars,
     historyVars, TypeOK, Row, Proc, HoldPhase, RefreshPhase, CallerInv
<1>7. ASSUME NEW c \in Caller, Prepare(c) PROVE CallerInv'
  BY <1>7, ProcAssumption DEF Prepare, Goto, Return, ReleaseThen,
     providerVars, historyVars, TypeOK, Row, Proc, HoldPhase, RefreshPhase,
     CallerInv
<1>8. ASSUME NEW c \in Caller, RefreshTokens(c) PROVE CallerInv'
  <2>1. \A n \in {held[c][2], held[c][2] + 1} : n <= MaxRotations => <<held[c][1], n>> # NoToken
    BY <1>8, SpendsToken DEF RefreshTokens
  <2> QED
    BY <1>8, <2>1 DEF RefreshTokens, Granted, GrantUnused, Grants, Rejected, Unreached, Goto,
       ReleaseThen, TypeOK, Row, Proc, HoldPhase, RefreshPhase, CallerInv
<1>9. ASSUME NEW c \in Caller, ApplyRefresh(c) PROVE CallerInv'
  BY <1>9, ProcAssumption DEF ApplyRefresh, Renewed, Overtakes, Refreshing,
     Goto, Return, ReleaseThen, providerVars, historyVars, TypeOK, Row, Proc,
     HoldPhase, RefreshPhase, CallerInv
<1>10. ASSUME NEW c \in Caller, MarkReauthRequired(c) PROVE CallerInv'
  BY <1>10, ProcAssumption DEF MarkReauthRequired, ClearedRow, Overtakes,
     Refreshing, Goto, Return, ReleaseThen, providerVars, historyVars, TypeOK,
     Row, Proc, HoldPhase, RefreshPhase, CallerInv
<1>11. ASSUME NEW c \in Caller, ReleaseRefreshLease(c) PROVE CallerInv'
  BY <1>11, ProcAssumption DEF ReleaseRefreshLease, Overtakes, Refreshing,
     Goto, Return, ReleaseThen, providerVars, historyVars, TypeOK, Row, Proc,
     HoldPhase, RefreshPhase, CallerInv
<1>12. ASSUME NEW k \in Connect, Consume(k) PROVE CallerInv'
  BY <1>12, ProcAssumption DEF Consume, Goto, Return, ReleaseThen,
     providerVars, historyVars, TypeOK, Row, Proc, HoldPhase, RefreshPhase,
     CallerInv
<1>13. ASSUME NEW k \in Connect, ExchangeCode(k) PROVE CallerInv'
  BY <1>13, ProcAssumption DEF ExchangeCode, Goto, Return, ReleaseThen,
     providerVars, historyVars, TypeOK, Row, Proc, HoldPhase, RefreshPhase,
     CallerInv
<1>14. ASSUME NEW k \in Connect, BeginAuthorization(k) PROVE CallerInv'
  BY <1>14, ProcAssumption DEF BeginAuthorization, ClearedRow, Goto, Return,
     ReleaseThen, providerVars, historyVars, TypeOK, Row, Proc, HoldPhase,
     RefreshPhase, CallerInv
<1>15. ASSUME NEW k \in Connect, CompleteAuthorization(k) PROVE CallerInv'
  BY <1>15, ProcAssumption DEF CompleteAuthorization, Refreshing, Goto,
     Return, ReleaseThen, providerVars, historyVars, TypeOK, Row, Proc,
     HoldPhase, RefreshPhase, CallerInv
<1>16. ASSUME NEW d \in Disconnect, LoadForDisconnect(d) PROVE CallerInv'
  BY <1>16, ProcAssumption DEF LoadForDisconnect, Goto, Return, ReleaseThen,
     providerVars, historyVars, TypeOK, Row, Proc, HoldPhase, RefreshPhase,
     CallerInv
<1>17. ASSUME NEW d \in Disconnect, RevokeRemotely(d) PROVE CallerInv'
  BY <1>17, ProcAssumption DEF RevokeRemotely, Grantable, Goto, Return,
     ReleaseThen, providerVars, historyVars, TypeOK, Row, Proc, HoldPhase,
     RefreshPhase, CallerInv
<1>18. ASSUME NEW d \in Disconnect, MarkRevoked(d) PROVE CallerInv'
  BY <1>18, ProcAssumption DEF MarkRevoked, ClearedRow, Goto, Return,
     ReleaseThen, providerVars, historyVars, TypeOK, Row, Proc, HoldPhase,
     RefreshPhase, CallerInv
<1>19. ASSUME NEW a \in Attempt, OpenAttempt(a) PROVE CallerInv'
  BY <1>19, ProcAssumption DEF OpenAttempt, Goto, Return, ReleaseThen,
     providerVars, historyVars, TypeOK, Row, Proc, HoldPhase, RefreshPhase,
     CallerInv
<1>20. ASSUME NEW a \in Attempt, AttemptExpires(a) PROVE CallerInv'
  BY <1>20, ProcAssumption DEF AttemptExpires, Goto, Return, ReleaseThen,
     providerVars, historyVars, TypeOK, Row, Proc, HoldPhase, RefreshPhase,
     CallerInv
<1>21. ASSUME NEW p \in Proc, Crash(p) PROVE CallerInv'
  BY <1>21, ProcAssumption DEF Crash, Goto, Return, ReleaseThen, providerVars,
     historyVars, TypeOK, Row, Proc, HoldPhase, RefreshPhase, CallerInv
<1>22. ASSUME AccessExpires PROVE CallerInv'
  BY <1>22, ProcAssumption DEF AccessExpires, Goto, Return, ReleaseThen,
     providerVars, historyVars, TypeOK, Row, Proc, HoldPhase, RefreshPhase,
     CallerInv
<1>23. ASSUME LeaseExpires PROVE CallerInv'
  BY <1>23, ProcAssumption DEF LeaseExpires, Refreshing, Goto, Return,
     ReleaseThen, providerVars, historyVars, TypeOK, Row, Proc, HoldPhase,
     RefreshPhase, CallerInv
<1> QED
  BY <1>1, <1>2, <1>3, <1>4, <1>5, <1>6, <1>7, <1>8, <1>9, <1>10, <1>11,
     <1>12, <1>13, <1>14, <1>15, <1>16, <1>17, <1>18, <1>19, <1>20, <1>21,
     <1>22, <1>23 DEF Next, CallerStep, ConnectStep, DisconnectStep

(* Every action keeps OnlyActiveHoldsTokens. *)
LEMMA OnlyActiveStep == TypeOK /\ OnlyActiveHoldsTokens /\ [Next]_vars => OnlyActiveHoldsTokens'
<1> SUFFICES ASSUME TypeOK, OnlyActiveHoldsTokens, [Next]_vars PROVE OnlyActiveHoldsTokens'
  OBVIOUS
<1>1. ASSUME UNCHANGED vars PROVE OnlyActiveHoldsTokens'
  BY <1>1 DEF vars, Goto, Return, ReleaseThen, providerVars, historyVars,
     TypeOK, Row, OnlyActiveHoldsTokens
<1>2. ASSUME AllDone PROVE OnlyActiveHoldsTokens'
  BY <1>2 DEF AllDone, vars, Goto, Return, ReleaseThen, providerVars,
     historyVars, TypeOK, Row, OnlyActiveHoldsTokens
<1>3. ASSUME NEW c \in Caller, Load(c) PROVE OnlyActiveHoldsTokens'
  BY <1>3 DEF Load, Goto, Return, ReleaseThen, providerVars, historyVars,
     TypeOK, Row, OnlyActiveHoldsTokens
<1>4. ASSUME NEW c \in Caller, TakeRefreshLease(c) PROVE OnlyActiveHoldsTokens'
  BY <1>4 DEF TakeRefreshLease, Goto, Return, ReleaseThen, providerVars,
     historyVars, TypeOK, Row, OnlyActiveHoldsTokens
<1>5. ASSUME NEW c \in Caller, AwaitHolder(c) PROVE OnlyActiveHoldsTokens'
  BY <1>5 DEF AwaitHolder, Goto, Return, ReleaseThen, providerVars,
     historyVars, TypeOK, Row, OnlyActiveHoldsTokens
<1>6. ASSUME NEW c \in Caller, Reload(c) PROVE OnlyActiveHoldsTokens'
  BY <1>6 DEF Reload, Goto, Return, ReleaseThen, providerVars, historyVars,
     TypeOK, Row, OnlyActiveHoldsTokens
<1>7. ASSUME NEW c \in Caller, Prepare(c) PROVE OnlyActiveHoldsTokens'
  BY <1>7 DEF Prepare, Goto, Return, ReleaseThen, providerVars, historyVars,
     TypeOK, Row, OnlyActiveHoldsTokens
<1>8. ASSUME NEW c \in Caller, RefreshTokens(c) PROVE OnlyActiveHoldsTokens'
  BY <1>8 DEF RefreshTokens, Granted, GrantUnused, Grants, Rejected,
     Unreached, Goto, Return, ReleaseThen, providerVars, historyVars, TypeOK,
     Row, OnlyActiveHoldsTokens
<1>9. ASSUME NEW c \in Caller, ApplyRefresh(c) PROVE OnlyActiveHoldsTokens'
  BY <1>9 DEF ApplyRefresh, Renewed, Overtakes, Refreshing, Goto, Return,
     ReleaseThen, providerVars, historyVars, TypeOK, Row,
     OnlyActiveHoldsTokens
<1>10. ASSUME NEW c \in Caller, MarkReauthRequired(c) PROVE OnlyActiveHoldsTokens'
  BY <1>10 DEF MarkReauthRequired, ClearedRow, Overtakes, Refreshing, Goto,
     Return, ReleaseThen, providerVars, historyVars, TypeOK, Row,
     OnlyActiveHoldsTokens
<1>11. ASSUME NEW c \in Caller, ReleaseRefreshLease(c) PROVE OnlyActiveHoldsTokens'
  BY <1>11 DEF ReleaseRefreshLease, Overtakes, Refreshing, Goto, Return,
     ReleaseThen, providerVars, historyVars, TypeOK, Row,
     OnlyActiveHoldsTokens
<1>12. ASSUME NEW k \in Connect, Consume(k) PROVE OnlyActiveHoldsTokens'
  BY <1>12 DEF Consume, Goto, Return, ReleaseThen, providerVars, historyVars,
     TypeOK, Row, OnlyActiveHoldsTokens
<1>13. ASSUME NEW k \in Connect, ExchangeCode(k) PROVE OnlyActiveHoldsTokens'
  BY <1>13 DEF ExchangeCode, Goto, Return, ReleaseThen, providerVars,
     historyVars, TypeOK, Row, OnlyActiveHoldsTokens
<1>14. ASSUME NEW k \in Connect, BeginAuthorization(k) PROVE OnlyActiveHoldsTokens'
  BY <1>14 DEF BeginAuthorization, ClearedRow, Goto, Return, ReleaseThen,
     providerVars, historyVars, TypeOK, Row, OnlyActiveHoldsTokens
<1>15. ASSUME NEW k \in Connect, CompleteAuthorization(k) PROVE OnlyActiveHoldsTokens'
  BY <1>15 DEF CompleteAuthorization, Refreshing, Goto, Return, ReleaseThen,
     providerVars, historyVars, TypeOK, Row, OnlyActiveHoldsTokens
<1>16. ASSUME NEW d \in Disconnect, LoadForDisconnect(d) PROVE OnlyActiveHoldsTokens'
  BY <1>16 DEF LoadForDisconnect, Goto, Return, ReleaseThen, providerVars,
     historyVars, TypeOK, Row, OnlyActiveHoldsTokens
<1>17. ASSUME NEW d \in Disconnect, RevokeRemotely(d) PROVE OnlyActiveHoldsTokens'
  BY <1>17 DEF RevokeRemotely, Grantable, Goto, Return, ReleaseThen,
     providerVars, historyVars, TypeOK, Row, OnlyActiveHoldsTokens
<1>18. ASSUME NEW d \in Disconnect, MarkRevoked(d) PROVE OnlyActiveHoldsTokens'
  BY <1>18 DEF MarkRevoked, ClearedRow, Goto, Return, ReleaseThen,
     providerVars, historyVars, TypeOK, Row, OnlyActiveHoldsTokens
<1>19. ASSUME NEW a \in Attempt, OpenAttempt(a) PROVE OnlyActiveHoldsTokens'
  BY <1>19 DEF OpenAttempt, Goto, Return, ReleaseThen, providerVars,
     historyVars, TypeOK, Row, OnlyActiveHoldsTokens
<1>20. ASSUME NEW a \in Attempt, AttemptExpires(a) PROVE OnlyActiveHoldsTokens'
  BY <1>20 DEF AttemptExpires, Goto, Return, ReleaseThen, providerVars,
     historyVars, TypeOK, Row, OnlyActiveHoldsTokens
<1>21. ASSUME NEW p \in Proc, Crash(p) PROVE OnlyActiveHoldsTokens'
  BY <1>21 DEF Crash, Goto, Return, ReleaseThen, providerVars, historyVars,
     TypeOK, Row, OnlyActiveHoldsTokens
<1>22. ASSUME AccessExpires PROVE OnlyActiveHoldsTokens'
  BY <1>22 DEF AccessExpires, Goto, Return, ReleaseThen, providerVars,
     historyVars, TypeOK, Row, OnlyActiveHoldsTokens
<1>23. ASSUME LeaseExpires PROVE OnlyActiveHoldsTokens'
  BY <1>23 DEF LeaseExpires, Refreshing, Goto, Return, ReleaseThen,
     providerVars, historyVars, TypeOK, Row, OnlyActiveHoldsTokens
<1> QED
  BY <1>1, <1>2, <1>3, <1>4, <1>5, <1>6, <1>7, <1>8, <1>9, <1>10, <1>11,
     <1>12, <1>13, <1>14, <1>15, <1>16, <1>17, <1>18, <1>19, <1>20, <1>21,
     <1>22, <1>23 DEF Next, CallerStep, ConnectStep, DisconnectStep

(* Every action keeps ExchangeInv. *)
LEMMA ExchangeStep == TypeOK /\ CallerInv /\ ExchangeInv /\ [Next]_vars => ExchangeInv'
<1> SUFFICES ASSUME TypeOK, CallerInv, ExchangeInv, [Next]_vars PROVE ExchangeInv'
  OBVIOUS
<1>1. ASSUME UNCHANGED vars PROVE ExchangeInv'
  BY <1>1, ProcAssumption, AttemptAssumption DEF vars, Goto, Return,
     ReleaseThen, providerVars, historyVars, TypeOK, Row, Proc, HoldPhase,
     RefreshPhase, ExchangeInv, Exchanged, Grant
<1>2. ASSUME AllDone PROVE ExchangeInv'
  BY <1>2, ProcAssumption, AttemptAssumption DEF AllDone, vars, Goto, Return,
     ReleaseThen, providerVars, historyVars, TypeOK, Row, Proc, HoldPhase,
     RefreshPhase, ExchangeInv, Exchanged, Grant
<1>3. ASSUME NEW c \in Caller, Load(c) PROVE ExchangeInv'
  BY <1>3, ProcAssumption, AttemptAssumption DEF Load, Goto, Return,
     ReleaseThen, providerVars, historyVars, TypeOK, Row, Proc, HoldPhase,
     RefreshPhase, ExchangeInv, Exchanged, Grant
<1>4. ASSUME NEW c \in Caller, TakeRefreshLease(c) PROVE ExchangeInv'
  BY <1>4, ProcAssumption, AttemptAssumption DEF TakeRefreshLease, Goto,
     Return, ReleaseThen, providerVars, historyVars, TypeOK, Row, Proc,
     HoldPhase, RefreshPhase, ExchangeInv, Exchanged, Grant
<1>5. ASSUME NEW c \in Caller, AwaitHolder(c) PROVE ExchangeInv'
  BY <1>5, ProcAssumption, AttemptAssumption DEF AwaitHolder, Goto, Return,
     ReleaseThen, providerVars, historyVars, TypeOK, Row, Proc, HoldPhase,
     RefreshPhase, ExchangeInv, Exchanged, Grant
<1>6. ASSUME NEW c \in Caller, Reload(c) PROVE ExchangeInv'
  BY <1>6, ProcAssumption, AttemptAssumption DEF Reload, Goto, Return,
     ReleaseThen, providerVars, historyVars, TypeOK, Row, Proc, HoldPhase,
     RefreshPhase, ExchangeInv, Exchanged, Grant
<1>7. ASSUME NEW c \in Caller, Prepare(c) PROVE ExchangeInv'
  BY <1>7, ProcAssumption, AttemptAssumption DEF Prepare, Goto, Return,
     ReleaseThen, providerVars, historyVars, TypeOK, Row, Proc, HoldPhase,
     RefreshPhase, ExchangeInv, Exchanged, Grant
<1>8. ASSUME NEW c \in Caller, RefreshTokens(c) PROVE ExchangeInv'
  <2>1. held[c] \in Token /\ held[c][1] \in Grant /\ held[c][2] \in 0 .. MaxRotations
    BY <1>8, SpendsToken DEF RefreshTokens
  <2>2. ASSUME NEW n, Grants(c, held[c], n) PROVE \A k \in Connect : cur'[k] = cur[k] \/ cur[k] >= 0
    BY <2>1, <2>2, PollAssumption DEF Grants, Grantable, TypeOK, Grant
  <2>3. \A k \in Connect : cur'[k] = cur[k] \/ cur[k] >= 0
    BY <1>8, <2>2 DEF RefreshTokens, Granted, GrantUnused, Rejected, Unreached
  <2>4. \A k \in Connect : Exchanged(k)' => Exchanged(k)
    BY <1>8, <2>3, ProcAssumption DEF RefreshTokens, Granted, GrantUnused, Rejected, Unreached,
       Goto, ReleaseThen, TypeOK, Proc, Exchanged
  <2> QED
    BY <1>8, <2>4 DEF RefreshTokens, ExchangeInv
<1>9. ASSUME NEW c \in Caller, ApplyRefresh(c) PROVE ExchangeInv'
  BY <1>9, ProcAssumption, AttemptAssumption DEF ApplyRefresh, Renewed,
     Overtakes, Refreshing, Goto, Return, ReleaseThen, providerVars,
     historyVars, TypeOK, Row, Proc, HoldPhase, RefreshPhase, ExchangeInv,
     Exchanged, Grant
<1>10. ASSUME NEW c \in Caller, MarkReauthRequired(c) PROVE ExchangeInv'
  BY <1>10, ProcAssumption, AttemptAssumption DEF MarkReauthRequired,
     ClearedRow, Overtakes, Refreshing, Goto, Return, ReleaseThen,
     providerVars, historyVars, TypeOK, Row, Proc, HoldPhase, RefreshPhase,
     ExchangeInv, Exchanged, Grant
<1>11. ASSUME NEW c \in Caller, ReleaseRefreshLease(c) PROVE ExchangeInv'
  BY <1>11, ProcAssumption, AttemptAssumption DEF ReleaseRefreshLease,
     Overtakes, Refreshing, Goto, Return, ReleaseThen, providerVars,
     historyVars, TypeOK, Row, Proc, HoldPhase, RefreshPhase, ExchangeInv,
     Exchanged, Grant
<1>12. ASSUME NEW k \in Connect, Consume(k) PROVE ExchangeInv'
  BY <1>12, ProcAssumption, AttemptAssumption DEF Consume, Goto, Return,
     ReleaseThen, providerVars, historyVars, TypeOK, Row, Proc, HoldPhase,
     RefreshPhase, ExchangeInv, Exchanged, Grant
<1>13. ASSUME NEW k \in Connect, ExchangeCode(k) PROVE ExchangeInv'
  BY <1>13, ProcAssumption, AttemptAssumption DEF ExchangeCode, Goto, Return,
     ReleaseThen, providerVars, historyVars, TypeOK, Row, Proc, HoldPhase,
     RefreshPhase, ExchangeInv, Exchanged, Grant
<1>14. ASSUME NEW k \in Connect, BeginAuthorization(k) PROVE ExchangeInv'
  BY <1>14, ProcAssumption, AttemptAssumption DEF BeginAuthorization,
     ClearedRow, Goto, Return, ReleaseThen, providerVars, historyVars, TypeOK,
     Row, Proc, HoldPhase, RefreshPhase, ExchangeInv, Exchanged, Grant
<1>15. ASSUME NEW k \in Connect, CompleteAuthorization(k) PROVE ExchangeInv'
  BY <1>15, ProcAssumption, AttemptAssumption DEF CompleteAuthorization,
     Refreshing, Goto, Return, ReleaseThen, providerVars, historyVars, TypeOK,
     Row, Proc, HoldPhase, RefreshPhase, ExchangeInv, Exchanged, Grant
<1>16. ASSUME NEW d \in Disconnect, LoadForDisconnect(d) PROVE ExchangeInv'
  BY <1>16, ProcAssumption, AttemptAssumption DEF LoadForDisconnect, Goto,
     Return, ReleaseThen, providerVars, historyVars, TypeOK, Row, Proc,
     HoldPhase, RefreshPhase, ExchangeInv, Exchanged, Grant
<1>17. ASSUME NEW d \in Disconnect, RevokeRemotely(d) PROVE ExchangeInv'
  BY <1>17, ProcAssumption, AttemptAssumption DEF RevokeRemotely, Grantable,
     Goto, Return, ReleaseThen, providerVars, historyVars, TypeOK, Row, Proc,
     HoldPhase, RefreshPhase, ExchangeInv, Exchanged, Grant
<1>18. ASSUME NEW d \in Disconnect, MarkRevoked(d) PROVE ExchangeInv'
  BY <1>18, ProcAssumption, AttemptAssumption DEF MarkRevoked, ClearedRow,
     Goto, Return, ReleaseThen, providerVars, historyVars, TypeOK, Row, Proc,
     HoldPhase, RefreshPhase, ExchangeInv, Exchanged, Grant
<1>19. ASSUME NEW a \in Attempt, OpenAttempt(a) PROVE ExchangeInv'
  BY <1>19, ProcAssumption, AttemptAssumption DEF OpenAttempt, Goto, Return,
     ReleaseThen, providerVars, historyVars, TypeOK, Row, Proc, HoldPhase,
     RefreshPhase, ExchangeInv, Exchanged, Grant
<1>20. ASSUME NEW a \in Attempt, AttemptExpires(a) PROVE ExchangeInv'
  BY <1>20, ProcAssumption, AttemptAssumption DEF AttemptExpires, Goto,
     Return, ReleaseThen, providerVars, historyVars, TypeOK, Row, Proc,
     HoldPhase, RefreshPhase, ExchangeInv, Exchanged, Grant
<1>21. ASSUME NEW p \in Proc, Crash(p) PROVE ExchangeInv'
  BY <1>21, ProcAssumption, AttemptAssumption DEF Crash, Goto, Return,
     ReleaseThen, providerVars, historyVars, TypeOK, Row, Proc, HoldPhase,
     RefreshPhase, ExchangeInv, Exchanged, Grant
<1>22. ASSUME AccessExpires PROVE ExchangeInv'
  BY <1>22, ProcAssumption, AttemptAssumption DEF AccessExpires, Goto, Return,
     ReleaseThen, providerVars, historyVars, TypeOK, Row, Proc, HoldPhase,
     RefreshPhase, ExchangeInv, Exchanged, Grant
<1>23. ASSUME LeaseExpires PROVE ExchangeInv'
  BY <1>23, ProcAssumption, AttemptAssumption DEF LeaseExpires, Refreshing,
     Goto, Return, ReleaseThen, providerVars, historyVars, TypeOK, Row, Proc,
     HoldPhase, RefreshPhase, ExchangeInv, Exchanged, Grant
<1> QED
  BY <1>1, <1>2, <1>3, <1>4, <1>5, <1>6, <1>7, <1>8, <1>9, <1>10, <1>11,
     <1>12, <1>13, <1>14, <1>15, <1>16, <1>17, <1>18, <1>19, <1>20, <1>21,
     <1>22, <1>23 DEF Next, CallerStep, ConnectStep, DisconnectStep

(* Every action keeps LeaseInv. *)
LEMMA LeaseStep == TypeOK /\ LeaseInv /\ [Next]_vars => LeaseInv'
<1> SUFFICES ASSUME TypeOK, LeaseInv, [Next]_vars PROVE LeaseInv'
  OBVIOUS
<1>1. ASSUME UNCHANGED vars PROVE LeaseInv'
  BY <1>1, ProcAssumption DEF vars, Goto, Return, ReleaseThen, providerVars,
     historyVars, TypeOK, Row, Proc, HoldPhase, RefreshPhase, LeaseInv,
     Holding
<1>2. ASSUME AllDone PROVE LeaseInv'
  BY <1>2, ProcAssumption DEF AllDone, vars, Goto, Return, ReleaseThen,
     providerVars, historyVars, TypeOK, Row, Proc, HoldPhase, RefreshPhase,
     LeaseInv, Holding
<1>3. ASSUME NEW c \in Caller, Load(c) PROVE LeaseInv'
  BY <1>3, ProcAssumption DEF Load, Goto, Return, ReleaseThen, providerVars,
     historyVars, TypeOK, Row, Proc, HoldPhase, RefreshPhase, LeaseInv,
     Holding
<1>4. ASSUME NEW c \in Caller, TakeRefreshLease(c) PROVE LeaseInv'
  BY <1>4, ProcAssumption DEF TakeRefreshLease, Goto, Return, ReleaseThen,
     providerVars, historyVars, TypeOK, Row, Proc, HoldPhase, RefreshPhase,
     LeaseInv, Holding
<1>5. ASSUME NEW c \in Caller, AwaitHolder(c) PROVE LeaseInv'
  BY <1>5, ProcAssumption DEF AwaitHolder, Goto, Return, ReleaseThen,
     providerVars, historyVars, TypeOK, Row, Proc, HoldPhase, RefreshPhase,
     LeaseInv, Holding
<1>6. ASSUME NEW c \in Caller, Reload(c) PROVE LeaseInv'
  BY <1>6, ProcAssumption DEF Reload, Goto, Return, ReleaseThen, providerVars,
     historyVars, TypeOK, Row, Proc, HoldPhase, RefreshPhase, LeaseInv,
     Holding
<1>7. ASSUME NEW c \in Caller, Prepare(c) PROVE LeaseInv'
  BY <1>7, ProcAssumption DEF Prepare, Goto, Return, ReleaseThen,
     providerVars, historyVars, TypeOK, Row, Proc, HoldPhase, RefreshPhase,
     LeaseInv, Holding
<1>8. ASSUME NEW c \in Caller, RefreshTokens(c) PROVE LeaseInv'
  BY <1>8, ProcAssumption DEF RefreshTokens, Granted, GrantUnused, Grants,
     Rejected, Unreached, Goto, Return, ReleaseThen, providerVars,
     historyVars, TypeOK, Row, Proc, HoldPhase, RefreshPhase, LeaseInv,
     Holding
<1>9. ASSUME NEW c \in Caller, ApplyRefresh(c) PROVE LeaseInv'
  BY <1>9, ProcAssumption DEF ApplyRefresh, Renewed, Overtakes, Refreshing,
     Goto, Return, ReleaseThen, providerVars, historyVars, TypeOK, Row, Proc,
     HoldPhase, RefreshPhase, LeaseInv, Holding
<1>10. ASSUME NEW c \in Caller, MarkReauthRequired(c) PROVE LeaseInv'
  <2>1. /\ \A b \in Caller : phase'[b] = IF b = c THEN "done" ELSE phase[b]
        /\ UNCHANGED <<held, refused>>
    BY <1>10 DEF MarkReauthRequired, Return, TypeOK, Proc
  <2>2. overtaken \subseteq overtaken' /\ (UNCHANGED row \/ row'.status = "reauth")
    BY <1>10 DEF MarkReauthRequired, ClearedRow, Overtakes, TypeOK, Row
  <2> QED
    BY <2>1, <2>2 DEF LeaseInv, Holding, HoldPhase
<1>11. ASSUME NEW c \in Caller, ReleaseRefreshLease(c) PROVE LeaseInv'
  BY <1>11, ProcAssumption DEF ReleaseRefreshLease, Overtakes, Refreshing,
     Goto, Return, ReleaseThen, providerVars, historyVars, TypeOK, Row, Proc,
     HoldPhase, RefreshPhase, LeaseInv, Holding
<1>12. ASSUME NEW k \in Connect, Consume(k) PROVE LeaseInv'
  BY <1>12, ProcAssumption DEF Consume, Goto, Return, ReleaseThen,
     providerVars, historyVars, TypeOK, Row, Proc, HoldPhase, RefreshPhase,
     LeaseInv, Holding
<1>13. ASSUME NEW k \in Connect, ExchangeCode(k) PROVE LeaseInv'
  BY <1>13, ProcAssumption DEF ExchangeCode, Goto, Return, ReleaseThen,
     providerVars, historyVars, TypeOK, Row, Proc, HoldPhase, RefreshPhase,
     LeaseInv, Holding
<1>14. ASSUME NEW k \in Connect, BeginAuthorization(k) PROVE LeaseInv'
  BY <1>14, ProcAssumption DEF BeginAuthorization, ClearedRow, Goto, Return,
     ReleaseThen, providerVars, historyVars, TypeOK, Row, Proc, HoldPhase,
     RefreshPhase, LeaseInv, Holding
<1>15. ASSUME NEW k \in Connect, CompleteAuthorization(k) PROVE LeaseInv'
  BY <1>15, ProcAssumption DEF CompleteAuthorization, Refreshing, Goto,
     Return, ReleaseThen, providerVars, historyVars, TypeOK, Row, Proc,
     HoldPhase, RefreshPhase, LeaseInv, Holding
<1>16. ASSUME NEW d \in Disconnect, LoadForDisconnect(d) PROVE LeaseInv'
  BY <1>16, ProcAssumption DEF LoadForDisconnect, Goto, Return, ReleaseThen,
     providerVars, historyVars, TypeOK, Row, Proc, HoldPhase, RefreshPhase,
     LeaseInv, Holding
<1>17. ASSUME NEW d \in Disconnect, RevokeRemotely(d) PROVE LeaseInv'
  BY <1>17, ProcAssumption DEF RevokeRemotely, Grantable, Goto, Return,
     ReleaseThen, providerVars, historyVars, TypeOK, Row, Proc, HoldPhase,
     RefreshPhase, LeaseInv, Holding
<1>18. ASSUME NEW d \in Disconnect, MarkRevoked(d) PROVE LeaseInv'
  <2>1. row' = row \/ row'.status = "revoked"
    BY <1>18 DEF MarkRevoked, ClearedRow, TypeOK, Row
  <2>2. UNCHANGED <<held, refused, overtaken>> /\ \A c \in Caller : phase'[c] = phase[c]
    BY <1>18, ProcAssumption DEF MarkRevoked, Return, historyVars, TypeOK, Proc
  <2> QED
    BY <2>1, <2>2 DEF LeaseInv, Holding
<1>19. ASSUME NEW a \in Attempt, OpenAttempt(a) PROVE LeaseInv'
  BY <1>19, ProcAssumption DEF OpenAttempt, Goto, Return, ReleaseThen,
     providerVars, historyVars, TypeOK, Row, Proc, HoldPhase, RefreshPhase,
     LeaseInv, Holding
<1>20. ASSUME NEW a \in Attempt, AttemptExpires(a) PROVE LeaseInv'
  BY <1>20, ProcAssumption DEF AttemptExpires, Goto, Return, ReleaseThen,
     providerVars, historyVars, TypeOK, Row, Proc, HoldPhase, RefreshPhase,
     LeaseInv, Holding
<1>21. ASSUME NEW p \in Proc, Crash(p) PROVE LeaseInv'
  BY <1>21, ProcAssumption DEF Crash, Goto, Return, ReleaseThen, providerVars,
     historyVars, TypeOK, Row, Proc, HoldPhase, RefreshPhase, LeaseInv,
     Holding
<1>22. ASSUME AccessExpires PROVE LeaseInv'
  BY <1>22, ProcAssumption DEF AccessExpires, Goto, Return, ReleaseThen,
     providerVars, historyVars, TypeOK, Row, Proc, HoldPhase, RefreshPhase,
     LeaseInv, Holding
<1>23. ASSUME LeaseExpires PROVE LeaseInv'
  BY <1>23, ProcAssumption DEF LeaseExpires, Refreshing, Goto, Return,
     ReleaseThen, providerVars, historyVars, TypeOK, Row, Proc, HoldPhase,
     RefreshPhase, LeaseInv, Holding
<1> QED
  BY <1>1, <1>2, <1>3, <1>4, <1>5, <1>6, <1>7, <1>8, <1>9, <1>10, <1>11,
     <1>12, <1>13, <1>14, <1>15, <1>16, <1>17, <1>18, <1>19, <1>20, <1>21,
     <1>22, <1>23 DEF Next, CallerStep, ConnectStep, DisconnectStep

(* Every action keeps HolderInv. *)
LEMMA HolderStep == TypeOK /\ CallerInv /\ OnlyActiveHoldsTokens /\ LeaseInv /\ HolderInv /\ [Next]_vars => HolderInv'
<1> SUFFICES ASSUME TypeOK, CallerInv, OnlyActiveHoldsTokens, LeaseInv, HolderInv, [Next]_vars PROVE HolderInv'
  OBVIOUS
<1>1. ASSUME UNCHANGED vars PROVE HolderInv'
  BY <1>1, ProcAssumption DEF vars, Goto, Return, ReleaseThen, providerVars,
     historyVars, TypeOK, Row, Proc, HoldPhase, RefreshPhase, LeaseInv,
     Holding, CallerInv, HolderInv, OnlyActiveHoldsTokens
<1>2. ASSUME AllDone PROVE HolderInv'
  BY <1>2, ProcAssumption DEF AllDone, vars, Goto, Return, ReleaseThen,
     providerVars, historyVars, TypeOK, Row, Proc, HoldPhase, RefreshPhase,
     LeaseInv, Holding, CallerInv, HolderInv, OnlyActiveHoldsTokens
<1>3. ASSUME NEW c \in Caller, Load(c) PROVE HolderInv'
  BY <1>3, ProcAssumption DEF Load, Goto, Return, ReleaseThen, providerVars,
     historyVars, TypeOK, Row, Proc, HoldPhase, RefreshPhase, LeaseInv,
     Holding, CallerInv, HolderInv, OnlyActiveHoldsTokens
<1>4. ASSUME NEW c \in Caller, TakeRefreshLease(c) PROVE HolderInv'
  BY <1>4, ProcAssumption DEF TakeRefreshLease, Goto, Return, ReleaseThen,
     providerVars, historyVars, TypeOK, Row, Proc, HoldPhase, RefreshPhase,
     LeaseInv, Holding, CallerInv, HolderInv, OnlyActiveHoldsTokens
<1>5. ASSUME NEW c \in Caller, AwaitHolder(c) PROVE HolderInv'
  BY <1>5, ProcAssumption DEF AwaitHolder, Goto, Return, ReleaseThen,
     providerVars, historyVars, TypeOK, Row, Proc, HoldPhase, RefreshPhase,
     LeaseInv, Holding, CallerInv, HolderInv, OnlyActiveHoldsTokens
<1>6. ASSUME NEW c \in Caller, Reload(c) PROVE HolderInv'
  BY <1>6, ProcAssumption DEF Reload, Goto, Return, ReleaseThen, providerVars,
     historyVars, TypeOK, Row, Proc, HoldPhase, RefreshPhase, LeaseInv,
     Holding, CallerInv, HolderInv, OnlyActiveHoldsTokens
<1>7. ASSUME NEW c \in Caller, Prepare(c) PROVE HolderInv'
  BY <1>7, ProcAssumption DEF Prepare, Goto, Return, ReleaseThen,
     providerVars, historyVars, TypeOK, Row, Proc, HoldPhase, RefreshPhase,
     LeaseInv, Holding, CallerInv, HolderInv, OnlyActiveHoldsTokens
<1>8. ASSUME NEW c \in Caller, RefreshTokens(c) PROVE HolderInv'
  BY <1>8, ProcAssumption DEF RefreshTokens, Granted, GrantUnused, Grants,
     Rejected, Unreached, Goto, Return, ReleaseThen, providerVars,
     historyVars, TypeOK, Row, Proc, HoldPhase, RefreshPhase, LeaseInv,
     Holding, CallerInv, HolderInv, OnlyActiveHoldsTokens
<1>9. ASSUME NEW c \in Caller, ApplyRefresh(c) PROVE HolderInv'
  BY <1>9, ProcAssumption DEF ApplyRefresh, Renewed, Overtakes, Refreshing,
     Goto, Return, ReleaseThen, providerVars, historyVars, TypeOK, Row, Proc,
     HoldPhase, RefreshPhase, LeaseInv, Holding, CallerInv, HolderInv,
     OnlyActiveHoldsTokens
<1>10. ASSUME NEW c \in Caller, MarkReauthRequired(c) PROVE HolderInv'
  <2>1. /\ \A b \in Caller : phase'[b] = IF b = c THEN "done" ELSE phase[b]
        /\ UNCHANGED <<held, refused>>
    BY <1>10 DEF MarkReauthRequired, Return, TypeOK, Proc
  <2>2. overtaken \subseteq overtaken' /\ (UNCHANGED row \/ row'.status = "reauth")
    BY <1>10 DEF MarkReauthRequired, ClearedRow, Overtakes, TypeOK, Row
  <2> QED
    BY <2>1, <2>2 DEF HolderInv
<1>11. ASSUME NEW c \in Caller, ReleaseRefreshLease(c) PROVE HolderInv'
  BY <1>11, ProcAssumption DEF ReleaseRefreshLease, Overtakes, Refreshing,
     Goto, Return, ReleaseThen, providerVars, historyVars, TypeOK, Row, Proc,
     HoldPhase, RefreshPhase, LeaseInv, Holding, CallerInv, HolderInv,
     OnlyActiveHoldsTokens
<1>12. ASSUME NEW k \in Connect, Consume(k) PROVE HolderInv'
  BY <1>12, ProcAssumption DEF Consume, Goto, Return, ReleaseThen,
     providerVars, historyVars, TypeOK, Row, Proc, HoldPhase, RefreshPhase,
     LeaseInv, Holding, CallerInv, HolderInv, OnlyActiveHoldsTokens
<1>13. ASSUME NEW k \in Connect, ExchangeCode(k) PROVE HolderInv'
  BY <1>13, ProcAssumption DEF ExchangeCode, Goto, Return, ReleaseThen,
     providerVars, historyVars, TypeOK, Row, Proc, HoldPhase, RefreshPhase,
     LeaseInv, Holding, CallerInv, HolderInv, OnlyActiveHoldsTokens
<1>14. ASSUME NEW k \in Connect, BeginAuthorization(k) PROVE HolderInv'
  BY <1>14, ProcAssumption DEF BeginAuthorization, ClearedRow, Goto, Return,
     ReleaseThen, providerVars, historyVars, TypeOK, Row, Proc, HoldPhase,
     RefreshPhase, LeaseInv, Holding, CallerInv, HolderInv,
     OnlyActiveHoldsTokens
<1>15. ASSUME NEW k \in Connect, CompleteAuthorization(k) PROVE HolderInv'
  BY <1>15, ProcAssumption DEF CompleteAuthorization, Refreshing, Goto,
     Return, ReleaseThen, providerVars, historyVars, TypeOK, Row, Proc,
     HoldPhase, RefreshPhase, LeaseInv, Holding, CallerInv, HolderInv,
     OnlyActiveHoldsTokens
<1>16. ASSUME NEW d \in Disconnect, LoadForDisconnect(d) PROVE HolderInv'
  BY <1>16, ProcAssumption DEF LoadForDisconnect, Goto, Return, ReleaseThen,
     providerVars, historyVars, TypeOK, Row, Proc, HoldPhase, RefreshPhase,
     LeaseInv, Holding, CallerInv, HolderInv, OnlyActiveHoldsTokens
<1>17. ASSUME NEW d \in Disconnect, RevokeRemotely(d) PROVE HolderInv'
  BY <1>17, ProcAssumption DEF RevokeRemotely, Grantable, Goto, Return,
     ReleaseThen, providerVars, historyVars, TypeOK, Row, Proc, HoldPhase,
     RefreshPhase, LeaseInv, Holding, CallerInv, HolderInv,
     OnlyActiveHoldsTokens
<1>18. ASSUME NEW d \in Disconnect, MarkRevoked(d) PROVE HolderInv'
  <2>1. row' = row \/ row'.status = "revoked"
    BY <1>18 DEF MarkRevoked, ClearedRow, TypeOK, Row
  <2>2. UNCHANGED <<held, refused, overtaken>> /\ \A c \in Caller : phase'[c] = phase[c]
    BY <1>18, ProcAssumption DEF MarkRevoked, Return, historyVars, TypeOK, Proc
  <2> QED
    BY <2>1, <2>2 DEF HolderInv
<1>19. ASSUME NEW a \in Attempt, OpenAttempt(a) PROVE HolderInv'
  BY <1>19, ProcAssumption DEF OpenAttempt, Goto, Return, ReleaseThen,
     providerVars, historyVars, TypeOK, Row, Proc, HoldPhase, RefreshPhase,
     LeaseInv, Holding, CallerInv, HolderInv, OnlyActiveHoldsTokens
<1>20. ASSUME NEW a \in Attempt, AttemptExpires(a) PROVE HolderInv'
  BY <1>20, ProcAssumption DEF AttemptExpires, Goto, Return, ReleaseThen,
     providerVars, historyVars, TypeOK, Row, Proc, HoldPhase, RefreshPhase,
     LeaseInv, Holding, CallerInv, HolderInv, OnlyActiveHoldsTokens
<1>21. ASSUME NEW p \in Proc, Crash(p) PROVE HolderInv'
  BY <1>21, ProcAssumption DEF Crash, Goto, Return, ReleaseThen, providerVars,
     historyVars, TypeOK, Row, Proc, HoldPhase, RefreshPhase, LeaseInv,
     Holding, CallerInv, HolderInv, OnlyActiveHoldsTokens
<1>22. ASSUME AccessExpires PROVE HolderInv'
  BY <1>22, ProcAssumption DEF AccessExpires, Goto, Return, ReleaseThen,
     providerVars, historyVars, TypeOK, Row, Proc, HoldPhase, RefreshPhase,
     LeaseInv, Holding, CallerInv, HolderInv, OnlyActiveHoldsTokens
<1>23. ASSUME LeaseExpires PROVE HolderInv'
  BY <1>23, ProcAssumption DEF LeaseExpires, Refreshing, Goto, Return,
     ReleaseThen, providerVars, historyVars, TypeOK, Row, Proc, HoldPhase,
     RefreshPhase, LeaseInv, Holding, CallerInv, HolderInv,
     OnlyActiveHoldsTokens
<1> QED
  BY <1>1, <1>2, <1>3, <1>4, <1>5, <1>6, <1>7, <1>8, <1>9, <1>10, <1>11,
     <1>12, <1>13, <1>14, <1>15, <1>16, <1>17, <1>18, <1>19, <1>20, <1>21,
     <1>22, <1>23 DEF Next, CallerStep, ConnectStep, DisconnectStep

(* The tokens that the row and the callers hold are of known grants. *)
LEMMA KnownTokens ==
  ASSUME TypeOK
  PROVE  /\ row.refresh # NoToken => row.refresh \in Token
         /\ \A c \in Caller : held[c] # NoToken => held[c] \in Token
         /\ \A c \in Caller : reply[c] # NoToken => reply[c] \in Token
         /\ \A t \in Token : t[1] \in Grant /\ t[2] \in 0 .. MaxRotations
BY DEF TypeOK, Row, OptToken, Token

(* What a refresh does to the tokens: the provider spends the one presented *)
(* and the answer is used or not, or it does not. *)
LEMMA RefreshShape ==
  ASSUME TypeOK, CallerInv, NEW c \in Caller, RefreshTokens(c)
  PROVE  /\ phase[c] = "spend" /\ held[c] \in Token /\ UNCHANGED <<row, held>>
         /\ \A p \in Proc : p # c => phase'[p] = phase[p]
         /\ \/ phase'[c] \in {"mark", "release"} /\ UNCHANGED <<cur, reply, lost>>
            \/ \E n \in {held[c][2], held[c][2] + 1} :
                 /\ cur[held[c][1]] = held[c][2] /\ n <= MaxRotations
                 /\ cur' = [cur EXCEPT ![held[c][1]] = n]
                 /\ reply' = [reply EXCEPT ![c] = <<held[c][1], n>>]
                 /\ \/ phase'[c] = "apply" /\ lost' = lost
                    \/ /\ phase'[c] \in {"mark", "release"}
                       /\ lost' = IF n = held[c][2] THEN lost ELSE lost \cup {held[c]}
<1>1. phase[c] = "spend" /\ held[c] \in Token /\ UNCHANGED <<row, held>>
  BY SpendsToken DEF RefreshTokens
<1>2. ASSUME Granted(c, held[c]) \/ GrantUnused(c, held[c])
      PROVE  \E n \in {held[c][2], held[c][2] + 1} :
               /\ Grants(c, held[c], n)
               /\ \/ phase'[c] = "apply" /\ lost' = lost
                  \/ /\ phase'[c] \in {"mark", "release"}
                     /\ lost' = IF n = held[c][2] THEN lost ELSE lost \cup {held[c]}
  BY <1>1, <1>2 DEF Granted, GrantUnused, Goto, ReleaseThen, TypeOK, Proc
<1>3. ASSUME Rejected(c, held[c]) \/ Unreached(c)
      PROVE  phase'[c] \in {"mark", "release"} /\ UNCHANGED <<cur, reply, lost>>
  BY <1>1, <1>3 DEF Rejected, Unreached, Goto, ReleaseThen, TypeOK, Proc
<1>4. \A p \in Proc : p # c => phase'[p] = phase[p]
  BY DEF RefreshTokens, Granted, GrantUnused, Rejected, Unreached, Goto, ReleaseThen, TypeOK, Proc
<1> QED
  BY <1>1, <1>2, <1>3, <1>4 DEF RefreshTokens, Grants, Grantable

(* What applyRefresh does to them. *)
LEMMA ApplyShape ==
  ASSUME TypeOK, OnlyActiveHoldsTokens, NEW c \in Caller, ApplyRefresh(c)
  PROVE  /\ phase[c] = "apply" /\ phase'[c] \in {"done", "release"}
         /\ UNCHANGED <<held, reply, cur, lost>>
         /\ \A p \in Proc : p # c => phase'[p] = phase[p]
         /\ row'.refresh = IF row.status = "active" /\ Fresh(c) THEN reply[c] ELSE row.refresh
         /\ row.status # "active" => row.refresh = NoToken
<1>1. /\ phase[c] = "apply" /\ phase'[c] \in {"done", "release"}
      /\ UNCHANGED <<held, reply, cur, lost>>
      /\ \A p \in Proc : p # c => phase'[p] = phase[p]
  BY DEF ApplyRefresh, Return, ReleaseThen, providerVars, TypeOK, Proc
<1>2. row'.refresh = IF row.status = "active" /\ Fresh(c) THEN reply[c] ELSE row.refresh
  BY <1>1 DEF ApplyRefresh, Renewed, Fresh, TypeOK, Row
<1> QED
  BY <1>1, <1>2 DEF OnlyActiveHoldsTokens


(* Every action keeps GrantInv. *)
LEMMA GrantStep == TypeOK /\ CallerInv /\ OnlyActiveHoldsTokens /\ OrderInv /\ GrantInv /\ [Next]_vars => GrantInv'
<1> SUFFICES ASSUME TypeOK, CallerInv, OnlyActiveHoldsTokens, OrderInv, GrantInv, [Next]_vars PROVE GrantInv'
  OBVIOUS
<1>1. ASSUME UNCHANGED vars PROVE GrantInv'
  BY <1>1, ProcAssumption DEF vars, Goto, Return, ReleaseThen, providerVars,
     historyVars, TypeOK, Row, Proc, HoldPhase, RefreshPhase, GrantInv, Unmet
<1>2. ASSUME AllDone PROVE GrantInv'
  BY <1>2, ProcAssumption DEF AllDone, vars, Goto, Return, ReleaseThen,
     providerVars, historyVars, TypeOK, Row, Proc, HoldPhase, RefreshPhase,
     GrantInv, Unmet
<1>3. ASSUME NEW c \in Caller, Load(c) PROVE GrantInv'
  BY <1>3, ProcAssumption DEF Load, Goto, Return, ReleaseThen, providerVars,
     historyVars, TypeOK, Row, Proc, HoldPhase, RefreshPhase, GrantInv, Unmet
<1>4. ASSUME NEW c \in Caller, TakeRefreshLease(c) PROVE GrantInv'
  BY <1>4, ProcAssumption DEF TakeRefreshLease, Goto, Return, ReleaseThen,
     providerVars, historyVars, TypeOK, Row, Proc, HoldPhase, RefreshPhase,
     GrantInv, Unmet
<1>5. ASSUME NEW c \in Caller, AwaitHolder(c) PROVE GrantInv'
  BY <1>5, ProcAssumption DEF AwaitHolder, Goto, Return, ReleaseThen,
     providerVars, historyVars, TypeOK, Row, Proc, HoldPhase, RefreshPhase,
     GrantInv, Unmet
<1>6. ASSUME NEW c \in Caller, Reload(c) PROVE GrantInv'
  BY <1>6, ProcAssumption DEF Reload, Goto, Return, ReleaseThen, providerVars,
     historyVars, TypeOK, Row, Proc, HoldPhase, RefreshPhase, GrantInv, Unmet
<1>7. ASSUME NEW c \in Caller, Prepare(c) PROVE GrantInv'
  BY <1>7, ProcAssumption DEF Prepare, Goto, Return, ReleaseThen,
     providerVars, historyVars, TypeOK, Row, Proc, HoldPhase, RefreshPhase,
     GrantInv, Unmet
<1>8. ASSUME NEW c \in Caller, RefreshTokens(c) PROVE GrantInv'
  <2>1. /\ UNCHANGED <<row, held>> /\ held[c] \in Token /\ \A k \in Connect : phase'[k] = phase[k]
        /\ \A g \in Grant : g # held[c][1] => cur'[g] = cur[g]
    BY <1>8, RefreshShape, ProcAssumption DEF TypeOK, Proc
  <2> QED
    BY <2>1, ProcAssumption DEF GrantInv, Unmet, Grant
<1>9. ASSUME NEW c \in Caller, ApplyRefresh(c) PROVE GrantInv'
  <2>1. /\ UNCHANGED <<held, cur>> /\ \A k \in Connect : phase'[k] = phase[k]
        /\ row'.refresh = IF row.status = "active" /\ Fresh(c) THEN reply[c] ELSE row.refresh
    BY <1>9, ApplyShape, ProcAssumption DEF Proc
  <2>2. Fresh(c) => reply[c][1] = held[c][1] /\ held[c] # NoToken
    BY DEF OrderInv, CallerInv, Fresh
  <2> QED
    BY <2>1, <2>2 DEF GrantInv, Unmet
<1>10. ASSUME NEW c \in Caller, MarkReauthRequired(c) PROVE GrantInv'
  <2>1. row' = row \/ row' = ClearedRow("reauth")
    BY <1>10 DEF MarkReauthRequired
  <2>2. row'.refresh \in {row.refresh, NoToken}
    BY <2>1 DEF ClearedRow, TypeOK, Row
  <2>3. UNCHANGED <<held, cur>> /\ \A k \in Connect : phase'[k] = phase[k]
    BY <1>10, ProcAssumption DEF MarkReauthRequired, Return, providerVars, TypeOK, Proc
  <2> QED
    BY <2>2, <2>3 DEF GrantInv, Unmet
<1>11. ASSUME NEW c \in Caller, ReleaseRefreshLease(c) PROVE GrantInv'
  BY <1>11, ProcAssumption DEF ReleaseRefreshLease, Overtakes, Refreshing,
     Goto, Return, ReleaseThen, providerVars, historyVars, TypeOK, Row, Proc,
     HoldPhase, RefreshPhase, GrantInv, Unmet
<1>12. ASSUME NEW k \in Connect, Consume(k) PROVE GrantInv'
  BY <1>12, ProcAssumption DEF Consume, Goto, Return, ReleaseThen,
     providerVars, historyVars, TypeOK, Row, Proc, HoldPhase, RefreshPhase,
     GrantInv, Unmet
<1>13. ASSUME NEW k \in Connect, ExchangeCode(k) PROVE GrantInv'
  <2>1. /\ UNCHANGED <<row, held>> /\ phase[k] = "exchange" /\ phase'[k] \in {"begin", "done"}
        /\ \A j \in Connect : j # k => phase'[j] = phase[j]
        /\ phase'[k] = "begin" => cur'[k] = 0
        /\ \A j \in Connect : j # k => cur'[j] = cur[j]
    BY <1>13 DEF ExchangeCode, Goto, Return, TypeOK, Proc, Grant
  <2> QED
    BY <2>1 DEF GrantInv, Unmet
<1>14. ASSUME NEW k \in Connect, BeginAuthorization(k) PROVE GrantInv'
  BY <1>14, ProcAssumption DEF BeginAuthorization, ClearedRow, Goto, Return,
     ReleaseThen, providerVars, historyVars, TypeOK, Row, Proc, HoldPhase,
     RefreshPhase, GrantInv, Unmet
<1>15. ASSUME NEW k \in Connect, CompleteAuthorization(k) PROVE GrantInv'
  BY <1>15, ProcAssumption DEF CompleteAuthorization, Refreshing, Goto,
     Return, ReleaseThen, providerVars, historyVars, TypeOK, Row, Proc,
     HoldPhase, RefreshPhase, GrantInv, Unmet
<1>16. ASSUME NEW d \in Disconnect, LoadForDisconnect(d) PROVE GrantInv'
  BY <1>16, ProcAssumption DEF LoadForDisconnect, Goto, Return, ReleaseThen,
     providerVars, historyVars, TypeOK, Row, Proc, HoldPhase, RefreshPhase,
     GrantInv, Unmet
<1>17. ASSUME NEW d \in Disconnect, RevokeRemotely(d) PROVE GrantInv'
  BY <1>17, ProcAssumption DEF RevokeRemotely, Grantable, Goto, Return,
     ReleaseThen, providerVars, historyVars, TypeOK, Row, Proc, HoldPhase,
     RefreshPhase, GrantInv, Unmet
<1>18. ASSUME NEW d \in Disconnect, MarkRevoked(d) PROVE GrantInv'
  <2>1. row' = row \/ row' = ClearedRow("revoked")
    BY <1>18 DEF MarkRevoked
  <2>2. row'.refresh \in {row.refresh, NoToken}
    BY <2>1 DEF ClearedRow, TypeOK, Row
  <2>3. UNCHANGED <<held, cur>>
    BY <1>18 DEF MarkRevoked, providerVars, historyVars
  <2>4. phase' = [phase EXCEPT ![d] = "done"]
    BY <1>18 DEF MarkRevoked, Return
  <2>5. \A p \in Connect : phase'[p] = phase[p]
    BY <2>4, ProcAssumption DEF TypeOK, Proc
  <2> QED
    BY <2>2, <2>3, <2>5 DEF GrantInv, Unmet
<1>19. ASSUME NEW a \in Attempt, OpenAttempt(a) PROVE GrantInv'
  BY <1>19, ProcAssumption DEF OpenAttempt, Goto, Return, ReleaseThen,
     providerVars, historyVars, TypeOK, Row, Proc, HoldPhase, RefreshPhase,
     GrantInv, Unmet
<1>20. ASSUME NEW a \in Attempt, AttemptExpires(a) PROVE GrantInv'
  BY <1>20, ProcAssumption DEF AttemptExpires, Goto, Return, ReleaseThen,
     providerVars, historyVars, TypeOK, Row, Proc, HoldPhase, RefreshPhase,
     GrantInv, Unmet
<1>21. ASSUME NEW p \in Proc, Crash(p) PROVE GrantInv'
  BY <1>21, ProcAssumption DEF Crash, Goto, Return, ReleaseThen, providerVars,
     historyVars, TypeOK, Row, Proc, HoldPhase, RefreshPhase, GrantInv, Unmet
<1>22. ASSUME AccessExpires PROVE GrantInv'
  BY <1>22, ProcAssumption DEF AccessExpires, Goto, Return, ReleaseThen,
     providerVars, historyVars, TypeOK, Row, Proc, HoldPhase, RefreshPhase,
     GrantInv, Unmet
<1>23. ASSUME LeaseExpires PROVE GrantInv'
  BY <1>23, ProcAssumption DEF LeaseExpires, Refreshing, Goto, Return,
     ReleaseThen, providerVars, historyVars, TypeOK, Row, Proc, HoldPhase,
     RefreshPhase, GrantInv, Unmet
<1> QED
  BY <1>1, <1>2, <1>3, <1>4, <1>5, <1>6, <1>7, <1>8, <1>9, <1>10, <1>11,
     <1>12, <1>13, <1>14, <1>15, <1>16, <1>17, <1>18, <1>19, <1>20, <1>21,
     <1>22, <1>23 DEF Next, CallerStep, ConnectStep, DisconnectStep

(* Every action keeps OrderInv. *)
LEMMA OrderStep == TypeOK /\ CallerInv /\ OnlyActiveHoldsTokens /\ GrantInv /\ OrderInv /\ [Next]_vars => OrderInv'
<1> SUFFICES ASSUME TypeOK, CallerInv, OnlyActiveHoldsTokens, GrantInv, OrderInv, [Next]_vars PROVE OrderInv'
  OBVIOUS
<1>1. ASSUME UNCHANGED vars PROVE OrderInv'
  BY <1>1, ProcAssumption DEF vars, Goto, Return, ReleaseThen, providerVars,
     historyVars, TypeOK, Row, Proc, HoldPhase, RefreshPhase, OrderInv,
     Reached, Fresh
<1>2. ASSUME AllDone PROVE OrderInv'
  BY <1>2, ProcAssumption DEF AllDone, vars, Goto, Return, ReleaseThen,
     providerVars, historyVars, TypeOK, Row, Proc, HoldPhase, RefreshPhase,
     OrderInv, Reached, Fresh
<1>3. ASSUME NEW c \in Caller, Load(c) PROVE OrderInv'
  BY <1>3, ProcAssumption DEF Load, Goto, Return, ReleaseThen, providerVars,
     historyVars, TypeOK, Row, Proc, HoldPhase, RefreshPhase, OrderInv,
     Reached, Fresh
<1>4. ASSUME NEW c \in Caller, TakeRefreshLease(c) PROVE OrderInv'
  BY <1>4, ProcAssumption DEF TakeRefreshLease, Goto, Return, ReleaseThen,
     providerVars, historyVars, TypeOK, Row, Proc, HoldPhase, RefreshPhase,
     OrderInv, Reached, Fresh
<1>5. ASSUME NEW c \in Caller, AwaitHolder(c) PROVE OrderInv'
  BY <1>5, ProcAssumption DEF AwaitHolder, Goto, Return, ReleaseThen,
     providerVars, historyVars, TypeOK, Row, Proc, HoldPhase, RefreshPhase,
     OrderInv, Reached, Fresh
<1>6. ASSUME NEW c \in Caller, Reload(c) PROVE OrderInv'
  BY <1>6, ProcAssumption DEF Reload, Goto, Return, ReleaseThen, providerVars,
     historyVars, TypeOK, Row, Proc, HoldPhase, RefreshPhase, OrderInv,
     Reached, Fresh
<1>7. ASSUME NEW c \in Caller, Prepare(c) PROVE OrderInv'
  BY <1>7, ProcAssumption DEF Prepare, Goto, Return, ReleaseThen,
     providerVars, historyVars, TypeOK, Row, Proc, HoldPhase, RefreshPhase,
     OrderInv, Reached, Fresh
<1>8. ASSUME NEW c \in Caller, RefreshTokens(c) PROVE OrderInv'
  <2> DEFINE t == held[c]
  <2>1. /\ phase[c] = "spend" /\ t \in Token /\ UNCHANGED <<row, held>>
        /\ t[1] \in Grant /\ t[2] \in 0 .. MaxRotations /\ ~Fresh(c)
        /\ \A b \in Caller : b # c => phase'[b] = phase[b]
    BY <1>8, RefreshShape, KnownTokens, ProcAssumption DEF Proc, Fresh
  <2>2. CASE phase'[c] \in {"mark", "release"} /\ UNCHANGED <<cur, reply>>
    BY <2>1, <2>2 DEF OrderInv, Reached, Fresh
  <2>3. ASSUME NEW n \in {t[2], t[2] + 1}, cur[t[1]] = t[2], n <= MaxRotations,
               cur' = [cur EXCEPT ![t[1]] = n], reply' = [reply EXCEPT ![c] = <<t[1], n>>]
        PROVE  OrderInv'
    <3>1. /\ \A g \in Grant : cur'[g] = (IF g = t[1] THEN n ELSE cur[g]) /\ cur[g] \in Int
          /\ \A b \in Caller : reply'[b] = IF b = c THEN <<t[1], n>> ELSE reply[b]
          /\ n \in Nat /\ cur[t[1]] <= n
      BY <2>1, <2>3 DEF TypeOK
    <3>2. \A b \in Caller : Fresh(b) /\ reply[b][1] = t[1] => FALSE
      BY <2>1, <2>3, ProcAssumption, KnownTokens DEF OrderInv, Reached
    <3>3. \A b \in Caller : b # c => (Fresh(b)' <=> Fresh(b)) /\ reply'[b] = reply[b]
      BY <2>1, <3>1 DEF Fresh
    <3>4. Fresh(c)' => n = t[2] + 1
      <4>1. t = <<t[1], t[2]>>
        BY <2>1 DEF Token
      <4> QED
        BY <2>1, <3>1, <4>1 DEF Fresh
    <3>5. ASSUME NEW u \in Token, Reached(u) PROVE Reached(u)'
      <4>1. u[1] \in Grant /\ u[2] \in Int /\ u[2] <= cur[u[1]]
        BY <3>5, KnownTokens, ProcAssumption DEF Reached
      <4>2. u[2] <= cur'[u[1]]
        BY <2>3, <3>1, <4>1
      <4>3. ASSUME NEW b \in Caller, Fresh(b)', reply'[b][1] = u[1] PROVE u[2] < reply'[b][2]
        <5>1. CASE b = c
          BY <2>1, <2>3, <3>1, <3>4, <4>1, <4>3, <5>1
        <5>2. CASE b # c
          BY <3>3, <3>5, <4>3, <5>2, ProcAssumption DEF Reached
        <5> QED
          BY <5>1, <5>2
      <4> QED
        BY <4>2, <4>3 DEF Reached
    <3>6. Reached(row.refresh)' /\ \A b \in Caller : Reached(held[b])'
      <4>1. \A u : u \in Token /\ Reached(u) => Reached(u)'
        BY <3>5
      <4>2. Reached(NoToken)'
        BY DEF Reached
      <4> QED
        BY <2>1, <4>1, <4>2, KnownTokens DEF OrderInv
    <3>7. \A b \in Caller : Fresh(b) => held[b][1] = reply[b][1] /\ reply[b][2] = cur[reply[b][1]] /\ reply[b][1] \in Grant
      BY KnownTokens DEF OrderInv, Fresh, CallerInv
    <3>8. \A b \in Caller : Fresh(b)' => held'[b][1] = reply'[b][1] /\ reply'[b][2] = cur'[reply'[b][1]]
      BY <2>1, <3>1, <3>2, <3>3, <3>7
    <3>9. \A a, b \in Caller : Fresh(a)' /\ Fresh(b)' /\ reply'[a][1] = reply'[b][1] => a = b
      BY <3>1, <3>2, <3>3 DEF OrderInv
    <3> QED
      BY <3>6, <3>8, <3>9 DEF OrderInv
  <2> QED
    BY <1>8, <2>2, <2>3, RefreshShape
<1>9. ASSUME NEW c \in Caller, ApplyRefresh(c) PROVE OrderInv'
  <2>1. /\ phase[c] = "apply" /\ phase'[c] \in {"done", "release"} /\ UNCHANGED <<held, reply, cur>>
        /\ row'.refresh = IF row.status = "active" /\ Fresh(c) THEN reply[c] ELSE row.refresh
        /\ \A b \in Caller : b # c => phase'[b] = phase[b]
    BY <1>9, ApplyShape DEF Proc
  <2>2. \A b \in Caller : Fresh(b)' => b # c /\ Fresh(b)
    BY <2>1 DEF Fresh
  <2>3. ASSUME NEW u, Reached(u) PROVE Reached(u)'
    BY <2>1, <2>2, <2>3 DEF Reached
  <2>4. ASSUME Fresh(c) PROVE Reached(reply[c])'
    <3>1. reply[c] \in Token /\ reply[c][2] = cur[reply[c][1]] /\ reply[c][2] \in Int
      BY <2>1, <2>4, KnownTokens DEF OrderInv, CallerInv
    <3>2. \A b \in Caller : Fresh(b)' => reply'[b][1] # reply[c][1]
      BY <2>1, <2>2, <2>4 DEF OrderInv
    <3> QED
      BY <2>1, <3>1, <3>2 DEF Reached
  <2>5. Reached(row.refresh)' /\ \A b \in Caller : Reached(held[b])'
    <3>1. Reached(row.refresh) /\ \A b \in Caller : Reached(held[b])
      BY DEF OrderInv
    <3>2. CASE row.status = "active" /\ Fresh(c)
      BY <2>1, <2>3, <2>4, <3>1, <3>2 DEF Reached
    <3>3. CASE ~(row.status = "active" /\ Fresh(c))
      BY <2>1, <2>3, <3>1, <3>3 DEF Reached
    <3> QED
      BY <3>2, <3>3
  <2> QED
    BY <2>1, <2>2, <2>5 DEF OrderInv
<1>10. ASSUME NEW c \in Caller, MarkReauthRequired(c) PROVE OrderInv'
  <2>1. /\ row'.refresh \in {row.refresh, NoToken} /\ UNCHANGED <<held, reply, cur>>
        /\ \A b \in Caller : phase'[b] = "apply" => phase[b] = "apply"
    BY <1>10 DEF MarkReauthRequired, ClearedRow, Return, providerVars, TypeOK, Row, Proc
  <2> QED
    BY <2>1 DEF OrderInv, Reached, Fresh
<1>11. ASSUME NEW c \in Caller, ReleaseRefreshLease(c) PROVE OrderInv'
  BY <1>11, ProcAssumption DEF ReleaseRefreshLease, Overtakes, Refreshing,
     Goto, Return, ReleaseThen, providerVars, historyVars, TypeOK, Row, Proc,
     HoldPhase, RefreshPhase, OrderInv, Reached, Fresh
<1>12. ASSUME NEW k \in Connect, Consume(k) PROVE OrderInv'
  BY <1>12, ProcAssumption DEF Consume, Goto, Return, ReleaseThen,
     providerVars, historyVars, TypeOK, Row, Proc, HoldPhase, RefreshPhase,
     OrderInv, Reached, Fresh
<1>13. ASSUME NEW k \in Connect, ExchangeCode(k) PROVE OrderInv'
  <2>1. /\ UNCHANGED <<row, held, reply>> /\ phase[k] = "exchange"
        /\ \A b \in Caller : phase'[b] = phase[b]
        /\ \A g \in Grant : g # k => cur'[g] = cur[g]
    BY <1>13, ProcAssumption DEF ExchangeCode, Goto, Return, TypeOK, Proc
  <2>2. Unmet(k, row.refresh) /\ \A c \in Caller : Unmet(k, held[c])
    BY <2>1 DEF GrantInv
  <2>3. \A c \in Caller : Fresh(c)' <=> Fresh(c)
    BY <2>1 DEF Fresh
  <2>4. \A u \in Token : Unmet(k, u) => cur'[u[1]] = cur[u[1]]
    BY <2>1, KnownTokens, ProcAssumption DEF Unmet
  <2>5. \A u \in Token : Unmet(k, u) /\ Reached(u) => Reached(u)'
    BY <2>1, <2>3, <2>4 DEF Reached
  <2>6. \A c \in Caller : Fresh(c) => Unmet(k, reply[c]) /\ reply[c] \in Token
    BY <2>2, KnownTokens DEF OrderInv, CallerInv, Fresh, Unmet
  <2>7. Reached(row.refresh)' /\ \A c \in Caller : Reached(held[c])'
    <3>1. Reached(NoToken)'
      BY DEF Reached
    <3> QED
      BY <2>1, <2>2, <2>5, <3>1, KnownTokens DEF OrderInv
  <2> QED
    BY <2>1, <2>3, <2>4, <2>6, <2>7 DEF OrderInv
<1>14. ASSUME NEW k \in Connect, BeginAuthorization(k) PROVE OrderInv'
  BY <1>14, ProcAssumption DEF BeginAuthorization, ClearedRow, Goto, Return,
     ReleaseThen, providerVars, historyVars, TypeOK, Row, Proc, HoldPhase,
     RefreshPhase, OrderInv, Reached, Fresh
<1>15. ASSUME NEW k \in Connect, CompleteAuthorization(k) PROVE OrderInv'
  <2>1. /\ UNCHANGED <<held, reply, cur>> /\ phase[k] = "complete"
        /\ \A b \in Caller : phase'[b] = phase[b]
        /\ row'.refresh \in {<<k, 0>>, NoToken}
    BY <1>15, ProcAssumption DEF CompleteAuthorization, Return, providerVars, TypeOK, Row, Proc
  <2>2. cur[k] = 0 /\ \A c \in Caller : Unmet(k, held[c])
    BY <2>1 DEF GrantInv
  <2>3. \A c \in Caller : (Fresh(c)' <=> Fresh(c)) /\ (Fresh(c) => reply[c][1] # k)
    BY <2>1, <2>2 DEF OrderInv, CallerInv, Fresh, Unmet
  <2>4. Reached(row.refresh)'
    BY <2>1, <2>2, <2>3 DEF Reached
  <2> QED
    BY <2>1, <2>3, <2>4 DEF OrderInv, Reached
<1>16. ASSUME NEW d \in Disconnect, LoadForDisconnect(d) PROVE OrderInv'
  BY <1>16, ProcAssumption DEF LoadForDisconnect, Goto, Return, ReleaseThen,
     providerVars, historyVars, TypeOK, Row, Proc, HoldPhase, RefreshPhase,
     OrderInv, Reached, Fresh
<1>17. ASSUME NEW d \in Disconnect, RevokeRemotely(d) PROVE OrderInv'
  BY <1>17, ProcAssumption DEF RevokeRemotely, Grantable, Goto, Return,
     ReleaseThen, providerVars, historyVars, TypeOK, Row, Proc, HoldPhase,
     RefreshPhase, OrderInv, Reached, Fresh
<1>18. ASSUME NEW d \in Disconnect, MarkRevoked(d) PROVE OrderInv'
  <2>1. row' = row \/ row' = ClearedRow("revoked")
    BY <1>18 DEF MarkRevoked
  <2>2. row'.refresh \in {row.refresh, NoToken}
    BY <2>1 DEF ClearedRow, TypeOK, Row
  <2>3. UNCHANGED <<held, reply, cur>>
    BY <1>18 DEF MarkRevoked, providerVars, historyVars
  <2>4. phase' = [phase EXCEPT ![d] = "done"]
    BY <1>18 DEF MarkRevoked, Return
  <2>5. \A p \in Caller : phase'[p] = phase[p]
    BY <2>4, ProcAssumption DEF TypeOK, Proc
  <2> QED
    BY <2>2, <2>3, <2>5 DEF OrderInv, Reached, Fresh
<1>19. ASSUME NEW a \in Attempt, OpenAttempt(a) PROVE OrderInv'
  BY <1>19, ProcAssumption DEF OpenAttempt, Goto, Return, ReleaseThen,
     providerVars, historyVars, TypeOK, Row, Proc, HoldPhase, RefreshPhase,
     OrderInv, Reached, Fresh
<1>20. ASSUME NEW a \in Attempt, AttemptExpires(a) PROVE OrderInv'
  BY <1>20, ProcAssumption DEF AttemptExpires, Goto, Return, ReleaseThen,
     providerVars, historyVars, TypeOK, Row, Proc, HoldPhase, RefreshPhase,
     OrderInv, Reached, Fresh
<1>21. ASSUME NEW p \in Proc, Crash(p) PROVE OrderInv'
  BY <1>21, ProcAssumption DEF Crash, Goto, Return, ReleaseThen, providerVars,
     historyVars, TypeOK, Row, Proc, HoldPhase, RefreshPhase, OrderInv,
     Reached, Fresh
<1>22. ASSUME AccessExpires PROVE OrderInv'
  BY <1>22, ProcAssumption DEF AccessExpires, Goto, Return, ReleaseThen,
     providerVars, historyVars, TypeOK, Row, Proc, HoldPhase, RefreshPhase,
     OrderInv, Reached, Fresh
<1>23. ASSUME LeaseExpires PROVE OrderInv'
  BY <1>23, ProcAssumption DEF LeaseExpires, Refreshing, Goto, Return,
     ReleaseThen, providerVars, historyVars, TypeOK, Row, Proc, HoldPhase,
     RefreshPhase, OrderInv, Reached, Fresh
<1> QED
  BY <1>1, <1>2, <1>3, <1>4, <1>5, <1>6, <1>7, <1>8, <1>9, <1>10, <1>11,
     <1>12, <1>13, <1>14, <1>15, <1>16, <1>17, <1>18, <1>19, <1>20, <1>21,
     <1>22, <1>23 DEF Next, CallerStep, ConnectStep, DisconnectStep

(* Every action keeps SpendInv. *)
LEMMA SpendStep == TypeOK /\ CallerInv /\ OnlyActiveHoldsTokens /\ GrantInv /\ OrderInv /\ SpendInv /\ [Next]_vars => SpendInv'
<1> SUFFICES ASSUME TypeOK, CallerInv, OnlyActiveHoldsTokens, GrantInv, OrderInv, SpendInv, [Next]_vars PROVE SpendInv'
  OBVIOUS
<1>1. ASSUME UNCHANGED vars PROVE SpendInv'
  BY <1>1, ProcAssumption DEF vars, Goto, Return, ReleaseThen, providerVars,
     historyVars, TypeOK, Row, Proc, HoldPhase, RefreshPhase, OrderInv,
     Reached, Fresh, SpendInv
<1>2. ASSUME AllDone PROVE SpendInv'
  BY <1>2, ProcAssumption DEF AllDone, vars, Goto, Return, ReleaseThen,
     providerVars, historyVars, TypeOK, Row, Proc, HoldPhase, RefreshPhase,
     OrderInv, Reached, Fresh, SpendInv
<1>3. ASSUME NEW c \in Caller, Load(c) PROVE SpendInv'
  BY <1>3, ProcAssumption DEF Load, Goto, Return, ReleaseThen, providerVars,
     historyVars, TypeOK, Row, Proc, HoldPhase, RefreshPhase, OrderInv,
     Reached, Fresh, SpendInv
<1>4. ASSUME NEW c \in Caller, TakeRefreshLease(c) PROVE SpendInv'
  BY <1>4, ProcAssumption DEF TakeRefreshLease, Goto, Return, ReleaseThen,
     providerVars, historyVars, TypeOK, Row, Proc, HoldPhase, RefreshPhase,
     OrderInv, Reached, Fresh, SpendInv
<1>5. ASSUME NEW c \in Caller, AwaitHolder(c) PROVE SpendInv'
  BY <1>5, ProcAssumption DEF AwaitHolder, Goto, Return, ReleaseThen,
     providerVars, historyVars, TypeOK, Row, Proc, HoldPhase, RefreshPhase,
     OrderInv, Reached, Fresh, SpendInv
<1>6. ASSUME NEW c \in Caller, Reload(c) PROVE SpendInv'
  BY <1>6, ProcAssumption DEF Reload, Goto, Return, ReleaseThen, providerVars,
     historyVars, TypeOK, Row, Proc, HoldPhase, RefreshPhase, OrderInv,
     Reached, Fresh, SpendInv
<1>7. ASSUME NEW c \in Caller, Prepare(c) PROVE SpendInv'
  BY <1>7, ProcAssumption DEF Prepare, Goto, Return, ReleaseThen,
     providerVars, historyVars, TypeOK, Row, Proc, HoldPhase, RefreshPhase,
     OrderInv, Reached, Fresh, SpendInv
<1>8. ASSUME NEW c \in Caller, RefreshTokens(c) PROVE SpendInv'
  <2> DEFINE t == held[c]
  <2>1. /\ phase[c] = "spend" /\ t \in Token /\ UNCHANGED <<row, held>>
        /\ t[1] \in Grant /\ t[2] \in 0 .. MaxRotations /\ ~Fresh(c)
        /\ \A b \in Caller : b # c => phase'[b] = phase[b]
    BY <1>8, RefreshShape, KnownTokens, ProcAssumption DEF Proc, Fresh
  <2>2. CASE phase'[c] \in {"mark", "release"} /\ UNCHANGED <<cur, reply, lost>>
    BY <2>1, <2>2 DEF SpendInv, Fresh
  <2>3. ASSUME NEW n \in {t[2], t[2] + 1}, cur[t[1]] = t[2], n <= MaxRotations,
               cur' = [cur EXCEPT ![t[1]] = n], reply' = [reply EXCEPT ![c] = <<t[1], n>>],
               \/ phase'[c] = "apply" /\ lost' = lost
               \/ phase'[c] \in {"mark", "release"} /\ lost' = IF n = t[2] THEN lost ELSE lost \cup {t},
               row.refresh # NoToken, row.refresh \notin lost'
        PROVE  cur'[row.refresh[1]] = row.refresh[2] \/ \E b \in Caller : Fresh(b)' /\ held[b] = row.refresh
    <3> DEFINE u == row.refresh
    <3>1. /\ u \in Token /\ u \notin lost /\ u[1] \in Grant
          /\ \A g \in Grant : cur'[g] = (IF g = t[1] THEN n ELSE cur[g])
          /\ \A b \in Caller : reply'[b] = IF b = c THEN <<t[1], n>> ELSE reply[b]
      BY <2>1, <2>3, KnownTokens DEF TypeOK
    <3>2. \A b \in Caller : b # c => (Fresh(b)' <=> Fresh(b))
      BY <2>1, <3>1 DEF Fresh
    <3>3. ASSUME NEW b \in Caller, Fresh(b), held[b] = u PROVE \E a \in Caller : Fresh(a)' /\ held[a] = u
      BY <2>1, <3>2, <3>3
    <3>4. CASE cur[u[1]] = u[2] /\ u[1] # t[1]
      BY <3>1, <3>4
    <3>5. CASE cur[u[1]] = u[2] /\ u[1] = t[1]
      <4>1. u = t
        BY <2>1, <2>3, <3>1, <3>5 DEF Token
      <4>2. CASE n = t[2]
        BY <2>1, <3>1, <3>5, <4>1, <4>2
      <4>3. CASE n # t[2]
        <5>1. phase'[c] = "apply" /\ reply'[c] = <<t[1], n>>
          BY <2>3, <3>1, <4>1, <4>3
        <5>2. Fresh(c)'
          BY <2>1, <4>3, <5>1 DEF Fresh, Token
        <5> QED
          BY <2>1, <4>1, <5>2
      <4> QED
        BY <4>2, <4>3
    <3> HIDE DEF u
    <3>6. cur[u[1]] = u[2] \/ \E b \in Caller : Fresh(b) /\ held[b] = u
      BY <2>3, <3>1 DEF SpendInv, u
    <3> QED
      BY <3>3, <3>4, <3>5, <3>6 DEF u
  <2>4. row.refresh # NoToken /\ row.refresh \notin lost' =>
          cur'[row.refresh[1]] = row.refresh[2] \/ \E b \in Caller : Fresh(b)' /\ held[b] = row.refresh
    BY <1>8, <2>1, <2>2, <2>3, RefreshShape DEF SpendInv
  <2> QED
    BY <2>1, <2>4 DEF SpendInv
<1>9. ASSUME NEW c \in Caller, ApplyRefresh(c) PROVE SpendInv'
  <2>1. /\ phase[c] = "apply" /\ phase'[c] \in {"done", "release"} /\ UNCHANGED <<held, reply, cur, lost>>
        /\ row'.refresh = IF row.status = "active" /\ Fresh(c) THEN reply[c] ELSE row.refresh
        /\ row.status # "active" => row.refresh = NoToken
        /\ \A b \in Caller : b # c => phase'[b] = phase[b]
    BY <1>9, ApplyShape DEF Proc
  <2>2. \A b \in Caller : b # c => (Fresh(b)' <=> Fresh(b))
    BY <2>1 DEF Fresh
  <2>3. CASE row.status = "active" /\ Fresh(c)
    BY <2>1, <2>3 DEF SpendInv, OrderInv
  <2>4. CASE row.status # "active"
    BY <2>1, <2>4 DEF SpendInv
  <2>5. CASE ~Fresh(c)
    BY <2>1, <2>2, <2>5 DEF SpendInv
  <2> QED
    BY <2>3, <2>4, <2>5
<1>10. ASSUME NEW c \in Caller, MarkReauthRequired(c) PROVE SpendInv'
  <2>1. /\ row'.refresh \in {row.refresh, NoToken} /\ UNCHANGED <<held, reply, cur, lost>>
        /\ \A b \in Caller : phase'[b] = "apply" <=> phase[b] = "apply"
    BY <1>10 DEF MarkReauthRequired, ClearedRow, Return, providerVars, TypeOK, Row, Proc
  <2> QED
    BY <2>1 DEF SpendInv, Fresh
<1>11. ASSUME NEW c \in Caller, ReleaseRefreshLease(c) PROVE SpendInv'
  BY <1>11, ProcAssumption DEF ReleaseRefreshLease, Overtakes, Refreshing,
     Goto, Return, ReleaseThen, providerVars, historyVars, TypeOK, Row, Proc,
     HoldPhase, RefreshPhase, OrderInv, Reached, Fresh, SpendInv
<1>12. ASSUME NEW k \in Connect, Consume(k) PROVE SpendInv'
  BY <1>12, ProcAssumption DEF Consume, Goto, Return, ReleaseThen,
     providerVars, historyVars, TypeOK, Row, Proc, HoldPhase, RefreshPhase,
     OrderInv, Reached, Fresh, SpendInv
<1>13. ASSUME NEW k \in Connect, ExchangeCode(k) PROVE SpendInv'
  <2>1. /\ UNCHANGED <<row, held, reply, lost>> /\ phase[k] = "exchange"
        /\ \A b \in Caller : phase'[b] = phase[b]
        /\ \A g \in Grant : g # k => cur'[g] = cur[g]
    BY <1>13, ProcAssumption DEF ExchangeCode, historyVars, Goto, Return, TypeOK, Proc
  <2>2. Unmet(k, row.refresh)
    BY <2>1 DEF GrantInv
  <2>3. row.refresh # NoToken => cur'[row.refresh[1]] = cur[row.refresh[1]]
    BY <2>1, <2>2, KnownTokens DEF Unmet
  <2> QED
    BY <2>1, <2>3 DEF SpendInv, Fresh
<1>14. ASSUME NEW k \in Connect, BeginAuthorization(k) PROVE SpendInv'
  BY <1>14, ProcAssumption DEF BeginAuthorization, ClearedRow, Goto, Return,
     ReleaseThen, providerVars, historyVars, TypeOK, Row, Proc, HoldPhase,
     RefreshPhase, OrderInv, Reached, Fresh, SpendInv
<1>15. ASSUME NEW k \in Connect, CompleteAuthorization(k) PROVE SpendInv'
  <2>1. /\ UNCHANGED cur /\ phase[k] = "complete" /\ row'.refresh \in {<<k, 0>>, NoToken}
    BY <1>15 DEF CompleteAuthorization, providerVars, TypeOK, Row
  <2>2. cur[k] = 0
    BY <2>1 DEF GrantInv
  <2> QED
    BY <2>1, <2>2 DEF SpendInv
<1>16. ASSUME NEW d \in Disconnect, LoadForDisconnect(d) PROVE SpendInv'
  BY <1>16, ProcAssumption DEF LoadForDisconnect, Goto, Return, ReleaseThen,
     providerVars, historyVars, TypeOK, Row, Proc, HoldPhase, RefreshPhase,
     OrderInv, Reached, Fresh, SpendInv
<1>17. ASSUME NEW d \in Disconnect, RevokeRemotely(d) PROVE SpendInv'
  BY <1>17, ProcAssumption DEF RevokeRemotely, Grantable, Goto, Return,
     ReleaseThen, providerVars, historyVars, TypeOK, Row, Proc, HoldPhase,
     RefreshPhase, OrderInv, Reached, Fresh, SpendInv
<1>18. ASSUME NEW d \in Disconnect, MarkRevoked(d) PROVE SpendInv'
  <2>1. row' = row \/ row' = ClearedRow("revoked")
    BY <1>18 DEF MarkRevoked
  <2>2. row'.refresh \in {row.refresh, NoToken}
    BY <2>1 DEF ClearedRow, TypeOK, Row
  <2>3. UNCHANGED <<held, reply, cur, lost>>
    BY <1>18 DEF MarkRevoked, providerVars, historyVars
  <2>4. phase' = [phase EXCEPT ![d] = "done"]
    BY <1>18 DEF MarkRevoked, Return
  <2>5. \A p \in Caller : phase'[p] = phase[p]
    BY <2>4, ProcAssumption DEF TypeOK, Proc
  <2> QED
    BY <2>2, <2>3, <2>5 DEF SpendInv, Fresh
<1>19. ASSUME NEW a \in Attempt, OpenAttempt(a) PROVE SpendInv'
  BY <1>19, ProcAssumption DEF OpenAttempt, Goto, Return, ReleaseThen,
     providerVars, historyVars, TypeOK, Row, Proc, HoldPhase, RefreshPhase,
     OrderInv, Reached, Fresh, SpendInv
<1>20. ASSUME NEW a \in Attempt, AttemptExpires(a) PROVE SpendInv'
  BY <1>20, ProcAssumption DEF AttemptExpires, Goto, Return, ReleaseThen,
     providerVars, historyVars, TypeOK, Row, Proc, HoldPhase, RefreshPhase,
     OrderInv, Reached, Fresh, SpendInv
<1>21. ASSUME NEW p \in Proc, Crash(p) PROVE SpendInv'
  BY <1>21, ProcAssumption DEF Crash, Goto, Return, ReleaseThen, providerVars,
     historyVars, TypeOK, Row, Proc, HoldPhase, RefreshPhase, OrderInv,
     Reached, Fresh, SpendInv
<1>22. ASSUME AccessExpires PROVE SpendInv'
  BY <1>22, ProcAssumption DEF AccessExpires, Goto, Return, ReleaseThen,
     providerVars, historyVars, TypeOK, Row, Proc, HoldPhase, RefreshPhase,
     OrderInv, Reached, Fresh, SpendInv
<1>23. ASSUME LeaseExpires PROVE SpendInv'
  BY <1>23, ProcAssumption DEF LeaseExpires, Refreshing, Goto, Return,
     ReleaseThen, providerVars, historyVars, TypeOK, Row, Proc, HoldPhase,
     RefreshPhase, OrderInv, Reached, Fresh, SpendInv
<1> QED
  BY <1>1, <1>2, <1>3, <1>4, <1>5, <1>6, <1>7, <1>8, <1>9, <1>10, <1>11,
     <1>12, <1>13, <1>14, <1>15, <1>16, <1>17, <1>18, <1>19, <1>20, <1>21,
     <1>22, <1>23 DEF Next, CallerStep, ConnectStep, DisconnectStep

(* What holds of every state, whatever the constants. *)
Inv ==
  /\ TypeOK /\ CallerInv /\ OnlyActiveHoldsTokens /\ ExchangeInv
  /\ LeaseInv /\ HolderInv /\ GrantInv /\ OrderInv /\ SpendInv

LEMMA InvInit == Init => Inv
<1> SUFFICES ASSUME Init PROVE Inv
  OBVIOUS
<1>1. <<FirstGrant, 0>> \in OptToken /\ NoToken \in OptToken
  BY PollAssumption DEF OptToken, Token, Grant
<1>2. row \in Row
  <2>1. ASSUME NEW t \in OptToken, NEW st \in {"absent", "active", "reauth", "revoked"},
               NEW e \in BOOLEAN
        PROVE  [status |-> st, access |-> t, refresh |-> t, spent |-> e, lease |-> "none"] \in Row
    BY <2>1 DEF Row
  <2>2. FALSE \in BOOLEAN
    OBVIOUS
  <2> QED
    BY <1>1, <2>1, <2>2, Zenon DEF Init
<1>3. cur \in [Grant -> -1 .. MaxRotations]
  BY PollAssumption DEF Init
<1>4. polls \in [Caller -> 0 .. MaxPolls]
  BY PollAssumption DEF Init
<1>5. TypeOK
  BY <1>1, <1>2, <1>3, <1>4 DEF Init, TypeOK
<1>6. CallerInv
  BY PollAssumption DEF Init, CallerInv, Proc
<1>7. OnlyActiveHoldsTokens
  BY DEF Init, OnlyActiveHoldsTokens
<1>8. ExchangeInv
  BY ProcAssumption DEF Init, ExchangeInv, Exchanged, Proc, Grant
<1>9. /\ \A c \in Caller : phase[c] = "new" /\ held[c] = NoToken
      /\ \A k \in Connect : phase[k] = "new"
  BY DEF Init, Proc
<1>10. LeaseInv /\ HolderInv
  BY <1>9 DEF LeaseInv, HolderInv, Holding, HoldPhase
<1>11. row.refresh \in {<<FirstGrant, 0>>, NoToken} /\ cur[FirstGrant] = 0
  BY DEF Init, Grant
<1>12. GrantInv
  BY <1>9, <1>11, ProcAssumption DEF GrantInv, Unmet
<1>13. OrderInv
  BY <1>9, <1>11 DEF OrderInv, Reached, Fresh
<1>14. SpendInv
  BY <1>11 DEF SpendInv
<1> QED
  BY <1>5, <1>6, <1>7, <1>8, <1>10, <1>12, <1>13, <1>14 DEF Inv

LEMMA InvStep == Inv /\ [Next]_vars => Inv'
BY TypeStep, CallersStep, OnlyActiveStep, ExchangeStep, LeaseStep, HolderStep, GrantStep,
   OrderStep, SpendStep DEF Inv

LEMMA InvAlways == Spec => []Inv
BY InvInit, InvStep, PTL DEF Spec

(* Every variable keeps its type: no caller polls for the holder of the     *)
(* lease more than LEASE_ATTEMPTS times, and no token is made up.           *)
THEOREM TypeCorrect == Spec => []TypeOK
<1>1. Inv => TypeOK
  BY DEF Inv
<1> QED
  BY <1>1, InvAlways, PTL

(* connection_token_state_check holds after every statement, whichever      *)
(* refreshes, callbacks and disconnects are under way.                      *)
THEOREM OnlyActiveHoldsTokensAlways == Spec => []OnlyActiveHoldsTokens
<1>1. Inv => OnlyActiveHoldsTokens
  BY DEF Inv
<1> QED
  BY <1>1, InvAlways, PTL

(* consume claims an attempt for one callback: however many callbacks carry *)
(* its state, at most one exchanges a code for a grant.                     *)
THEOREM OneExchangePerAttemptAlways == Spec => []OneExchangePerAttempt
<1>1. ASSUME Inv PROVE OneExchangePerAttempt
  <2>1. SUFFICES ASSUME NEW a \in Attempt
                 PROVE  Cardinality({k \in Connect : AttemptOf[k] = a /\ cur[k] >= 0}) <= 1
    BY DEF OneExchangePerAttempt
  <2> DEFINE S == {k \in Connect : AttemptOf[k] = a /\ cur[k] >= 0}
  <2>2. \A j, k \in S : j = k
    BY <1>1 DEF Inv, ExchangeInv, Exchanged
  <2> HIDE DEF S
  <2>3. Cardinality(S) <= 1
    BY <2>2, AtMostOne
  <2> QED
    BY <2>3 DEF S
<1> QED
  BY <1>1, InvAlways, PTL

(* Two live callers that both work on their claim: at least one of them was *)
(* overtaken.  Leases may expire under their holders, be ended by a holder  *)
(* that comes late, outlive a crash or be met by a reconnect.               *)
THEOREM ClaimExclusiveAlways == Spec => []ClaimExclusive
<1>1. ASSUME Inv PROVE ClaimExclusive
  <2>1. \A b, c \in Holding \ overtaken : b = c
    BY <1>1 DEF Inv, LeaseInv
  <2> HIDE DEF Holding
  <2>2. Cardinality(Holding \ overtaken) <= 1
    BY <2>1, AtMostOne
  <2> QED
    BY <2>2 DEF ClaimExclusive
<1> QED
  BY <1>1, InvAlways, PTL

(* The refresh token in the row is the one the provider accepts, unless its *)
(* grant was revoked or its successor was lost or is about to be applied,   *)
(* whichever refreshes overran their lease and whichever callbacks ran.     *)
THEOREM StoredTokenSpendableAlways == Spec => []StoredTokenSpendable
<1>1. ASSUME Inv, row.refresh # NoToken, row.refresh \notin lost
      PROVE  \/ Grantable(row.refresh) \/ dead[row.refresh[1]]
             \/ \E c \in Caller : phase[c] = "apply" /\ held[c] = row.refresh /\ reply[c] # held[c]
  BY <1>1 DEF Inv, SpendInv, Fresh, Grantable
<1>2. Inv => StoredTokenSpendable
  BY <1>1 DEF StoredTokenSpendable
<1> QED
  BY <1>2, InvAlways, PTL

(* An active connection becomes reauth_required when the provider gave up   *)
(* the very token it stores, when it stores none, when a callback starts    *)
(* over, or by a caller that was overtaken: no transport failure, crash or  *)
(* concurrent caller does it.                                               *)
THEOREM WorkingGrantKeptAlways == Spec => WorkingGrantKept
<1> DEFINE Late == \E c \in overtaken : phase[c] \in {"mark", "retire"} /\ phase'[c] = "done"
           Given == row.refresh \in refused \cup {NoToken}
           Step == row.status = "active" /\ row'.status = "reauth"
                     => \/ row.refresh \in refused \cup {NoToken} \/ Begins
                        \/ \E c \in overtaken : phase[c] \in {"mark", "retire"} /\ phase'[c] = "done"
<1>1. ASSUME Inv, [Next]_vars PROVE Step
  <2>1. SUFFICES ASSUME row.status = "active", row'.status = "reauth"
                 PROVE  Given \/ Begins \/ Late
    OBVIOUS
  <2>2. ASSUME NEW c \in Caller, MarkReauthRequired(c) PROVE Given \/ Late
    <3>1. phase[c] \in {"mark", "retire"} /\ phase'[c] = "done"
      BY <1>1, <2>2 DEF MarkReauthRequired, Return, Inv, TypeOK, Proc
    <3>2. CASE c \in overtaken
      BY <3>1, <3>2
    <3>3. CASE c \notin overtaken
      BY <1>1, <2>1, <3>1, <3>3 DEF Inv, HolderInv
    <3> QED
      BY <3>2, <3>3
  <2>3. ASSUME NEW c \in Caller, CallerStep(c), ~MarkReauthRequired(c) PROVE row'.status = row.status
    BY <1>1, <2>3 DEF CallerStep, Load, TakeRefreshLease, AwaitHolder, Reload, Prepare,
       RefreshTokens, ApplyRefresh, ReleaseRefreshLease, Inv, TypeOK, Row
  <2>4. ASSUME NEW d \in Disconnect, DisconnectStep(d) PROVE row'.status \in {row.status, "revoked"}
    BY <1>1, <2>4 DEF DisconnectStep, LoadForDisconnect, RevokeRemotely, MarkRevoked, ClearedRow,
       Inv, TypeOK, Row
  <2>5. ASSUME AccessExpires \/ LeaseExpires PROVE row'.status = row.status
    BY <1>1, <2>5 DEF AccessExpires, LeaseExpires, Inv, TypeOK, Row
  <2>6. ASSUME NEW k \in Connect, ConnectStep(k) PROVE Begins
    <3>1. CASE Consume(k) \/ ExchangeCode(k)
      BY <2>1, <3>1 DEF Consume, ExchangeCode
    <3>2. CASE BeginAuthorization(k)
      BY <1>1, <3>2 DEF BeginAuthorization, Goto, Begins, Inv, TypeOK, Proc
    <3>3. CASE CompleteAuthorization(k)
      BY <1>1, <2>1, <3>3 DEF CompleteAuthorization, Inv, TypeOK, Row
    <3> QED
      BY <2>6, <3>1, <3>2, <3>3 DEF ConnectStep
  <2> QED
    BY <1>1, <2>1, <2>2, <2>3, <2>4, <2>5, <2>6 DEF Next, OpenAttempt, AttemptExpires, Crash, AllDone, vars
<1>2. Spec => [][Step]_vars
  BY <1>1, InvAlways, PTL DEF Spec
<1> QED
  BY <1>2 DEF WorkingGrantKept
=============================================================================
