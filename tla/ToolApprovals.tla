---------------------------- MODULE ToolApprovals ----------------------------
(***************************************************************************)
(* Which tools may run without asking the reader: the settings and grants  *)
(* of one reader (tool-approval.repository.ts, tool-approval.service.ts),  *)
(* the gate a turn builds from them (tool-approval-gate.service.ts), the   *)
(* rules both share with the settings page (approval-decision.ts), and the *)
(* tool list of an integration, which changes under them.                  *)
(*                                                                         *)
(* A step is one database statement or transaction.  A turn reads the      *)
(* catalog and then, in any order, the four parts of its context; a        *)
(* request that changes a setting resolves its tool, reads the tool's row  *)
(* and writes, so that the server's list, other requests and turns can     *)
(* move between.  A definition is named by its digest, a number; the       *)
(* annotations are hashed too, so the digest decides whether a tool is     *)
(* destructive.  Days are counted by a clock.                              *)
(***************************************************************************)
EXTENDS Integers, FiniteSets

CONSTANTS
  Remote,       \* the tools of the reader's integration
  Shipped,      \* the product's own tools
  Policy,       \* of each shipped tool: auto, askable or always
  Session,
  Everywhere,   \* the scope key of a grant that reaches every conversation
  Version,      \* digests; a shipped tool keeps digest 1
  Destructive,  \* of each digest
  Picks,        \* durations the prompt's menu sends, "preference" for none picked
  MaxDays,      \* bound on the clock
  MaxChanges    \* bound on the changes the reader and the server make

(* "override" is the key of an agreement that is not for a scope. *)
ApprovalsWellFormed ==
  /\ Remote \cap Shipped = {} /\ Everywhere \notin Session
  /\ "override" \notin Session \cup {Everywhere}
  /\ Policy \in [Shipped -> {"auto", "askable", "always"}]
  /\ Version \subseteq Nat \ {0} /\ 1 \in Version
  /\ Destructive \in [Version -> BOOLEAN]
  /\ Picks \subseteq {"day", "never", "preference"}
  /\ MaxDays \in Nat /\ MaxChanges \in Nat

ASSUME ApprovalsAssumption == ApprovalsWellFormed

VARIABLES
  offered,      \* digest of each remote tool's row, 0 when there is none
  active,       \* whether the reader's connection is active
  readerMode, integrationMode,
  override,     \* of each tool
  grant,        \* of each tool and scope key
  ttlFor,       \* how long the reader's new grants live
  day,
  turn,         \* the turn under way
  request,      \* the request under way
  changes,
  steady,       \* history: nothing changed since the turn began
  shown,        \* history: the definitions each tool has had since the turn read its
                \* catalog, since the settings page was loaded, and since either showed
                \* the reader what the request under way is about
  consent,      \* history: what the reader has agreed to and not withdrawn
  stood         \* history: what was agreed at any moment of the turn's reads

settings == <<readerMode, integrationMode, override, grant, ttlFor>>
approvalsVars ==
  <<offered, active, settings, day, turn, request, changes, steady, shown, consent, stood>>

Tool == Remote \cup Shipped
Scope == Session \cup {Everywhere}
Modes == {"always_ask", "remember", "auto"}
Ttl == {"day", "never"}
Inherit == [mode |-> "inherit", digest |-> 0]
NoGrant == [digest |-> 0, ends |-> 0]
Parts == {"mode", "settings", "overrides", "grants"}

NoTurn == [pc |-> "none"]
NoRequest == [step |-> "none"]

RowDigest(t) == IF t \in Shipped THEN 1 ELSE offered[t]
Now == [t \in Tool |-> {RowDigest(t)} \ {0}]
Nothing == [t \in Tool |-> {}]

ApprovalsInit ==
  /\ offered = [t \in Remote |-> 1] /\ active = TRUE
  /\ readerMode = "remember" /\ integrationMode = "inherit"
  /\ override = [t \in Tool |-> Inherit]
  /\ grant = [k \in Tool \X Scope |-> NoGrant] /\ ttlFor = "never"
  /\ day = 0 /\ turn = NoTurn /\ request = NoRequest /\ changes = 0
  /\ shown = [turn |-> Nothing, page |-> Now, request |-> Nothing]
  /\ steady = FALSE /\ consent = {} /\ stood = {}

-----------------------------------------------------------------------------
(* The rules, as pure functions of a request.                              *)

ModePosture(m) == CASE m = "always_ask" -> "ask" [] m = "remember" -> "grants" [] OTHER -> "allow"

Live(g, now) == g.ends = 0 \/ g.ends > now

(* decideToolApproval: the policy, the reader's word on this tool, the      *)
(* server's destructive hint, the mode, and last the grants.                *)
Decide(r) ==
  CASE r.policy # "askable" -> IF r.policy = "auto" THEN "allow" ELSE "ask"
    [] r.policy = "askable" /\ r.override.mode # "inherit" ->
         IF r.override.mode = "auto" /\ r.override.digest = r.digest THEN "allow" ELSE "ask"
    [] r.policy = "askable" /\ r.override.mode = "inherit" ->
         IF r.destructive THEN "ask"
         ELSE IF ModePosture(r.mode) # "grants" THEN ModePosture(r.mode)
         ELSE IF \E g \in r.grants : Live(g, r.now) /\ g.digest = r.digest
              THEN "allow" ELSE "ask"

(* Mutant: the prompt looks at the modes alone. *)
GrantCanApplyByMode(r) == r.policy = "askable" /\ ModePosture(r.mode) = "grants"

GrantCanApply(r) ==
  /\ r.policy = "askable" /\ r.override.mode = "inherit"
  /\ ~r.destructive /\ ModePosture(r.mode) = "grants"

(* toolPosture, for the settings page. *)
ToolPosture(r) ==
  IF r.override # "inherit"
  THEN IF r.override = "auto" /\ ~r.overrideStale THEN "allow" ELSE "ask"
  ELSE IF r.destructive THEN "ask"
  ELSE ModePosture(IF r.integrationMode = "inherit" THEN r.readerMode ELSE r.integrationMode)

-----------------------------------------------------------------------------
(* postureOf, over what was read: remote tools are askable, and a mode set  *)
(* on the integration stands in for the reader's own.                       *)
PolicyOf(t) == IF t \in Remote THEN "askable" ELSE Policy[t]

PostureOf(t, digest, mode, imode, overrides, held, now) ==
  [policy |-> PolicyOf(t),
   mode |-> IF t \in Remote /\ imode # "inherit" THEN imode ELSE mode,
   override |-> overrides[t],
   destructive |-> t \in Remote /\ Destructive[digest],
   digest |-> digest,
   grants |-> held[t],
   now |-> now]

GrantsFor(s) ==
  [t \in Tool |-> {grant[<<t, k>>] : k \in {s, Everywhere}} \ {NoGrant}]

(* catalogFor: the rows of integrations with an active connection. *)
Catalog ==
  [t \in Tool |-> IF t \in Shipped THEN 1 ELSE IF active THEN offered[t] ELSE 0]

(* The tools an open turn offers, and its gate's answers. *)
Offers(t) == turn.catalog[t] # 0
TurnPosture(t) ==
  PostureOf(t, turn.catalog[t], turn.mode, turn.settings, turn.overrides, turn.grants, day)
Allows(t) == t \in turn.allows
Rememberable(t) == t \in turn.rememberable

-----------------------------------------------------------------------------
(* A turn. *)

BeginTurn(s) ==
  /\ turn = NoTurn
  /\ turn' = [pc |-> "reading", session |-> s, catalog |-> Catalog, unread |-> Parts,
              mode |-> "unread", settings |-> "unread", overrides |-> <<>>, grants |-> <<>>]
  /\ steady' = TRUE /\ stood' = consent /\ shown' = [shown EXCEPT !.turn = Now]
  /\ UNCHANGED <<offered, active, settings, day, request, changes, consent>>

(* contextFor: four statements at once, no snapshot over them. *)
Read(part) ==
  /\ turn.pc = "reading" /\ part \in turn.unread
  /\ turn' = [turn EXCEPT
       !.unread = @ \ {part},
       !.mode = IF part = "mode" THEN readerMode ELSE @,
       !.settings = IF part = "settings" THEN integrationMode ELSE @,
       !.overrides = IF part = "overrides" THEN override ELSE @,
       !.grants = IF part = "grants" THEN GrantsFor(turn.session) ELSE @]
  /\ UNCHANGED <<offered, active, settings, day, request, changes, steady, shown, consent,
                 stood>>

(* gateFor: the instant the grants are judged at is taken once, so the      *)
(* gate's answers are fixed from here.                                      *)
GateFor ==
  /\ turn.pc = "reading" /\ turn.unread = {}
  /\ turn' = [pc |-> "open", session |-> turn.session, catalog |-> turn.catalog,
              settings |-> turn.settings,
              allows |-> {t \in Tool : Offers(t) /\ Decide(TurnPosture(t)) = "allow"},
              rememberable |-> {t \in Tool : Offers(t) /\ GrantCanApply(TurnPosture(t))}]
  /\ UNCHANGED <<offered, active, settings, day, request, changes, steady, shown, consent,
                 stood>>

EndTurn ==
  /\ turn.pc = "open"
  /\ turn' = NoTurn /\ steady' = FALSE /\ stood' = {}
  /\ shown' = [shown EXCEPT !.turn = Nothing]
  /\ UNCHANGED <<offered, active, settings, day, request, changes, consent>>

-----------------------------------------------------------------------------
(* The requests. *)

Counts == changes < MaxChanges /\ changes' = changes + 1

(* The settings page is loaded anew, as long as MaxChanges leaves a request *)
(* to make from it.                                                         *)
LoadPage ==
  /\ changes < MaxChanges
  /\ shown.page # Now /\ shown' = [shown EXCEPT !.page = Now]
  /\ UNCHANGED <<offered, active, settings, day, turn, request, changes, steady, consent, stood>>

(* What the reader, who looks at the turn's prompt or at the page, sends:   *)
(* resolve first for a tool named by its exposed name, the rows at once for *)
(* a selection on the integration's page.                                   *)
Sends(q, seen) ==
  /\ request = NoRequest /\ Counts
  /\ request' = q /\ shown' = [shown EXCEPT !.request = seen]
  /\ UNCHANGED <<offered, active, settings, day, turn, steady, consent, stood>>

(* The prompt's "don't ask again", offered when a grant can be what lets    *)
(* the tool run.  A duration is the one picked, or left to the preference.  *)
AskRemember(t, s, d) ==
  /\ turn.pc = "open" /\ Offers(t) /\ ~Allows(t) /\ Rememberable(t)
  /\ s \in {turn.session, Everywhere}
  /\ Sends([step |-> IF t \in Shipped THEN "row" ELSE "resolve", kind |-> "remember",
            tools |-> {t}, scope |-> s, ttl |-> d, digest |-> [u \in {t} |-> 0],
            session |-> turn.session, kept |-> steady], shown.turn)

Asks(kind, T, first) ==
  Sends([step |-> first, kind |-> kind, tools |-> T, digest |-> [u \in T |-> 0],
         kept |-> FALSE], shown.page)

AskForget(t) ==
  /\ \E s \in Scope : grant[<<t, s>>] # NoGrant
  /\ Asks("forget", {t}, IF t \in Shipped THEN "write" ELSE "resolve")

(* Choosing what is chosen already changes nothing, unless it renews the    *)
(* definition an "auto" is for.                                             *)
Moves(t, setting) == setting = "auto" \/ override[t].mode # setting

OnPage(t) == shown.page[t] # {}

(* A shipped tool whose posture is fixed refuses an override. *)
AskOverride(t, setting) ==
  /\ PolicyOf(t) = "askable" /\ OnPage(t) /\ Moves(t, setting)
  /\ Asks(setting, {t}, IF t \in Shipped THEN "row" ELSE "resolve")

AskOverrideMany(T, setting) ==
  /\ \A t \in T : OnPage(t)
  /\ \E t \in T : Moves(t, setting)
  /\ Asks(setting, T, "row")

(* resolve: the exposed name is looked for in the reader's own catalog. *)
Resolve ==
  /\ request.step = "resolve"
  /\ request' = IF \A t \in request.tools : Catalog[t] # 0
                THEN [request EXCEPT !.step = IF request.kind = "forget" THEN "write" ELSE "row"]
                ELSE NoRequest
  /\ UNCHANGED <<offered, active, settings, day, turn, changes, steady, shown, consent, stood>>

(* remember, overrideRemote, overrideRemoteMany: the digest comes from the  *)
(* row, and a tool that has none refuses the whole request.                 *)
ReadRow ==
  /\ request.step = "row"
  /\ request' = IF \A t \in request.tools : RowDigest(t) # 0
                THEN [request EXCEPT !.step = "write",
                                     !.digest = [t \in request.tools |-> RowDigest(t)]]
                ELSE NoRequest
  /\ UNCHANGED <<offered, active, settings, day, turn, changes, steady, shown, consent, stood>>

(* A write another tab could notice. *)
Wrote(c) ==
  /\ consent' = c /\ stood' = IF turn.pc = "reading" THEN stood \cup c ELSE stood
  /\ steady' = FALSE /\ shown' = [shown EXCEPT !.request = Nothing]

(* An agreement is to the definition the reader was shown, or to one that   *)
(* took its place before the agreement was written.                         *)
Agreed(t, key, digest) == [tool |-> t, key |-> key, digest |-> digest]
Agreements(T, key) == UNION {{Agreed(t, key, v) : v \in shown.request[t]} : t \in T}
Without(t, keys) == {c \in consent : c.tool # t \/ c.key \notin keys}

(* ttlFor, grantExpiryFor and the upsert: no other writer of a grant looks  *)
(* at the preference.  A kept promise holds from here on.                   *)
WriteGrant ==
  LET t == CHOOSE u \in request.tools : TRUE
      d == IF request.ttl = "preference" THEN ttlFor ELSE request.ttl
      g == [digest |-> request.digest[t], ends |-> IF d = "day" THEN day + 1 ELSE 0] IN
  /\ request.step = "write" /\ request.kind = "remember"
  /\ grant' = [grant EXCEPT ![<<t, request.scope>>] = g]
  /\ request' = [request EXCEPT !.step = "done"]
  /\ Wrote(Without(t, {request.scope}) \cup Agreements({t}, request.scope))
  /\ UNCHANGED <<offered, active, readerMode, integrationMode, override, ttlFor, day, turn,
                 changes>>

(* Mutant: only the grant that reaches everywhere is dropped. *)
ForgetEverywhere ==
  LET t == CHOOSE u \in request.tools : TRUE IN
  /\ request.step = "write" /\ request.kind = "forget"
  /\ grant' = [grant EXCEPT ![<<t, Everywhere>>] = NoGrant]
  /\ request' = NoRequest
  /\ Wrote(Without(t, Scope))
  /\ UNCHANGED <<offered, active, readerMode, integrationMode, override, ttlFor, day, turn,
                 changes>>

Forget ==
  LET t == CHOOSE u \in request.tools : TRUE IN
  /\ request.step = "write" /\ request.kind = "forget"
  /\ grant' = [k \in DOMAIN grant |-> IF k[1] = t THEN NoGrant ELSE grant[k]]
  /\ request' = NoRequest
  /\ Wrote(Without(t, Scope))
  /\ UNCHANGED <<offered, active, readerMode, integrationMode, override, ttlFor, day, turn,
                 changes>>

(* writeOverride, of every tool of the request in one transaction. *)
WriteOverride ==
  LET setting == request.kind
      agreed == IF setting = "auto" THEN Agreements(request.tools, "override") ELSE {} IN
  /\ request.step = "write" /\ setting \in {"inherit", "always_ask", "auto"}
  /\ override' = [t \in Tool |->
       IF t \notin request.tools THEN override[t]
       ELSE [mode |-> setting, digest |-> IF setting = "auto" THEN request.digest[t] ELSE 0]]
  /\ request' = NoRequest
  /\ Wrote({c \in consent : c.tool \notin request.tools \/ c.key # "override"} \cup agreed)
  /\ UNCHANGED <<offered, active, readerMode, integrationMode, grant, ttlFor, day, turn, changes>>

(* The request fails, or its conversation is gone, before it writes; or its *)
(* answer has arrived.                                                      *)
RequestOver ==
  /\ request # NoRequest
  /\ request' = NoRequest /\ shown' = [shown EXCEPT !.request = Nothing]
  /\ UNCHANGED <<offered, active, settings, day, turn, changes, steady, consent, stood>>

(* A promise is for as long as nothing it rests on changes. *)
Disturbs ==
  /\ steady' = FALSE
  /\ request' = IF request.step = "done" THEN NoRequest
                ELSE IF request = NoRequest THEN request ELSE [request EXCEPT !.kept = FALSE]
  /\ UNCHANGED <<turn, consent, stood>>

SetMode(m) ==
  /\ m # readerMode /\ Counts /\ readerMode' = m /\ Disturbs
  /\ UNCHANGED <<offered, active, integrationMode, override, grant, ttlFor, day, shown>>

SetIntegrationMode(m) ==
  /\ m # integrationMode /\ Counts /\ integrationMode' = m /\ Disturbs
  /\ UNCHANGED <<offered, active, readerMode, override, grant, ttlFor, day, shown>>

SetTtl(d) ==
  /\ d # ttlFor /\ Counts /\ ttlFor' = d
  /\ UNCHANGED <<offered, active, readerMode, integrationMode, override, grant, day, turn,
                 request, steady, shown, consent, stood>>

(* What was shown is followed by what the server puts in its place. *)
Relisted(h, f) ==
  [t \in Tool |-> IF t \in Remote /\ h[t] # {} THEN h[t] \cup ({f[t]} \ {0}) ELSE h[t]]

(* replaceTools: one transaction for the whole list. *)
ReplaceTools(f) ==
  /\ f # offered /\ Counts /\ offered' = f /\ Disturbs
  /\ shown' = [turn |-> Relisted(shown.turn, f), page |-> Relisted(shown.page, f),
               request |-> Relisted(shown.request, f)]
  /\ UNCHANGED <<active, settings, day>>

(* The connection is lost or made again. *)
Reconnect ==
  /\ Counts /\ active' = ~active /\ Disturbs
  /\ UNCHANGED <<offered, settings, day, shown>>

NextDay ==
  /\ day < MaxDays /\ day' = day + 1 /\ Disturbs
  /\ UNCHANGED <<offered, active, settings, changes, shown>>

-----------------------------------------------------------------------------
ReaderTurn ==
  \/ \E s \in Session : BeginTurn(s)
  \/ \E p \in Parts : Read(p)
  \/ GateFor \/ EndTurn

ReaderAsks ==
  \/ \E t \in Tool, s \in Scope, d \in Picks : AskRemember(t, s, d)
  \/ \E t \in Tool : AskForget(t)
  \/ \E t \in Tool, m \in {"inherit", "always_ask", "auto"} : AskOverride(t, m)
  \/ \E T \in SUBSET Remote, m \in {"inherit", "always_ask", "auto"} : AskOverrideMany(T, m)
  \/ \E m \in {"always_ask", "remember"} : SetMode(m)
  \/ \E m \in Modes \cup {"inherit"} : SetIntegrationMode(m)
  \/ \E d \in Ttl : SetTtl(d)
  \/ LoadPage

RequestStep == Resolve \/ ReadRow \/ WriteGrant \/ Forget \/ WriteOverride \/ RequestOver

ApprovalsNext ==
  \/ ReaderTurn \/ ReaderAsks \/ RequestStep
  \/ \E f \in [Remote -> Version \cup {0}] : ReplaceTools(f)
  \/ Reconnect \/ NextDay

ApprovalsSpec == ApprovalsInit /\ [][ApprovalsNext]_approvalsVars

-----------------------------------------------------------------------------
(* What the pages show. *)

(* toolsFor and chatToolsFor, as ToolRow and ChatToolCatalog hand it on. *)
PagePosture(t) ==
  ToolPosture([override |-> override[t].mode,
               overrideStale |-> override[t].mode = "auto" /\ override[t].digest # RowDigest(t),
               destructive |-> t \in Remote /\ Destructive[RowDigest(t)],
               integrationMode |-> IF t \in Remote THEN integrationMode ELSE "inherit",
               readerMode |-> readerMode])

(* Mutant: a grant counts on the day it ends. *)
ListedLiveThatDay(t, s) ==
  LET g == grant[<<t, s>>] IN
  g # NoGrant /\ ~(g.ends # 0 /\ g.ends < day) /\ g.digest = RowDigest(t)

(* listFor and listChatTools: a remembered tool shown without "expired" and *)
(* without "definition changed".                                            *)
ListedLive(t, s) ==
  LET g == grant[<<t, s>>] IN
  g # NoGrant /\ ~(g.ends # 0 /\ g.ends <= day) /\ g.digest = RowDigest(t)

-----------------------------------------------------------------------------
(* What a turn started now, in conversation s, would be answered. *)
WouldAllow(t, s) ==
  Decide(PostureOf(t, RowDigest(t), readerMode, integrationMode, override, GrantsFor(s), day))
    = "allow"

(* Every variable keeps its type. *)
ApprovalsTypeOK ==
  /\ offered \in [Remote -> Version \cup {0}] /\ active \in BOOLEAN
  /\ readerMode \in {"always_ask", "remember"} /\ integrationMode \in Modes \cup {"inherit"}
  /\ override \in [Tool -> [mode : {"inherit", "always_ask", "auto"}, digest : Version \cup {0}]]
  /\ grant \in [Tool \X Scope -> [digest : Version \cup {0}, ends : 0 .. MaxDays + 1]]
  /\ ttlFor \in Ttl /\ day \in 0 .. MaxDays /\ changes \in 0 .. MaxChanges
  /\ turn.pc \in {"none", "reading", "open"}
  /\ request.step \in {"none", "resolve", "row", "write", "done"}
  /\ LET seen == [Tool -> SUBSET Version] IN shown \in [turn : seen, page : seen, request : seen]

(* The settings page and the gate agree on every tool that is there: the    *)
(* posture the page shows, with the grants it lists as live, is what a turn *)
(* started now would do, after any history of settings, grants that ended   *)
(* and definitions that changed.                                            *)
PageAgrees ==
  \A t \in Tool, s \in Session :
    RowDigest(t) # 0 /\ PolicyOf(t) = "askable" =>
      (WouldAllow(t, s) <=>
         \/ PagePosture(t) = "allow"
         \/ PagePosture(t) = "grants" /\ (ListedLive(t, s) \/ ListedLive(t, Everywhere)))

(* A "don't ask again" the prompt offered and the reader took is honoured   *)
(* by the next turn of the conversation, when nothing changed between the   *)
(* reads of the turn that asked and the grant that was written.             *)
PromiseKept ==
  request.step = "done" /\ request.kept =>
    \A t \in request.tools : WouldAllow(t, request.session)

(* A tool the gate lets run was agreed to for a scope this conversation is  *)
(* in, and the consent stood at some moment of the turn's reads; a          *)
(* destructive one by its own override.  The definition this turn offers    *)
(* is one the reader was shown when they agreed, or one the server put in   *)
(* its place before the answer was written.  What was withdrawn before the  *)
(* turn, agreed for a definition that is gone or in another conversation,   *)
(* lets nothing run.                                                        *)
ConsentStands ==
  turn.pc = "open" =>
    \A t \in Tool : Allows(t) =>
      LET v == turn.catalog[t]  mild == t \in Shipped \/ ~Destructive[v] IN
      \/ PolicyOf(t) = "auto"
      \/ Agreed(t, "override", v) \in stood
      \/ mild /\ t \in Remote /\ turn.settings = "auto"
      \/ mild /\ \E k \in {turn.session, Everywhere} : Agreed(t, k, v) \in stood
=============================================================================
