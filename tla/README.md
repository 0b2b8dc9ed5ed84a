# Verification of liaiso

TLA+ models of the stateful core of liaiso, TLC configurations that check them on small instances,
and TLAPS proofs for every instance. Paths below are relative to the repository root (`src/` here).

Contents: [inventory](#1-inventory) · [modules](#2-modules-and-the-code) · [runs](#3-runs) ·
[bounds](#4-bounds) · [fairness](#5-fairness) · [proofs](#6-proofs) ·
[findings](#7-where-code-and-comments-disagree) · [limits](#8-what-is-not-shown) · [plan](#9-plan)

## 1. Inventory

liaiso has two halves: MCP servers (an HTTP catalog and read-only servers over files and databases)
and a chat product that uses them. Most of the 120 000 lines of TypeScript are pure translation:
schemas, naming, parsing, formatting. What follows is the part that keeps state.

| Part | State it keeps | Operations | What is hard about it | What makes it correct |
| --- | --- | --- | --- | --- |
| db-core pool (`packages/cores/db-core/src/pool`, `query/execute.ts`) | idle stack, waiter queue, `opened`, `generation`, `closed` | acquire, open, set up, run, cancel, release, hand off, quarantine, close | aborts race settles; opens land after their timeout; five places adjust one counter | one holder per connection, no crossed result sets, exact slot count, no idle connection beside a waiter, an abort always answers |
| chat connections (`products/chat/api/src/connections`) | one row per connection: status, sealed tokens, refresh lease; attempt rows | access token, refresh under a lease, callback, disconnect | several processes over one database, crashes while holding the lease, lost answers of a provider that rotates tokens | one refresh at a time unless a lease ran out, a grant is given up only when the provider refused it, tokens only in active rows, one exchange per attempt |
| xml-mcp document path (`packages/servers/xml-mcp/src/host`, `xml-worker.ts`, `cores/file-core/src/documents.ts`) | one slot and its queue, one worker thread and its documents, the host's store of stamps | take a slot, load, parse, ask, retry, time out, abort, close | the worker may die, hang or be killed between any two messages; two caches evict separately; files change | slot exclusive, store never names a dead worker's document, replies go to their request, nobody is killed for another's timeout |
| agent gateway (`products/chat/api/src/gateway`, `agent/agent-turn.service.ts`) | grants, open holds, remembered consents, lane count and queue, the turn's signal | open and end a turn, stop it, admit a call, ask the reader, answer, expire, queue for the model host | a reader's answer, a timer and the turn's end race; calls arrive after the turn was aborted | consent before running, an acknowledged answer decides, nothing waits for an aborted turn, exact lane count, every call answered |
| agent server pool (`gateway/server-pool.ts`) | started stdio servers by conversation and variant | clientFor, sweep, release, shutdown | every close is awaited in the middle of the loop that decides what to close | no orphaned process, one variant per family |
| agent turn and codex (`agent`, `codex/app-server`) | the app server's process and its pending requests, subscriptions, notification buffers, thread of a conversation | start or resume a thread, start a turn, read to its completion, stop, interrupt | the stop may come before or after the subscription, the completion before the answer to the request; the app server may go away; two turns may share a thread | a turn reports its own completion, a completion that arrived is not lost, every subscribed turn concludes |
| attachments (`attachments`) | rows and objects of uploads; files under the sandbox with `entries`, `used`, `inFlight` and pins | upload, remove, ensure, make room, evict, release a session | a budget checked before an await and charged after it; a session released under a flight; a crash between the object store and the database | a row names an object that exists, the byte count is exact, every file can be reclaimed unless its removal failed, every caller of a flight is answered |
| chat turns (`chat`) | stored messages, the approval posture of a turn | stream, store, resume | two turns on one conversation | history is what was shown |
| auth sessions (`web/src/lib/{auth-refresh,http}.ts`, `api/src/auth`) | session and refresh-token rows; cookies, a flight and a latch per tab | call, refresh, retry, rotate, revoke, sign out | two tabs rotate together; a lost answer is retried within a grace period; the browser may have no lock | the tabs' own race never revokes the session, a tab gives up only a session that is over or that the api took from the browser, a retry carries the new token |
| tool approvals (`chat/tool-approval-gate.service.ts`, `connections/tool-approval*.ts`, `contracts/src/tools`) | modes, overrides, grants, the digest of each tool | decide, remember, override, forget, build a turn's gate | three statements per request and four reads per gate, while the server replaces its tools and days pass | the page shows what the gate does, a promise to remember is kept, nothing runs without a consent for that definition, given by a reader who was shown it or its forerunner |
| caller visibility (`packages/http/core/src/{cache,visibility.ts}`, `sdks/nestjs/src/{visibility,cache.ts,catalog.ts}`) | cached facts and verdicts per caller, a tag index, shared computations, an epoch, disabled probes | search, load, probe, invalidate by caller, tag or all, reload | invalidation during a computation; tags that come later; eviction and expiry under both | what was invalidated is gone and stays gone, the index finds everything a tag covers |
| db-core catalog snapshot (`db-core/src/catalog`) | one snapshot, one flight | load, refresh, invalidate | a refresh overtaken by an invalidation | never an older snapshot after a newer |
| mcp-core (`packages/cores/mcp-core`) | none | page budget, cursors | boundaries | pages neither overlap nor skip |

How they interact. The chat api starts an agent turn; the turn opens a *grant* and gives it to codex;
codex calls the *gateway*, which asks the reader for consent (*holds*), runs local tools through the
*server pool* and, for the model host, the *lane*, and remote tools with an access token from the
*connections*. The gate that decides which tools ask comes from the *approvals*, the files the local tools read from
the *attachments*' sandbox, and everything behind a signed-in *session*. The local tools are the MCP servers: the XML server runs its *document path*, the SQL
server its *pool*. The *caller visibility* belongs to the other half: it decides which tools of a host's HTTP api a
caller is shown. Calls go down, abort signals go down, results come back; the parts share no other
memory, and the connections share one database between processes. That is why each has a module of
its own, with the neighbour reduced to what it may answer.

`PROJECT.json` lists every part with its status, and every hazard at its line.

## 2. Modules and the code

Each module keeps the names of the code. In all of them a step is what runs without interruption: on
one event loop the code between two awaits together with the promise jobs it starts, across processes
one database statement. Data is reduced to what the properties compare. Definitions introduced by a
comment *Mutant* are deliberate faults that the properties are tested against; no specification uses them.

### DbPool — `pool/pool.ts`, `pool/cancel.ts`, `query/execute.ts`

A *call* is one `QueryRunner.run`: acquire, at most one statement, release. A connection is named by
the call that opened it, so `conn[c]` is the lease, `sock` the physical connection, `wire` the requests it
has not settled. `Acquire*` are the branches of `acquire` (refused, idle, open, wait, queue full);
`OpenLands`, `OpenRejects`, `OpenTimesOut` the race of `driver.open` with `connectTimeoutMs`, in which a late
landing or rejection is its own step; `Run`, `QuerySettles`, `StartCancel`, `CancelDrains`,
`CancelGraceExpires` are `runCancellable`; `Release` with `HandOff`, `MakeIdle` and `Discard` is
`lease.release`; `Abort` is the caller's signal, `Close` the pool's. The waiter queue keeps settled waiters,
as the code does.

### ConnectionTokens — `connections/*.ts`

One connection row, any number of callers of `accessTokenFor`, callbacks and disconnects, in any number of
processes. A step is one statement of `connection.repository.ts` or one answer of the provider. A token is a
grant and its generation. `RefreshTokens` has the answers the code tells apart: `Granted`, with a rotation or
without; `GrantUnused`, an answer lost after the provider acted, or one that is read and is no bearer token; `Rejected`, any
OAuth error body, which the code takes for a refusal whatever it names and however good the token is; `Unreached`.
`LeaseExpires`, `AccessExpires`, `AttemptExpires` are clocks, and a lease may run out under a live holder at any point of its
refresh: discovery, registration and a token request of ten seconds all happen under fifteen. `Crash` stops a process
between any two of its steps. Releases, marks and applies name the row and not the holder, as the statements do. Three
variables are history: `lost`, the tokens whose successor was not stored; `refused`, those an answer gave up; `overtaken`, the callers at work
on a refresh when their lease ended or a callback filled the row anew.

### XmlDocuments — `xml-mcp/src/host/{pool,document}.ts`, `xml-worker.ts`, `file-core/src/documents.ts`

A document is a path and the version of its bytes. `Slots*` and `Release` are the slot; `Submit`, `Boot`, `Reply`,
`Timeout`, `Abort`, `Abandon`, `Terminated` are a request's life in the pool; `StoreLoad`, `Parsed`, `Retry`, `StaleCursor`
are the store and the handler; `Handle` and `WorkerDies` the worker with its own least-recently-used
documents. What a worker posted is delivered before it is gone. One that goes before its boot message ends the spawning call only if it
raised an `error`; otherwise, as when it is killed while it boots, that call is `unborn` and keeps the slot, since nothing else settles
`once(spawned, 'message')` and the budget's timer is armed later. `Close`, `ReleaseReply`, `ReleaseTimeout`, `CloseKill` are the shutdown. `Edit` changes a file. Chunked
documents never live in the worker and are left out, as is the XML engine.

### Gateway — `chat/api/src/gateway`, `agent/agent-turn.service.ts` `run`

A *turn* is preparing, running or ended and has one signal; `OpenTurn` registers its grant, `Stop` is
the reader's cancel or the deadline, `EndTurn` the `finally` of `run`, `Expiry` the grant's own clock. The directory and
the gate's decisions are built before the grant and never change, so they are constants. A *call* passes
`Verify` (bearer check), `Bind` (the turn looked up again when the server is built) and `Dispatch` (name,
consent, invoke). `Hold`, `AnswerHold`, `HoldExpires` and the abort listener in `Signal` race for one hold. Settling
a hold and the call going on are one step: nothing but promise jobs lies between them. Worker tools wait in the
lane (`Acquire`, `ReleaseSlot`, and `Abandon` on abort); `ToolEnds` stands for whatever the tool answers, if it ever does:
the gateway bounds neither the start of a worker's client nor a tool. All turns use one model host. `grants` holds the turns whose grant `grantFor` would answer, so an expired grant
that nobody has looked up yet is already absent.

### Limiter — an abstract specification

At most `Limit` clients inside, a line that is served in order and never overtaken, nobody waiting beside a free place. Two
components implement it, each by a refinement mapping: the lane of `Gateway` (`LaneImplementsLimiter`) with the running calls as
`inside` and the unsettled waiters as `line`, and the XML slot with a limit of one (`SlotImplementsLimiter`) until the pool is
closed, since `close` lets every waiter go at once (`Stopped`).

### SandboxCache — `attachments/*.ts`, `mcp/reader-session.service.ts`

`PutObject`, `CreateAttachment`, `UndoPut` are an upload, `SoftDelete` and `RemoveObject` a removal. `Resolve`, `MakeRoot`, `Hit`, `Join`,
`Materialize` are `ensure`; a flight is `MakeRoom`, `VictimGone`, `MakeStaging`, `Fetch`, `Rename` and settles for everyone who
joined it. `OpenReader`, `Release`, `ForgetSession` are a session's readers coming and going. The recursive `rm` that follows takes
files and directories one at a time while flights go on (`RemoveFile`, `RemoveStaging`, `RemoveRoot`), and may end anywhere
(`RemovalEnds`): a file renamed into the directory meanwhile makes it fail. `Unlink` and `VictimGone` may fail too, and so
may every statement, after its commit as well (`CreateAttachment`, `SoftDelete`). `Crash` is a restart that keeps the
rows and the objects; the cache begins again with an empty root. Bytes are lengths. Three variables are history: `doubtful`, the live rows whose
insert was answered with an error; `leftover`, the files without an entry that a failed `rm` left; `stranded`, the sessions whose removal failed and
which were not used since.

### AgentTurn — `agent/agent-turn.service.ts`, `codex/app-server/*.ts`

`at` is what `run` awaits; `Begin`, `Lookup`, `Answer`, `Refuse`, `Remember` open or resume a thread and start the turn, `Gateway*` wait
for the gateway's status, `DatabaseFails` is the failure of a statement about the conversation's thread, `Read*` consume the queue, `Stop` and `InterruptGrace` are the signal and the interrupt, `Exit` and `SpawnFails` the
app server's. Codex is external: `Handle`, `Tell`, `CodexEnds` and `Unload` are what the code relies on it to do. Two variables are history: `due`, the turns codex completed while they listened, and
`shared`, those that overlapped another turn of the conversation, could not unsubscribe what an earlier one left, or heard the status of another one's load.

### AuthSessions — `web/src/lib/{auth-refresh,http}.ts`, `api/src/auth/*.ts`

Tabs share a cookie jar and, where the browser has one, a lock. `BeginCall`, `Fetch`, `Serve`, `Return`, `Outdated`, `JoinFlight` are a call and its retry; `LockGranted`,
`LockTimeout`, `Unlocked`, `Land`, `FetchFails` the refresh; `Find`, `IsConcurrentRotation`, `Settle`, `Revoke` the rotation in the database,
whose statements may fail (`StatementFails`) and whose commit may be answered with a 500 all the same; `GuardRefuses` the 429 and the
403 of the guards before it. `Cleared` says which answers take the cookies from the jar: every error of the handler itself but
`refresh_superseded`, a 500 of a live session included. `refusals` is the history of the answers other than 401 that a flight got.
`Reload`, `Logout`, `AccessLapses`, `GraceEnds`, `Expire` the rest of the world.

### ToolApprovals — `connections/tool-approval*.ts`, `chat/tool-approval-gate.service.ts`, `contracts/src/tools`

`Decide` and `ToolPosture` are the shared rules. A request is `Asks`, `Resolve`, `ReadRow` and a write; a turn is `BeginTurn`, four `Read`s in any
order and `GateFor`. What the reader looks at when they answer is kept apart from what is stored: `shown` has the definitions of the turn's prompt, of
the settings page (`LoadPage`) and of the request that was sent from one of them, each followed by what the server put in its place since
(`Relisted`); the write itself stores the digest of the row, as the code does, and records the consent. `ReplaceTools`, `Reconnect`, `SetMode`, `SetIntegrationMode`, `SetTtl` and `NextDay` happen between any two of them.
The theorems about this module and the two before it are in `ChatProofs`, which extends all three (hence names such as `AuthNext` and `AgentNext`): they share no state.

### CallerVisibility — `http/core/src/{cache,visibility.ts,meta-tools}`, `sdks/nestjs/src`

`Touch`, `Admit`, `Evict`, `Set`, `RemoveScope`, `RemoveTag`, `Clear` are `MemoryLiaisoCache`, as functions of its state. A request reads its facts and then
probes the undecided tools in order (an entry's values are a function on the lookups it has, `Put` the map's `set`): `Read` observes the epoch and asks the cache, `Hit` or `Miss` follow, `Evaluate`, `Settle` and `Fail` are the shared
computation, `Store` the guarded write. The host invalidates, bumps and reloads. The host's evaluator and pipeline are external and may
answer anything. A value carries, as auxiliary data, how many invalidations there had been when it was computed
and when it was written.

### Queues — the lists and ordered maps of all of them

`Without` drops members and keeps the order of the rest, `Only` keeps them, `Weight` adds up what a list holds. The lane's splice, the cache's eviction,
the sandbox's `forget` and the worker's `supersede` are written with them. Both are recursive functions, so the proofs can use them (section 6).

The `MC` modules only name constants and symmetry sets.

## 3. Runs

| Run | Result | What it shows |
| --- | --- | --- |
| `dbpool` | pass | `NoCrossedResults`, `LeaseExclusive`, `OpenedAccounting`, `NoIdleWhileWaiting`, `GenerationBound`, and `AbortedCallAnswers`: an aborted call returns though its request never settles |
| `dbpool_waiter_stranded` | violation of `WaiterServed` | a waiter is stranded when a quarantine or a failed open frees the last slot |
| `tokens_refresh` | pass | `ClaimExclusive` of the callers that were not overtaken, and `CallerAnswered`, though a lease may end under its holder and releases come late |
| `tokens_reconnect` | pass | `StoredTokenSpendable`, `OnlyActiveHoldsTokens`, `OneExchangePerAttempt`, `WorkingGrantKept` with overrun leases, refusals of good tokens, callbacks and a disconnect interleaved |
| `xml` | pass | `StoreCurrent`, `ReplyMatches`, `LostTwiceMeansRestart`, `InnocentNeverKilled`, `SlotImplementsLimiter`; `CallAnswered` while the pool is open and `WaiterResumed` through close, both but for a spawned worker that never reports |
| `gateway` | pass | `AcceptedAnswerDecides`, `ConsentBeforeRun`, `AbortedTurnWaitsForNobody`, `NoLateStart`, `LaneImplementsLimiter`; `GatewayCallAnswered`: only a client that does not start and a tool that does not end keep a call waiting |
| `sandbox` | pass | `RowNamesObject`, `UsedAccounting`, `FilesReclaimable`, `EnsureAnswered` through crashes, evictions, releases, failing statements and failing removals: the only rows without an object are those of an ambiguous commit, the only unreclaimable files those a failed `rm` left |
| `agent_turn` | pass | `OwnCompletion`, `CompletionKept`, `TurnConcludes` over an app server that may refuse, exit and never end a turn, and a database that may fail |
| `auth_sessions` | pass | `HealthyKept`, `LatchTruthful`, `RetrySucceeds` with and without a lock shared by the tabs, through 429, 403 and 500 |
| `tool_approvals` | pass | `PageAgrees`, `PromiseKept`, `ConsentStands` while settings, tools and days change between what is shown, what is asked and what is written |
| `caller_visibility` | pass | `InvalidatedGone` and `IndexAgrees` through evictions, expiries, late tags and failed computations |
| `caller_visibility_inflight` | violation of `InFlightRule` | a computation in flight during an invalidation is cached after it |

Every property of a passing run has a mutant: one definition replaced by a plausible mistake in the
same lines of code, under which TLC finds the property violated.

## 4. Bounds

- **DbPool.** Three calls, one connection, a queue of one: a holder, a waiter and a call that finds the queue full. The liveness property
  rules out symmetry, which is what keeps the instance small; the five invariants are proved for every size. The stranded waiter needs a
  queue of two.
- **ConnectionTokens.** `tokens_refresh` has three callers: a holder, one that claims after the lease ran out, and one whose claim must not meet either; one
  rotation, two polls (`LEASE_ATTEMPTS` is larger; a poll only reads, so more of them add waiting and no new order). `tokens_reconnect` has two callers, two callbacks with one
  state and a disconnect that may come between any two steps: a second refresh beside an overrun one, and a reconnect beside both.
- **XmlDocuments.** Two calls, two paths, a store of two, one fault (`MaxFaults`: edits, aborts, deaths and slow replies) and one later version of a file. The
  worker's capacity is *below* the store's so that the two caches drift apart with two paths; the code's capacity is twice the store's,
  where the same needs five paths. The properties do not depend on the ratio.
- **Gateway.** Two turns of different readers, three calls, one slot: a runner, a waiter and one
  behind it from the other turn. One tool goes through the lane; one is asked about in the first turn and free in the second; one is
  denied in the first and unknown in the second. Calls are made once.
- **SandboxCache.** Three attachments: two already stored, of lengths 2 and 1, in one session, and one of length 1 in another session, which can be uploaded and removed and
  whose session can have readers and be reaped (`Reapable`). Two callers, of whom each needs one of the stored files and both the third (`Needs`), a budget of two bytes: a download must
  evict the other file. Only the `rm` of the third file by itself may fail (`Faulty`), the removal of its session always may. A quota of two files and three bytes.
- **AgentTurn.** Two turns of one conversation, the case in which threads, buffers and completions can be confused.
- **AuthSessions.** Three calls, one of them a probe, in two tabs, with and without a lock. Calls are finite, so the system stops and deadlock is not checked.
- **ToolApprovals.** One remote tool, one shipped tool that may be remembered and one that always asks, two interchangeable conversations, three digests of
  which the second is destructive, one change of day. Three requests or changes by others in all (`MaxChanges`) are enough to load a page, replace
  the tool under it, answer, and replace it again before the write; and to shorten the durations, remember and see the grant end. A grant lives as
  long as the reader's preference says, for ever or, once that was changed, a day; a week behaves as a longer day, and a duration picked in the prompt stores the same row without the change (`Picks`, which
  the theorems leave open).
- **CallerVisibility.** Two requests of one caller, only the second tagged, and one of a second caller with the same tag, over a cache with room for one
  caller: eviction, re-admission and late tags all happen. A scope lives one tick of one, so that every use can find it expired; two calls of the host
  (`MaxHostCalls`), so that an invalidation meets a reload, a bump or another invalidation. Requests are finite, so deadlock is not checked.

Nothing else is bounded; every counter is a natural number that the instance keeps finite.

## 5. Fairness

- `DbPool.FairSpec`: ready continuations run and timers fire (`connectTimeoutMs`, `cancelSettleMs`). Nothing is assumed of
  the driver except that session setup settles, the contract in `model/connection.ts`. `SettlingSpec` adds that every
  request settles; only `dbpool_waiter_stranded` uses it, to show that even then a waiter hangs.
- `ConnectionTokens.FairSpec`: a caller whose process lives takes its next step: statements return and requests to
  the provider end by their timeouts. Crashes, expiries and the provider's choices are not fair.
- `XmlDocuments.FairSpec`: the event loop turns, the budget's timer fires, and a worker that is up handles its next
  message unless it dies or is too slow, which are faults it may suffer instead. A worker need not boot, since nothing bounds the wait for its
  first message; `CallAnswered` and `WaiterResumed` say what that costs.
- `Gateway.FairSpec`: the event loop turns and the hold's timer fires. Readers need not answer, turns need not end, clients need not start
  and tools need not end: `callTool` is given a signal and no timeout (`tool-directory.service.ts:210-216`, `281-287`), and connecting is
  unbounded too (`server-pool.ts:81-92`).

- `SandboxCache.FairSpec`: file operations of flights and callers return and downloads end, with success or failure. Uploads, readers and crashes are not fair.
- `AgentTurn.AgentFairSpec`: the event loop turns, timers and the turn's deadline fire, and codex answers a request or goes away; it need not end a turn.

`AuthSessions`, `ToolApprovals` and `CallerVisibility` state no liveness: a person, a browser and a host's pipeline owe no answer.

## 6. Proofs

Every theorem holds for all values of the constants that satisfy the module's named assumptions. These say no more than the code does: limits are
positive, tables are total, identities of different kinds are disjoint. None assumes anything of the environment: where the code keeps a promise only
as long as the environment behaves, the property itself names, by a history variable, the event after which it does not.

| Module | Theorems |
| --- | --- |
| `DbPoolProofs` | `TypeCorrect`, `LeaseExclusiveAlways`, `NoCrossedResultsAlways`, `OpenedAccountingAlways`, `NoIdleWhileWaitingAlways`, `GenerationBoundAlways` |
| `GatewayProofs` | `TypeCorrect`, `AcceptedAnswerDecidesAlways`, `ConsentBeforeRunAlways`, `AbortedTurnWaitsForNobodyAlways`, `LaneBound`, `NoLateStartAlways`, `LaneImplementsLimiterAlways` |
| `XmlDocumentsProofs` | `TypeCorrect`, `StoreCurrentAlways`, `ReplyMatchesAlways`, `LostTwiceMeansRestartAlways`, `InnocentNeverKilledAlways`, `SlotImplementsLimiterAlways` |
| `ConnectionTokensProofs` | `TypeCorrect`, `OnlyActiveHoldsTokensAlways`, `OneExchangePerAttemptAlways`, `ClaimExclusiveAlways`, `StoredTokenSpendableAlways`, `WorkingGrantKeptAlways` |
| `SandboxCacheProofs` | `TypeCorrect`, `RowNamesObjectAlways`, `UsedAccountingAlways`, `FilesReclaimableAlways` |
| `CallerVisibilityProofs` | `IndexAgreesAlways`, `InvalidatedGoneAlways` |
| `ChatProofs`, on `AuthSessions` | `AuthInvAlways`, `HealthyKeptAlways`, `LatchTruthfulAlways`, `RetrySucceedsAlways` |
| `ChatProofs`, on `ToolApprovals` | `ApprovalInvAlways`, `PageAgreesAlways`, `PromiseKeptAlways`, `ConsentStandsAlways` |
| `ChatProofs`, on `AgentTurn` | `AgentInvAlways`, `OwnCompletionAlways`, `CompletionKeptAlways` |
| `QueuesProofs` | `WithoutProperties`, `WeightSplits` |

Each component has one inductive invariant, checked by TLC on an instance before it was proved, and a lemma per part of it with a step per action.

### DbPool

From `CallAssumption` (finitely many calls) and `LimitAssumption` (`MaxConnections >= 1`).
None of the six is inductive alone. That `opened` is a natural number follows only from its being a
cardinality; that it is one needs every release to find its connection in exactly one place; and that
needs the connection a call has not opened yet to be nowhere. The inductive invariant `IndInv` has five layers,
each proved to be kept under the ones before it:

1. `Core`: types with `opened` an integer (`TypeInv`), no connection twice in `idle` (`IdleUnique`), leases of one call and of no idle
   connection (`Exclusive`), and the connection an unopened call will name is not idle, not leased, and carries no request
   (`FreshClean`).
2. `WireInv`: idle and freshly granted connections carry no request; a running or cancelling call's carries at
   most its own.
3. `QueueInv`: a waiting call is in the queue, and nothing is idle while one waits.
4. `OpenedAccounting`: `SlotsStep` sorts the actions into those that keep `Slots`, take a slot, give up an open, discard a lease or close the idle ones; `AccountingStep` counts each kind once.
5. `GenInv`: the connections leased in the current generation, together with the slots, number at most `maxConnections`; while the pool is open they *are* slots,
   and a lease is recorded once. `GenerationBound` alone is not inductive: a discard begins a generation without forgetting older leases.

The lemmas `ReleaseCore`, `ReleaseWire`, `ReleaseQueue` and `ReleaseSlots` treat `lease.release` once for every action that calls it; `AppendElems`,
`PopElems` and `NoDupCardinality` are the facts about stacks they rest on.

### Gateway

`Inv` adds to the properties `CallInv` (which fields a call has where), `HoldInv` (a hold is pending, timed and listened to exactly while its call waits, and no
call of an aborted turn waits), `ConsentInv` (what is remembered for a turn was said by its own reader) and `LaneInv` (the counter is the number of calls that
run, the queue is the calls that wait, each once, and a slot is free only if the queue is empty). `NoLateStart` is an action property of that invariant. For
the refinement, `LaneMoves` sorts the actions into entering, waiting, leaving, handing over and giving up together, and `LaneRefines` maps each kind to the
step of `Limiter` with that name.

### XmlDocuments

Everything rests on the slot. `SlotInv`: until the pool closes one call is inside, and the line is the calls that wait. After the close nobody posts anything new, so
at most one call has business with a worker (`ActiveInv`), which is `InnocentNeverKilled`. `WorkerInv` is `StoreCurrent` and that without a worker
nothing is under way. `MsgInv`: every message in either direction is the one its call waits for, no sender has two, and close's request comes after the
close; `ReplyMatches` follows. `TriedInv` is what `LostTwiceMeansRestart` needs: a call that reloads in the generation it
began in finds the store empty, so it parses; the parsed document is the worker's newest, and since the call is alone, its question comes next. That holds for every
capacity of at least one, which is why the instance of section 4 may take the worker's below the store's. `SlotMoves` shows that four steps touch the slot, and `SlotRefines` maps
them to `Limiter` with one place.

### ConnectionTokens

Everything may happen in every theorem: leases that run out under their holder, callbacks, disconnects, crashes, refusals of good tokens. `ClaimExclusive` does not hold of all
holders, since a lease is a row and a clock and its holder is not asked; it holds of those that were not overtaken. A caller is overtaken when its lease runs
out, when a callback completes under it, and when a caller overtaken before it ends a lease that is not its own, which each of the three
statements that end one can do. (`beginAuthorization` clears the tokens and leaves the lease.)

- `LeaseInv` and `HolderInv` are about the callers that were not overtaken: there is one at most, while it works the lease is live or the row is not active and nobody can claim it, and
  what it read under the lease is still the row's. They give `ClaimExclusive`, and with `refused` they give `WorkingGrantKept`.
- `OrderInv`, `GrantInv` and `SpendInv` are about all callers, overtaken or not: the tokens of a grant are met in the order of their generations, a fresh one is ahead of every other, and
  a callback's grant is met by nobody before it completes. So of two refreshes of one grant at most one has
  a rotated token that is not stored yet, no late apply puts an older token over a newer one, and `StoredTokenSpendable` follows.

### SandboxCache

`StoreInv` orders an upload's and a removal's steps around the row; the object of a row in `doubtful` may go at any time, which is where the code gives up `RowNamesObject`. `FlightInv` says
that only an evicting flight has a victim, `DiskInv` that a file is in a root that exists, `RootInv` that such a root belongs to a session the sweep knows, is removing, or failed to
remove and will not try again (`stranded`). These give `FilesReclaimable`: a file is in `leftover` only after an `rm` of it or of its directory failed. `UsedAccounting` is inductive once `Weight` is known to split over `Without` and `Only`.

### CallerVisibility

`Shape` is what the cache's map, entries and tag index owe each other; each operation of the cache is proved to keep it on its own. `Fresh`, what an invalidation
promises of the values, needs it: an entry has at least the tags of its values, so the index leads to every value written under a tag.

### AuthSessions

From `CallAssumption`: every call belongs to a tab, probes are calls, and no call is `NoCall`. Tabs, calls and generations of the token are unbounded in number. `AuthInv` has six parts.

- `AuthTypes`, `GenInv` (no token in the jar or in a request was not issued) and `FlightInv` (a tab's flight is led by one of its own calls, the lock is held by a fetch, and with a lock
  nobody else fetches) are bookkeeping.
- `LatchInv` gives `LatchTruthful`: a jar without a cookie, a refresh sent without one and an answer that will set the latch each show `SignedOut`: the session is over, or a flight got a
  403 or a 500. After those the tab may latch while the session lives, so `LatchTruthful` excepts them, as the code requires; a lost answer, a 429 and a twin's rotation are not excepted.
- `HealthInv` gives `HealthyKept`, which is not inductive. While no answer was lost at most one rotation is stored and not landed, the jar holds the newest token but for it
  (`RotationInv`); while nothing was overtaken, a refresh the server has not decided presented the newest token or the one before it within its grace (`TwinInv`), so the server finds a
  concurrent rotation and no replay; with a lock it presented the newest (`AloneInv`).
- `YoungInv` gives `RetrySucceeds`: with a lock, and while no answer was lost and no flight refused with another error than 401, whatever is dispatched after a refresh carries a young
  access token, and only such a call retries or skips its own refresh.

### ToolApprovals

From `ApprovalsAssumption`: policies and durations have their types, and names of different kinds differ. Neither the days nor the changes are bounded in the argument. `PageAgrees` is a fact about the two
computations in every typed state (`PageTruth`): the page composes a posture from flags and lists what it calls live, the gate decides from the rows. `ConsentStands` needs three steps. `ShownInv`: what was shown of a tool has the tool's
definition of now among it or among what replaced it, a turn offers only tools its prompt showed, and the digest a request will store is one it was sent from. `ConsentInv`: each override and each
grant was agreed to. `ReadInv`: this was still so at some moment after the turn began, for what each of its four reads found. `PromiseKept` needs `SteadyInv`, that a turn since whose
beginning nothing changed has read what is stored, and `KeptInv`, which follows the promise from the answer to the row that is written.

### AgentTurn

From `TurnAssumption`: every turn has a conversation, and `NoThread` is no thread. Any number of turns and conversations use one app server. `OwnCompletion` is inductive only with an account of what a queue can
hold. `PhaseInv` says what holds at each point of a run; `ThreadInv` that a thread belongs to one conversation; `SoleInv` that a turn outside `shared` is alone in its conversation. From these, `QuietInv`:
once the thread was unsubscribed, nothing of an earlier turn runs on it. Then `QueueInv`: a status of the conversation in the queue is that of the turn's own load, and the end of
another turn never follows it, so that after `gatewayReady` took the status, any end that names the thread is the turn's own. `DueInv` keeps a completion in the queue until it is read, or the
answer to `turn/start` is lost, which is `CompletionKept`.

Looking for that invariant showed what two turns, the instance of section 4, cannot: with a third, a status can be another load's. `Tell` therefore records who heard it (`shared`); section 7 says what happens then.

### Queues

What `Without` and `Weight` compute for every list is proved without the library's induction theorems: the set of the lengths at which a claim fails, if it is not empty, has a
least element (`Least`), and the recursion's own equation refutes it.

## 7. Where code and comments disagree

Two runs expect a violation; `PROJECT.json` quotes the lines they contradict. Freed slots do not wake waiters (`pool.ts:90`). The NestJS
invalidator does not move the epoch that `caching.md:57` relies on (`sdks/nestjs/src/cache.ts:38`; the .NET SDK does), so a verdict computed before
an invalidation is cached after it.

Other observations made while reading and modelling, each read off the code and without a run of its own:

- **Pool.** What a cancelled request settled with is not inspected, so a broken connection may be pooled (`cancel.ts:100`). A connection that lands after its timeout, or
  whose session setup fails, is dropped without `destroy()`. The queue-full refusal counts waiters that were already aborted.
- **Connections.** A refresh that outlasts `LEASE_MS` runs beside a second one (`connection-token.service.ts:24`). The provider then refuses the token that was superseded, and
  `markReauthRequired`, which names the row and not the token, clears the renewed row; a refresh begun before a reconnect can clear the new grant the same way (`:205`). The late holder's release
  also ends the other's lease. Any OAuth error body counts as a refusal, `temporarily_unavailable` and `invalid_client` included (`oauth-client.ts:437-440`), and so does a token type other than
  bearer (`connection-token.service.ts:273`), so a passing fault of the provider costs the grant. A reconnect under a running refresh leaves its lease in force (`connection.repository.ts:339-346`).
- **XML.** After a reload the answer is about newer bytes than the stamp it carries (`document.ts:253`). The worker's own order can evict a document the store still
  holds, contrary to `limits.ts:4`; the retry covers it. A worker that exits without an `error` before its boot message, or never sends one,
  leaves its call waiting and the slot taken for good: `once` rejects on `error` alone (`pool.ts:117`), and the timer is armed after it (`:178`). `close` while a worker boots does the same to one call.
- **Gateway.** Nothing bounds `createMCPClient` (`server-pool.ts:81-92`) or a tool that ignores its signal (`tool-directory.service.ts:210-216`, `281-287`). Such a call is never answered, and a worker's keeps
  its place in the lane beyond its turn.
- **Attachments.** `makeRoom` compares `used` with the budget before the download and charges it after the rename, so flights that start together exceed the budget
  (`sandbox-cache.service.ts:305`, whose comment at `:285` says the call is refused instead). A flight can finish after its attachment was removed. A commit whose answer is lost is
  treated as not made, and the object of a live row is removed (`attachment-store.service.ts:277-291`). Entries and sessions are forgotten before the `rm` that removes their files
  (`sandbox-cache.service.ts:180-189`): when it rejects, with `ENOTEMPTY` after a rename inside it for one, files and directories stay that neither the budget nor the sweep knows, until the session is used
  again or the process restarts. Eviction iterates the live map and follows insertion order.
- **Agent turn.** A stop before the subscription is not heard and the turn runs to its end. A stop while the gateway is awaited reports "unavailable". Two overlapping turns of
  a conversation share a thread and may take each other's completion; `OwnCompletion` speaks of the others. `gatewayReady` knows a status by its thread alone (`agent-turn.service.ts:305`): when a turn stopped while its gateway was starting, the status of its load can reach the
  queue of the next turn before that turn's `thread/unsubscribe` is handled, and is taken for its own. Then `turn/start` is sent though the new load's gateway may fail, which the comment at `:286` rules
  out, and with a third turn an earlier completion can be read as the new one's. Such turns are in `shared`. A spawn that errors leaves a closed connection
  as `running`. Requests have no timeout.
- **Sessions.** A refresh answered with a 500 clears the cookies (`auth.controller.ts:280-289`), so the next flight has no token, is answered 401 and latches while the session
  lives, though `auth-refresh.ts:12-16` keeps the latch for statuses that end it. So does a 403 of the origin guard. A rotation whose answer is lost is answered 409 within the grace and taken as success without a new cookie; after the grace the same cookie revokes the session.
  `REFRESH_TIMEOUT_MS` equals the grace. A rotation that lands after a sign-out leaves cookies of a revoked session. Resending and creating a verification challenge can leave two open.
- **Approvals.** `forget` resolves through the catalog, so a listed grant whose tool was withdrawn or whose connection is inactive cannot be withdrawn
  (`tool-approval.service.ts:183`). `contextFor`'s four reads are no snapshot though `tool-approval.repository.ts:56` says "read in one go". `remember` binds the row's digest at the
  moment of the write (`tool-approval.repository.ts:599-633`), not the definition the prompt showed, while `approval-decision.ts:112-114` says the consent was for the definition the reader read: a tool replaced
  between the prompt and the write runs unasked under its new definition. `ConsentStands` says what is left of it. An older tool list can overwrite a newer one.
- **Server pool.** Two variants of a family can be pooled by interleaving, and the catch of a failed start deletes its key even if a newer server has it, which orphans that
  one. `release` may remove a directory while another closer is closing.
- **Caller visibility.** A NestJS reload clears no cached verdict and moves no epoch, though `caching.md` says it clears everything. The probe queue is computed before the awaits, so a tool disabled
  meanwhile is probed again, and a probe begun before a reload can disable a tool of the new catalog. A probe has no deadline: a pipeline that never answers keeps its flight. `decodeFacts` loses a
  policy whose name contains `=` or `;`. The TypeScript cache applies no jitter.

## 8. What is not shown

- Model-checked only, on the instances of section 4: all liveness (`AbortedCallAnswers`, `CallerAnswered`, `CallAnswered`, `WaiterResumed`,
  `GatewayCallAnswered`, `EnsureAnswered`, `TurnConcludes`), which is outside the prover's reach. Every other property of a passing run is proved. The type invariants need no run: those of the modules with proofs of their own are proved, and
  `ChatProofs` proves types without the bounds that `AuthTypeOK`, `ApprovalsTypeOK` and `AgentTypeOK` add for an instance (the numbers of processes, days, changes and generations).
- The prover cannot expand `SelectSeq`, `:>` and `@@`; the modules it reasons about use `Queues` and function constructors instead.
- Two hazards have a property beside them that does not catch them, as `PROJECT.json` notes: a late `markReauthRequired` of an overtaken caller (`OnlyActiveHoldsTokens` and `WorkingGrantKept` allow it), and
  a change between the three statements of `remember` (`PromiseKept` speaks of requests nothing disturbed).
- Real time is reduced to order: a timer may fire at any moment it is set. Statements about durations (the margin
  between the approval hold and codex's own timeout, the ten-second reuse grace) are not made.
- The drivers, the OAuth provider, codex, Postgres, the object store, the browser, a host application's evaluator and pipeline and the model host are environments that may answer anything the code
  distinguishes.
- Not modelled: the gateway's server pool, stored chat history and the deletion of a conversation, the catalog snapshot of db-core, the dispatch of `invoke_tool` with its deadline, sign-in and
  one-time codes, the token exchange of `openapi-mcp`, the sandbox cache's `onModuleDestroy`.
- Left out for good: parsing, formatting, search ranking, schema conversion, endpoint discovery, request composition, spreadsheet and PDF
  reading, rendering, and the second SDK. They keep no state that survives a call, and the repository tests them against
  fixtures. They are most of the repository's lines, which is why the map covers a small share of it.

## 9. Plan

In the order of importance:

1. **AgentServerPool**: `clientFor`, sweep, release and shutdown with every awaited close a step; *no orphaned
   process*, *one variant per family*, *no client closed under a call*.
2. **Dispatch**: `invoke_tool` of the SDKs, its deadline against a late response, and one computation per tool.
3. **CatalogSnapshot**: the single flight of db-core against invalidation.
4. **ChatHistory**: stored messages against two turns of one conversation; composed with `AgentTurn`.
5. **PageBudget**: the page algorithm of mcp-core over bounded inputs.

No theorem about the modelled safety properties is outstanding; each of these brings its own.
