# Formal models of hive-tenant-gateway

TLA+ specifications of the tenant gateway (`src/src/`), the TLC configurations
that model-check them, and TLAPS proofs of the safety properties of every
component.

```
tlc -config ToolsCall_settlement.cfg ToolsCall     # likewise for every run below
tlapm ToolsCallProofs.tla                          # likewise for every *Proofs module
```

## 1. The system

The gateway is one axum process in front of the hive fabric. Tenants hold API
keys; a key lets its holder call tools (`/v1/tools/call`), run a bounded tool
loop with a model provider (`/v1/orchestrate`), keep provider credentials,
preferences, chats and schedules. A Honey Ledger, reached over HTTP, keeps the
tenants' credits. Every request runs in a handler of its own; a background task,
the schedule runner, fires scheduled prompts.

| component | source | state | operations |
|---|---|---|---|
| tools/call and billing | `routes/mcp.rs`, `ledger.rs` | none of its own; the ledger's balances and applied events, posts in flight | kill switch check, balance gate, debit, dispatch, refund |
| kill switch | `routes/admin.rs`, `lib.rs` | `AppState::suspended_tenants`, in memory | suspend, resume, list; lost on restart |
| orchestrate loop | `routes/orchestrate.rs` | transcript, trace, iteration of one request | resolve the provider, ask the model, dispatch tools, stop |
| rate limiter | `rate_limit.rs`, `auth.rs` | one fixed window for each tenant behind a mutex | `check`, `retry_after_secs` |
| schedules and runner | `routes/schedules.rs`, `bin/tenant_gateway.rs` | table `schedules` | create, list, patch, delete; poll, claim, fire |
| tenants and API keys | `tenant/`, `routes/signup.rs`, `routes/admin.rs`, `auth.rs` | tenants, keys (in memory or Postgres) | create, mint, revoke, resolve |
| LLM provider registry | `tenant/`, `routes/me.rs`, `routes/admin.rs` | providers with at most one default per tenant | register, list, get, delete |
| preferences | `routes/me.rs`, `tenant/mod.rs` | a JSON column and an in-memory copy; the combs' settings at the honeycomb | get, set, refresh the combs |
| choice of provider and floor | `routes/mcp.rs`, `routes/orchestrate.rs`, `bin/tenant_gateway.rs` | none of its own | read the preferences, look up the provider, decode its key |
| chat history | `routes/chats.rs` | tables of sessions and messages | create, rename, append, read, list, delete |
| key vault | `vault.rs` | a key, no other state | encrypt, decrypt |
| usage, combs, whoami | `routes/me.rs` | none | reads, proxied reads |
| errors, health, start-up, retired UI and demo | `error.rs`, `routes/health.rs`, `bin/`, `routes/ui.rs`, `routes/demo.rs` | none | constant answers, configuration |

How they interact. Every authenticated request goes through `auth.rs`: resolve
the key in the store, then the rate limiter. `tools/call` then reads the kill
switch, the preferences and the default provider, and talks to the ledger and
the fabric. `orchestrate` reads the preferences and the provider, and talks to
the provider and the fabric; it consults neither the kill switch nor the ledger,
and no more does the runner. Administrators write the kill switch, the keys and
the providers while handlers run. All shared memory is behind locks held for one
lookup or one write; everything in Postgres is one statement per transaction.

### What is hard here

* Check-then-act across awaits: balance and debit, PATCH's read and write, the
  owner check and the delete, the two statements that move a default, revocation
  against a key already read, a chat's owner checked before the message goes in.
* Two copies of one thing: the row of the preferences and the copy a dispatch
  looks at, written in two steps by handlers that overlap.
* An answer that is late or lost: the ledger client gives up after five
  seconds, while its post may still be applied, before or after the refund.
* Handlers dropped when the client disconnects, and restarts: what was half done
  stays half done; the kill switch and the copies of the preferences are
  forgotten, and the master key of the vault may be another.
  A request to the database or the honeycomb may be carried out after the
  handler that sent it gave up or was dropped.
* Time: fixed windows with a clock read outside the lock, cron times that pass
  while a row is being worked on, expressions that run out, and schedules that
  are due by the database's clock and advanced by the gateway's.
* Progress: every call must end, a due schedule must be selected, a suspended
  tenant or a disabled schedule must come to rest.

### What makes each component correct

* tools/call: what is charged follows what was answered; refused and free calls
  are never charged; the overdraft the gate allows is bounded; calls end.
* kill switch: from suspension on, a tenant's calls only drain.
* orchestrate: the transcript can be replayed to the provider, the trace tells
  what happened, the stop reason is true, the cap holds.
* rate limiter: a bounded burst, no refusal without cause, a Retry-After that is
  close to the end of the window.
* schedules: no claim without a cron time since the last, no due schedule lost
  from sight, none fired once it is at rest.
* keys: a revoked key admits nobody new, a valid one is never refused, no tenant
  is left without a key except by a broken-off creation.
* providers: one default at most, never lost except for a cause, no row changed
  by an operation of another tenant.
* preferences: the copy is the row unless handlers overlapped or failed, and
  reading repairs it; the combs agree.
* dispatch: a task gets a provider of its own tenant, and goes without only for a
  cause; a call has the floor its tenant set.
* chats: no message in a session deleted or of another tenant, no torn read, a
  list in the order of the last message.

## 2. The modules

| module | models | uses |
|---|---|---|
| `KillSwitch` | the suspended set | |
| `ToolsCall` | handlers of `tools_call`, ledger, network, administrator | extends `KillSwitch` |
| `ToolsCallProofs` | the proofs about `ToolsCall`, and that it implements `Settlement` | extends `ToolsCall` |
| `Settlement` | abstract: what billing promises of each call | |
| `ToolProtocol` | abstract: what a provider expects of a tool conversation | |
| `Orchestrate` | one `orchestrate` request and an administrator | extends `KillSwitch`, implements `ToolProtocol` |
| `RateLimiter`, `MCRateLimiter` | `check` and `retry_after_secs` | |
| `Schedules`, `MCSchedules` | table, PATCH handlers, runner | |
| `ApiKeys`, `MCApiKeys` | tenants, keys, the extractor, both stores | |
| `ProviderRegistry` | abstract: the registry of providers | |
| `LlmProviders` | registration and deletion over both stores | implements `ProviderRegistry` |
| `Preferences`, `MCPreferences` | POST and GET of the preferences, the copy, the combs | |
| `Dispatch`, `MCDispatch` | the choice of provider and floor, the vault | extends `LlmProviders`, instantiates `Preferences` |
| `Chats`, `MCChats` | sessions and messages | |
| `OrchestrateProofs`, `RateLimiterProofs`, `SchedulesProofs`, `ApiKeysProofs`, `PreferencesProofs`, `ChatsProofs` | the proofs about each | extend the module they are named for |
| `DispatchProofs` | the proofs about `LlmProviders` and `Dispatch` | extends `Dispatch`, instantiates `PreferencesProofs` |

An `MC` module adds what only TLC needs: a symmetry set, or the patches and
preferences a client may send. Operators introduced by "Fault seeded" are faulty variants of the
definition that follows them; no specification uses them. They show which bug
each property tells from the code. No definition is replaced by any
configuration, and no module declares a RECURSIVE operator.

### ToolsCall

`pc[c]` is the await a handler is at: `gate` (balance request), `cleared` (about
to debit), `debiting`, `dispatched`, `refunding`, and `asking` for the free
tools. `net` are posts in flight, `applied` those the ledger has applied, keyed
by operation and correlation id as the idempotency keys are. `LedgerClient::post`
returns `Ok` only after the ledger applied the event (`PostAnswered`); it returns
`Err` when the post was lost or rejected, or the timeout struck while the post is
still on its way (`PostFailed`). The handler goes on in both cases. A client
that goes away drops the handler with its pending post sent or not
(`Disconnect`); `Crash` does so to all and forgets the kill switch. An element
of `Calls` is a handler slot, used again as a new handler with a new correlation
id after it has ended and left nothing in flight. `lost` and `blind` are history:
posts that never arrived, and tenants for whom the gate was opened because the
balance request failed (`mcp.rs` logs this and continues).

`metered` tells a gateway started with `LEDGER_URL` from one without, whose calls
go straight to the fabric (`SkipLedger`) and are not refunded (`UnbilledFails`).

Amounts are one credit, as in the code. What preferences and provider put into
the dispatched request is in `Dispatch`; the budget taken from the answer to the
debit is left out.

`Settlement` is what all this comes to: a call has a verdict (open, exempt,
succeeded, failed, dropped), its credit is taken at most once and only if it is
not exempt, and given back at most once and only if it failed; nothing else but a
top-up moves a balance. The mapping reads the verdict off `pc` and `result`, and
what was taken and given off `applied`.

### Orchestrate

`phase` is the await the handler is at, the loop variables have the code's names.
The transcript keeps what the protocol is about: ids of the calls asked for, and
the id and outcome of each result. A turn may ask for any sequence of up to
`MaxCalls` named tools, known or invented. Provider lookup, vault and factory are
one step that succeeds or fails. `ToolProtocol` is implemented under a mapping
that reads what is owed off the transcript itself, not off the list of pending
calls, so a result dropped, repeated or reordered is a step it does not allow. The trace
is held against the transcript the same way: both are read as a set of outcomes,
each with its turn, its place in the turn, its call and whether it succeeded.

The client's tool list only filters what the model is shown (`filter_tools`). A model
may ask for other tools all the same, and `Submit` runs any of the catalogue, as
`dispatch_tool` does (section 5); the list decides nothing else and is left out.

### RateLimiter

`now[h]` is the clock as the handler read it, before the mutex: `Allow` and
`Limit` are the critical section of `check`, working with a time up to
`MaxStall` ticks old. `Limit` is followed by `TellRetryAfter`, under a second
lock, when another handler may have opened a new window. Two ticks make a
second, so that rounding shows. `admitted` is history: the ticks at which requests
were let through, which the bursts are counted over.

### Schedules

A cron expression is the set of ticks it names, `NULL` the absent next run, which
an expression that has run out advances to. There are two clocks, as in the code:
`clock` is the database's `NOW()`, by which a schedule is due
(`tenant_gateway.rs:175`), and a next run is computed from a reading of the
gateway's `Utc::now()` (`tenant_gateway.rs:193`, `schedules.rs:91`), any time of
`Readings`. `MaxBehind` and `MaxAhead` bound the distance. The code has no such
bound; it is an assumption on the deployment, named in the module, and the
properties say what it costs. The runner sleeps (`Wake`), selects (`Poll`, any of
the due rows up to the limit, since the SELECT has no order; or `PollFails`, whose
error is taken for an empty batch), then claims and fires row by row. `SelectLimit`
is 50 in the code. A restart drops the runner's batch and the handlers, except
those whose UPDATE the database already has.

The runner's batch `due` and the merged row of each PATCH are copies, written back
later; the history variable `torn` collects schedules for which a copy that had
gone stale was written or used, or a write failed. Create, delete and the two
statements of PATCH are transactions of their own, as in the code. Reading the
list changes nothing and has no action.

### ApiKeys

Resolution is three steps: read (`ReadSnapshot` in memory; in Postgres
`LookupByPublicId`, then for keys from before the public ids `ScanLegacy`),
verify and touch (`Touch`), serve. Creation of a tenant is two: the row, then the
key; the answer that shows the key may be lost. A store in memory is seeded at
every start (`main`). Verification of the hash is by the identity of the key;
tokens nobody was shown change no state and are left out, as are scopes.

### LlmProviders

In memory a registration is one step under the lock. In Postgres the
registration of a default is `ClearDefault`, then `InsertDefault` or, when the
tenant has a default again, `InsertConflicts` (the partial unique index).
The tenant's delete checks the owner and deletes in two steps; the
administrator's does not check. Both deletions are by tenant and id
(`Without`). `OperationOf(t)` is what is done by tenant `t`, or for it by an
administrator: the actor that the property `TouchesOwnOnly` is about and that the
state of `ProviderRegistry` does not show. `granted` is history: tenants that were given
a default which no deletion, broken-off registration or loss of the store has
taken since.

### Preferences

POST is a row (`StoreRow`, whose failure is ignored), a copy (`CacheSet`), a list
of combs (`ListCombs`) and one refresh after another (`RefreshComb`, the
preferred comb first); GET is a row (`ReadRow`) and a copy (`SyncCache`). A GET
that cannot read the row answers with the copy and changes nothing. The record
keeps the fields something depends on.

A PATCH that is not answered within five seconds, an UPDATE that fails, and
whatever a handler was waiting for when it was dropped, may still be carried out:
it stays in `late` until it is (`LateUpdate`, `LateRefresh`) or for ever. Nothing
bounds how late; `MaxLate` bounds how many wait at one time.

`torn` and `mixed` are history: tenants whose copy, and whether the combs, were
last written by handlers that met another's, failed or broke off, or were
overwritten by a late request.

### Dispatch

`LlmProviders` and `Preferences` move as they do alone; a restart is one step of
both. A task is prepared in the steps of the code: `tools_call` reads the floor
and, unless the client brought a provider, reads the copy again and looks the
provider up; the runner reads the copy once and has a floor of its own;
`orchestrate` looks up what the request names or the default, and is refused
without one, or with one whose type it does not know (`orchestrate.rs:124`, `:159`).
`Unsupported` are the providers of such a type, which no store refuses to register;
`tools_call` and the runner take any type but "anthropic" for "openai"
(`mcp.rs:177`, `tenant_gateway.rs:252`), and are one kind of task from the look-up
on. `sealed` is the master key a stored API key was encoded under,
`None` for `raw:` keys; `Decodes` is the three cases of `decode_from_storage`. A
restart may come with another master key. The cipher is taken to be one.

`tools_call` falls back to the floor of the tenant's configuration when its
preferences have the default "Private" (`mcp.rs:139`). Neither store has such a
floor: both return tenants with an empty configuration (`tenant/pg.rs:66`,
`tenant/in_memory.rs:65`), so the fallback is "private", which is also the default in
lower case, and `ReadFloor` has one value for the two.

In the composition the preferences move without failed and late requests (`Faults`
less `error`, and `MaxLate` zero): the choice of a provider reads the copy only, and
any copy may come about without them.

### Chats

Appending is `CheckSession`, `InsertMessage` (or `InsertRefused`, the foreign
key), `StartBump` and `CommitUpdate`; reading is `ReadSession` and `ReadMessages`.
An UPDATE takes its `NOW()` when it starts and may wait for the row, so its time
is old when it is written; `MaxStall` bounds the wait. The failure of a bump is
ignored (`BreakOff`, recorded in `unbumped`). Listing is one query and has no
action. The deletion of whole tenants is not an operation of the gateway.

## 3. The runs

| run | checks | shows |
|---|---|---|
| `ToolsCall_settlement` | `TypeOK`, `BilledAsAnswered`, `NoStrayPosts`, `OverdraftBound`, `ImplementsSettlement`, `SuspensionDrains`, `EveryCallEnds`, `SuspensionQuiesces` | under every fault, with and without a ledger, calls are settled as they were answered, two handlers overdraw by at most one credit, suspension only drains, and every call ends |
| `ToolsCall_duplicate` | `DuplicatePostChargedOnce` (violated) | finding 1 |
| `Orchestrate_loop` | `TypeOK`, `TraceTellsTranscript`, `StopReasonIsTrue`, `ImplementsToolProtocol` | caps absent, below, at and above the limits, with calls that fail in every way |
| `Orchestrate_killswitch` | `KillSwitchStopsTools` (violated) | finding 2 |
| `RateLimiter_stalled` | `TypeOK`, `BurstBound`, `RetryAfterIsClose`, `RefusedOnlyWhenSpent` | three windows' worth at most for handlers that wait up to half a window for the mutex, no refusal without cause, a Retry-After short by less than a second |
| `Schedules_runner` (`MCSchedules`) | `TypeOK`, `ClaimsFollowCron`, `DisabledComesToRest`, `DueIsSelected` | under every fault, a schedule that lost no update and has not run out is claimed only after a time of its expression has passed since the last claim, but for the tick the gateway may be behind; rest after disabling; a due schedule is selected, or stops being due, unless polls that fail, are cut off or find more than a batch recur for ever |
| `Schedules_doublefire` | `NoDoubleFire` (violated) | finding 3 |
| `ApiKeys_lookup` | `TypeOK`, `RejectedForCause`, `TenantsReachable`, `RevocationDrains` | revocation against resolution, in both stores and on both lookup paths |
| `Dispatch_providers` (`MCDispatch`) | `WellTyped`, `KeepsADefault`, `ImplementsRegistry`, `TouchesOwnOnly`, `QueenIsOwn`, `QueenMissingForCause` | both stores implement the registry, lose no default but for a cause, and no operation changes a row of another tenant; a task's provider is its tenant's own, or missing for a cause, across restarts, master keys and unsupported types |
| `Dispatch_restart` | `DispatchUsesStored` (violated) | finding 4 |
| `Preferences_sync` (`MCPreferences`) | `TypeOK`, `CopyFollowsRow`, `CombsAgree`, `ReadsRepair` | copy and row, combs among one another, and repair by reading, with overlapping handlers, failures, restarts and a late request |
| `Chats_history` (`MCChats`) | `TypeOK`, `InOwnSession`, `DatedByMessages`, `ReadsWholeSession` | appends, renames, deletions and reads at once |

### Bounds

* `ToolsCall_settlement`: two handler slots are enough for every race the
  properties are about (two handlers on one credit, a debit and a refund of one
  call beside another call), and slots are used again without limit. A tenant
  whose balance is outside `-MaxDebt..MaxFunds` starts no new call: the balances
  stay finite, and the overdraft of -1 is reached. One tenant: the safety
  properties are proved for any number of them. The liveness checks go without
  symmetry.
* `Orchestrate_loop`: default cap 2, hard cap 3; the requested caps are none, 0,
  3 and 9, so the cap is defaulted, raised, met and cut. Two calls in a turn,
  so the first may fail and the second succeed.
* `RateLimiter_stalled`: a window of 4 ticks and a time line of 8 hold two full
  windows and a stretch across both. One tenant, since windows are independent.
  Two handlers come within one request of the bound of three windows' worth (five
  of six); with one request to a window the bound is attained, for a window of two
  ticks and a wait of one as for a window of one and no wait.
* `Schedules_runner`: two schedules and batches of one, so one waits while the
  other is claimed; one PATCH handler is enough for a stale write, since the runner
  is the other writer. Two expressions, of a time each, so a PATCH
  may replace one while the runner holds the other. A gateway up to a tick behind, so
  the time just claimed may be the next again. An expression runs out at its tick, so
  from then on its schedules are due at every poll: being due recurs although the time
  line ends. `SomeChanges` are a PATCH of the title, of `enabled`
  either way, and of the expression. An empty prompt, which only skips `Fire`, and a
  gateway that is ahead are left to the proofs. The premise of `DueIsSelected` is
  read off the steps (`PollMisses`); the lasting ways to miss a schedule are in it
  and nowhere else.
* `Schedules_doublefire`: no fault and one clock, so that the PATCH is the only cause.
* `Dispatch_providers`: two tenants, so a provider may be another's, two handlers
  and two providers, so two registrations of defaults overlap; one tenant has
  tasks, and one POST of it names a provider or none was set; one provider is of a
  type orchestrate does not know. One task at a time: tasks share nothing. The combs
  are left to `Preferences_sync`. `disconnect` is left out, as `error` has the same
  effect on a registration.
* `Preferences_sync`: one tenant, whose handlers meet at the row, the copy and the
  combs; tenants share only the combs, where the handlers of one tenant interfere
  as those of two would. Two combs, two handlers, three requests: clamped, free
  of the clamp, out of range. `MaxLate` is one: at most one request given up is
  still to come, before, between or after the steps of the handlers that follow. The
  proofs hold for any number.
* `Chats_history`: two of everything, and a time line of four ticks on which an
  update may wait one. The proofs hold without these bounds.
* `ApiKeys_lookup`: `Keys` bounds the keys ever minted, three: a seed or a legacy
  key, and two more. A store in memory restarts only while a key is left for its
  seed.

`Explored`, `MaxDebt`, `MaxFunds`, `MaxStall`, `MaxTime`, `MaxCalls`, `MaxLate` and the
reuse guards of slots and ids (`Release`, `Fresh`, `FreshSession`, `FreshMessage`,
`Drawn`, `CreateSchedule`'s guards) are
the only bounds not in the code. No configuration turns the deadlock check off;
in `Orchestrate` the administrator, in `RateLimiter` the last tick's handlers, in
`Schedules` the clients and in the others the restarts or new requests always
have a step.

### Fairness

* `ToolsCall`: weak fairness of each handler and of the ledger for each call. A
  handler waits only for an HTTP answer with a five-second limit (`ledger.rs`) or
  for the fabric, which is given `timeout_seconds`. The ledger processes what
  reaches it; posts may be lost, so they need not reach it. Nothing is assumed of
  clients, administrators, top-ups or restarts.
* `Orchestrate`: weak fairness of the loop: providers and the fabric answer or
  their clients time out. A client that disconnects ends the behaviour, and is
  left out.
* `Schedules`: weak fairness of the runner, a task that never returns and whose
  database calls end, well or not, and of the second half of a PATCH. None of
  clients, and none of the order in which rows are selected.
* `Preferences`: weak fairness of each handler once it has begun: requests to the
  honeycomb time out after five seconds, and the database is assumed to answer or
  fail, as everywhere here. None of late requests, which need never come. That a tenant reads again and again is the premise of
  `ReadsRepair`, not an assumption.
* `RateLimiter`, `ApiKeys`, `LlmProviders`, `Dispatch` and `Chats` have no liveness
  properties and need no fairness.

## 4. What is proved

`ToolsCallProofs` proves, for every finite non-empty set of slots, every set of
tenants and bodies and every set of faults:

| theorem | states |
|---|---|
| `TypeInvariant` | `Spec => []TypeOK` |
| `StrayPostsTheorem` | `Spec => []NoStrayPosts` |
| `BillingTheorem` | `Spec => []BilledAsAnswered` |
| `OverdraftTheorem` | `Spec => []OverdraftBound` |
| `SuspensionTheorem` | `Spec => SuspensionDrains` |
| `SettlementTheorem` | `Spec => ImplementsSettlement` |

Assumptions: `CallsAssumption` (finitely many slots, at least one: handlers alive
at once are finite), `BoundsAssumption` (the exploration bounds are naturals).
The invariants are not inductive by themselves. The argument:

* `PostsInv`: a debit exists only past the step that sends it and only of a
  billable call; a refund only of a call whose dispatch failed. It needs that a
  slot is released only with nothing in flight. `NoStrayPosts` follows at once.
* `BillingInv`: from `debiting` on, the debit of a call is in flight, applied or
  lost, and from a failed dispatch on so is the refund. A restart or disconnect
  removes posts only of handlers it drops, so calls that were answered keep
  theirs. With nothing in flight or lost this is `BilledAsAnswered`.
* `OverdraftInv`: let `Committed(t)` be the calls the gate has let through for
  tenant `t` whose debit is not yet in the balance. For a tenant never let
  through blindly, the balance less their number is at least one less the number
  of slots. Letting a call through needs a balance of at least one, and at most
  all slots are committed, so the invariant holds after it whatever it was
  before; applying a debit lowers both the balance and the number; every other
  step only lowers the number or raises the balance (`NoNewCommitment`).
  The bound on the balance alone would not be inductive: it forgets the debits
  still under way.
* `SuspensionDrains` is an action property: one case for each action, with
  `PostsInv` to exclude that a new handler inherits an old debit.

`SettlementTheorem`: initial states map to initial states, and each action to
one action of `Settlement` or a stutter: an admission to `Begin`, the gate's
refusal to `Refuse`, the fabric's answer to `Decide`, a disconnect or restart to
`Drop` of the calls that were still open, the ledger's two steps to `Take` and
`Give`, the reuse of a slot to `Renew`. It needs `PostsInv` and `BillingInv`, and
`InFlightInv`: no post is applied and still in flight, so none is applied twice.

`ChatsProofs` proves every property of `Chats`, for every set of tenants, rows and
handlers and every time line:

| theorem | states |
|---|---|
| `TypeInvariant` | `Spec => []TypeOK` |
| `OwnSessionTheorem` | `Spec => []InOwnSession` |
| `WholeReadTheorem` | `Spec => ReadsWholeSession` |
| `DatedTheorem` | `Spec => []DatedByMessages` |

`ChatsAssumption` says that the bounds are naturals and the constants that stand
for absence are no rows and no operations. The strengthening is `OpInv`: what a
handler found in its earlier statement is still so, or the session is gone. It
rests on ids not being drawn twice while something refers to them, as uuids are
not. `PastInv` (no message is dated after the present) carries the last theorem:
an update that commits was started at most `MaxStall` ago, and every message it
finds is no newer than now.

`OrchestrateProofs`, for every set of requested caps, every answer of the provider
and the fabric, and any number of tools in a turn:

| theorem | states |
|---|---|
| `TypeInvariant` | `Spec => []TypeOK`, with the hard cap on iterations |
| `StopReasonInvariant` | `Spec => []StopReasonIsTrue` |
| `TraceInvariant` | `Spec => []TraceTellsTranscript` |
| `TranscriptReplays` | `Spec => Replay!Safety`: every step is one of `ToolProtocol` or none |

`LoopInv` is the strengthening of the first two: while the request is open, the
iteration is the length of the trace plus one and every entry is a turn that asked
for tools. The stop reason alone says nothing of a request that has not stopped. It is
stated as an equivalence: whoever spends the cap on tool turns is told so, and nobody
else is.

The last two rest on `TranscriptInv`, which says how the transcript, the pending
calls and the recorded ones hang together. While a turn is open (`OpenTurn`) its
message has the ids of all its calls, the results after it are those of the
recorded calls in order, and the pending calls are the rest; there are as many
turns as iterations. Between turns nothing is owed. From that, what is owed is the
ids of the pending calls (`OwedIsPending`), an answer takes the first of them, and
the request ends only with none. For the trace, `TellsMore` says that a result adds
one outcome to what the model was told, `OneMoreOutcome` that it adds the same one
to the record of the turn, and `TracesTurn` that the end of a turn moves the record
to the trace. `Grows`, `TurnAdded` and `ResultAdded` are the lemmas about appending
to a transcript. Assumptions: the default cap is within the hard one, requested caps
are naturals (`u32`).

`RateLimiterProofs`, for any tenants, handlers, limit, window, wait and time line:

| theorem | states |
|---|---|
| `TypeInvariant` | `Spec => []TypeOK` |
| `RetryAfterInvariant` | `Spec => []RetryAfterIsClose` |
| `BurstInvariant` | `Spec => []BurstBound` |
| `RefusalInvariant` | `Spec => RefusedOnlyWhenSpent` |

`LimiterInv` adds to the types that a refused handler finds a window, although
another may have renewed it since, that a window ends at most a window from now, and
that a reading of the clock is at most `MaxStall` old. `WholeSeconds` is the
arithmetic of the division.

The bursts need `CountsInv`, which accounts for all requests ever admitted by the
one window that is left of them (`Accounted`). Say it ends at `r` and has counted `c`:
at least `c` requests were admitted since `r - window_size`, none since `r +
MaxStall`, and since `r + MaxStall` less `k` windows at most `c` and `k - 1` full
windows. A new window opened with an old reading of the clock ends at least a window
after the one before (`NewWindow`), so what was `k` windows back is now `k + 1` back;
an admission raises the count and each sum that includes the present by one
(`AdmissionAccounted`). `BurstBound` alone is not inductive: nothing in it ties the
requests to the count of the window. `Spanned` is the number of windows a stretch
can meet, and `RefusedOnlyWhenSpent` is the lower bound of `Accounted` at the step
that refuses. The sums are cardinalities of sets of positions, so the lemmas about
them (`Positions`, `CountAppended`, `CountMonotone`) need no induction.

`SchedulesProofs`, for any ids, patches, handlers, batch size, faults and time line:

| theorem | states |
|---|---|
| `TypeInvariant` | `Spec => []TypeOK` |
| `ClaimsInvariant` | `Spec => ClaimsFollowCron` |

It holds for every `MaxBehind` and `MaxAhead`, and without any assumption on the
expressions: that the claimed row has a time to come is in the property itself, since
a NULL next run is due at once. The tolerance of `MaxBehind` is in the property too,
and is needed (section 5). `RunsInv`: the row and every copy of it that
no write has overtaken wait for a time of their expression that is later than the last
claim less `MaxBehind`, or have none, unless the schedule lost an update; the batch
has one copy of a row, and knows the expression of the row unless it was overtaken.
The last two are what makes a claim leave the row right: it computes the next run from
the expression it selected. `FirstTick`, that a set of times has a least one, is proved
from the well-foundedness of the naturals.

`ApiKeysProofs`, for any tenants, keys and handlers, both stores and every fault:

| theorem | states |
|---|---|
| `TypeInvariant` | `Spec => []TypeOK` |
| `RejectionInvariant` | `Spec => []RejectedForCause` |
| `RevocationInvariant` | `Spec => RevocationDrains` |
| `ReachableInvariant` | `Spec => []TenantsReachable` |

The strengthening of the second, `KeysInv`, says where a request stands: its key
was drawn, it is scanned for only if it has no public id, and in a database no key
is lost. `MintsKnown` (a key is minted for a tenant that exists) strengthens the
types. All rest on `KeysKept`, what any step may do to the table of keys.

`PreferencesProofs`, for any tenants, handlers, combs and requests:

| theorem | states |
|---|---|
| `TypeInvariant` | `Spec => []TypeOK` |
| `CopyInvariant` | `Spec => []CopyFollowsRow` |
| `CombsInvariant` | `Spec => []CombsAgree` |

`CopyFollowsRow` is not inductive: it allows a copy that is behind the row while a
GET is on its way to it, and a GET may break off and leave no trace. `CopyInv`
allows it only for a POST (`Behind`) and says that a handler that met no other, and
no late UPDATE, has the row's value (`CleanHandlers`). `CleanRefresh`, for the combs,
says that a refresh that met no other, and no late PATCH, is the only one, and which
combs it has reached. A request in `late` needs no invariant: it spoils, when it
comes, whatever it meets.

`DispatchProofs`, for any tenants, providers, requests, master keys and tasks:

| theorem | states |
|---|---|
| `TypesInvariant` | `DispatchSpec => []WellTyped` |
| `DefaultInvariant` | `DispatchSpec => []KeepsADefault` |
| `RegistryImplemented` | `DispatchSpec => ImplementsRegistry` |
| `OwnOnly` | `DispatchSpec => TouchesOwnOnly` |
| `QueenInvariant` | `DispatchSpec => []QueenIsOwn` |
| `MissingInvariant` | `DispatchSpec => QueenMissingForCause` |

What the registry does alone is proved first: `OneDefault` (never two defaults, as
the index or the lock sees to) and `KeepsADefault` are inductive given the types,
and each statement maps to one step of `ProviderRegistry` or a stutter. `OwnTouched`
goes through the statements once more, with the tenant they are made for. The
composition implements its two parts, `Spec` of `LlmProviders`
(`ProvidersInIt`) and of `Preferences` (`PreferencesInIt`), so what is proved of
them carries over, the types of the preferences by way of an instance of
`PreferencesProofs`. `QueenIsOwn` needs that a row does not change hands
(`OwnersStay`).

Assumptions of these modules: constants that stand for absence are no rows, jobs
or operations; customers are tenants; a request that names a provider names one
of the ids. TLC evaluates each in the runs.

TLC has checked each of the strengthenings as an invariant on the instance of the
module's run.

Only model-checked: liveness (`EveryCallEnds`, `SuspensionQuiesces`,
`DisabledComesToRest`, `DueIsSelected`, `ReadsRepair`) and the fairness that
`ImplementsToolProtocol` asks for besides what `TranscriptReplays` proves. They need
ENABLED and fairness, which are out of the prover's reach. Every invariant and every
action property a passing run checks is proved.

## 5. Findings

1. The idempotency key is drawn afresh by each handler (`mcp.rs:205`), so a POST
   delivered twice is debited twice; the comment at `mcp.rs:200` says it is not.
2. `orchestrate` never reads the kill switch; `lib.rs:83` and `admin.rs:161` say
   all tool calls of a suspended tenant return 402.
3. A PATCH that keeps the expression writes back the `next_run_at` it read
   (`schedules.rs:262`), undoing the runner's advance: the schedule fires twice,
   against the comment at `tenant_gateway.rs:190`.
4. A dispatch looks at the copy of the preferences only (`mcp.rs:127`), which is
   empty after a restart until the tenant reads or sets them, so the default
   privacy floor is used although the row has another; the comment at `me.rs:452`
   says they are persisted so that they survive restarts.

Divergences met on the way and not checked by a run of their own: the limiter is
called a token bucket and is a fixed window (`rate_limit.rs:1`); its Retry-After
is documented as 60 (`:8`), is computed, and is rounded down, so a client that
waits as told may be refused again; a second revocation is 404 in Postgres and OK in memory; `revoked_at` is checked
in `auth.rs:60` on rows that are never revoked.

* Billing: a debit that failed is logged and the call dispatched; when the
  dispatch fails, the refund is posted all the same (`mcp.rs:267`) and returns a
  credit never taken. `Settlement` allows it: `Give` does not ask whether the
  credit was taken. Tools dispatched by `orchestrate` and by the runner are not
  billed at all.
* Orchestrate: its tools get floor and timeout, and no provider, where
  `orchestrate.rs:332` says "same logic as in mcp.rs". Stored providers of a type
  other than "anthropic" and "openai" can be registered and made the default, and are
  then refused (`orchestrate.rs:124`), where `tools_call` and the runner use them.
  The client's tool list only filters what the model is shown: `dispatch_tool` runs
  any tool of the catalogue (`orchestrate.rs:319`), where the comment at
  `orchestrate.rs:60` says that the list may reject a tool the model asks for. The
  stop reason named there does not exist.
* Schedules, clocks: a schedule is due by the database's clock and advanced by the
  gateway's (`tenant_gateway.rs:175`, `:193`). If the gateway is behind when the poll
  comes upon a time, the time just claimed is the next to come, and the schedule
  fires twice, against the comment at `tenant_gateway.rs:190`. TLC finds it as a
  violation of `NoDoubleFire` without any PATCH once `MaxBehind` is 1.
* Schedules, end of time: an expression without further times (one that names a year)
  advances to NULL (`tenant_gateway.rs:194`), which the poll takes for due: the
  schedule fires at every poll, against the same comment. It is a violation of
  `NoDoubleFire` too, without PATCH and with one clock.
* Schedules, batches: the poll takes fifty rows without an order
  (`tenant_gateway.rs:176`). While more are due at every poll, the same one may be left
  over every time, where the comment at `:161` says that any due entries are fired.
  `DueIsSelected` names it as one of the causes.
* Schedules, failures: a run whose UPDATE failed fires again (`tenant_gateway.rs:196`), and one a
  restart cuts off between UPDATE and dispatch is lost; nothing in the repository says
  otherwise, and the properties excuse both.
* Preferences: the pool share of at least 50 is enforced for tenants that are not
  premium, where `tenant/mod.rs:125` says the opposite, and the defaults have a
  share of 0. The share a POST asks for goes to every comb that is online, whoever
  owns it; `me.rs:471` and `:524` say fire-and-forget and in parallel, and the
  handler waits for one comb after another. `lib.rs:76` still calls the
  preferences in-memory.
* Dispatch: the runner's floor is always "private" (`tenant_gateway.rs:225`), while
  `tenant/mod.rs:91` calls the preference a floor for all tasks.
* Vault: `vault.rs:9` suggests `openssl rand -base64 32`, whose padded output
  `from_env` does not decode; the key is then treated as not set.
* Chats: `lib.rs:79` says they return 503 without a database; `require_pool`
  returns an internal error.
* Usage: `credits_used_today` sums at most the last ten events (`me.rs:328`).

## 6. Plan

Done: the models of every component that keeps state, and the proofs of the safety
properties named in section 4.

Next: a composition of kill switch, tools/call, orchestrate and the runner on one
ledger: which of the ways to dispatch are billed and stopped. Each way is modelled;
what is missing is one statement about all of them.

### Not modelled

The vault's cipher (external), the reads and proxied reads of `me.rs` with the
text of the comb's start-up command, the table of errors, health, start-up
configuration, and the retired UI and demo routes, which are not mounted: none
keeps state. The fabric, the ledger and the providers are outside the repository
and appear as far as the code relies on them.
