# Zenith Relay: TLA+ specifications

Zenith Relay routes the traffic of coding agents over a pool of ChatGPT accounts and API sources. It is a library
(`crates/relay-core`), a desktop application (`src-tauri`) and a server (`relay-server`). This directory holds TLA+
specifications of the parts whose correctness depends on the order of steps: what several tasks do to the same state,
what a failed save or a crash leaves behind, what a retry may repeat, and what a stream may still send after a failure.
TLC checks them on small instances. TLAPS proves the main properties of the refresh queue and its worker, the token
authority, the tasks of agent identities, the pool scheduler, the retry loop of a request, the cached catalogs of sources, the
server's wakes, the portable update and the cost estimate for every instance.

`PROJECT.json` lists the components with their status, the runs, the source lines of the definitions, the hazards with the
properties that would catch them, the findings and the theorems. Under `map`, a helper that stands for part of an operation's
lines, or for the few lines beside them, is covered by the entry of the operation that uses it; definitions that stand for less
than about ten lines have no entry of their own, and the comment above them names their function.

## The system

| Part | Source | State | Who acts on it |
| --- | --- | --- | --- |
| Pool scheduler | `relay-core/src/scheduler`, `runtime` | candidates, cooldowns, half-open marks, reservations, fences, affinity; one mutex | every request, management commands, quota updates |
| Request execution | `relay-core/src/gateway` | the tried set, attempts and repairs of one request; its answer as a body, a stream, a socket or an image | the request's own loop, against arbitrary upstream answers |
| Protocol bridges | `relay-core/src/protocol` | numbered output items, a bounded store of bridged turns | streams of Messages and Gemini upstreams |
| Token authority | `relay-core/src/accounts/token_authority.rs`, adapters of both hosts | one slot per account behind an async mutex; vault and record | requests, 401 handling, rebuilds, quota refreshes, deletion |
| Quota refresh | `relay-core/src/quota`, both hosts | the refresh queue, permits, the loop, the account record | callbacks, commands, the loop and its tasks |
| Wake automation | `relay-core/src/automations`, both hosts | the queue of wake cycles in memory and in the store | quota transitions, the wake loop, commands, restart |
| Desktop local pool | `src-tauri/src/local_pool` | records, vault, keyring, profiles, sign-in and import sessions, usage ledger | commands under `setup_guard()`, background loops, crashes |
| Server | `relay-server/src` | SQLite store, vault, runtime, backups, usage channel | HTTP handlers and jobs, which nothing serialises |
| Catalogs of sources | `relay-core/src/runtime/source_metadata.rs`, `sources` | cached model catalogs, one lock and one throttle; the bindings of a source | catalog requests, explicit refreshes, prefetches, discovery |
| Prices and usage | `relay-core/src/{pricing,usage}` | price catalog with its cache; pure estimates | a background loop, requests |
| Portable update | `src-tauri/src/portable_update.rs` | executables on disk, the helper process | the application, the helper, Windows |

A request enters through the gateway, selects and reserves a candidate in the scheduler, obtains a token from the
authority, sends, and records the outcome: success, failure, cooldown, affinity, usage. Usage marks the account for a
quota refresh. The quota loop refreshes accounts that are due; a refresh that sees a full primary window delivers a
transition to the wake coordinator, which schedules a small request that starts the next window. Commands and
management handlers change accounts, sources and configuration while all this runs.

## Modules

Each module models one component: its state, its initial states and one action per operation or per stretch between two
awaits. Its header says which files it stands for, and `map` in `PROJECT.json` gives the lines.

| Module | What its state and actions are |
| --- | --- |
| `QuotaRefreshQueue` | The table, the heap with lazy deletion, generations and permits; one action per operation of `quota/queue.rs`. |
| `QuotaSchedule` | What the queue promises: when each account's refresh is wanted and who is being refreshed. |
| `DesktopQuotaWorker` | Extends the queue with the loop, its stored notification, the session switch and the tasks. |
| `AccountRefresh`, `QuotaReading` | One account kept up to date by four callers: a refresh from its permit to its settlement over a record that others change; the reducers that turn an observation into the record are operators of `QuotaReading`. |
| `WeeklyCredit` | Two refreshers that redeem reset credits, on the desktop and on the server. |
| `TokenAuthority` | The slot, vault, record and the provider's live token; a task has a step for every stretch between two awaits. `RebuildSpec` adds the server's rebuild. |
| `AgentIdentity` | The task id an account that signs its requests works under: in the vault, in the executor of each runtime, and as remembered by every request and job that renews it; the saves of tasks and tokens that may overlap. |
| `DesktopCredentials` | The four places that hold a login on the desktop: keychain, slot, profile and whoever rotates it. |
| `PoolScheduler` | Everything behind the scheduler's mutex, and the lease of each request with how far it has settled. |
| `RoutingPolicy` | Which eligible candidate is preferred: the comparison, the fold over it, protected accounts, storms. |
| `SessionAffinity` | Bindings of responses and prompts in memory and in the store; the turn state a client echoes. |
| `GatewayExecution` | The loop of `execute_request`: one action per way an attempt can end, from an incompatible route over a lost body to a stream that fails after it began. |
| `AccountEndpoint` | One attempt on an account and what each refusal costs the account. |
| `WebSocketBridge`, `ResponseStream`, `ImageExecution` | A socket over several turns, one streamed answer, one image request, each with every way to end. |
| `BridgeStreams`, `BridgeConversation` | Events shown to the client of a bridged stream; conversations continued over the bounded store of turns. |
| `QuotaWake`, `DesktopWake`, `ServerWake` | The coordinator as operators on a queue of cycles, and the two hosts that clone, change and save it. |
| `OAuthSignIn`, `AccountImport` | A browser sign-in, and an import session from the entries of its documents to the stored logins, with checkpoints, undo and crashes. |
| `AccountRemoval`, `GatewayConfig` | Deletion and proxies; configuration commands and the gateway that follows them; each with its way back. |
| `CodexProfile`, `ProfileSwitch` | Plans of guarded file writes with a crash between any two; the commands around them. |
| `OwnershipTransfer` | The journal with which accounts move to a server and back. |
| `DesktopUsage`, `ServerUsage` | The two usage ledgers with rollups, retention, caches, channel and shutdown. |
| `PricingCatalog` | The loader, its schedule and index; the estimate of one attempt. |
| `SourceCatalog` | Two machines: the cache of the catalogs with its callers, each from its decision over the lock to the declared efforts; and the discovery of a source's models, one binding after the other, over the record that the last discovery stored. |
| `SecretStores`, `ServerData` | The replacement of vault file and keyring entries; backup, restore and migration, stopped anywhere. |
| `ServerAdmin` | Management handlers and jobs as sequences of separate store, vault and runtime calls that interleave. |
| `PortableUpdate` | The helper that replaces the executable, waits for the new version and rolls back. |

`QuotaRefreshQueueProofs`, `TokenAuthorityProofs` and `PoolSchedulerProofs` hold the theorems about the module in their name, the
first also those about `DesktopQuotaWorker`; `RequestProofs` holds those about `GatewayExecution` and the estimate of
`PricingCatalog`. `AgentIdentity`, `ServerWake`, `PortableUpdate` and `SourceCatalog` end with their own.

Some operators stand directly before a definition and vary it, such as `CompactNever` before `CompactIfNeeded`. They are the
ways that code could plausibly be wrong: with such an operator in the place of the definition, the property that
`PROJECT.json` names for it fails.

### How components meet

The components are specified apart and meet in their assumptions. `GatewayExecution` lets any untried candidate be
eligible, which covers whatever `PoolScheduler` does between two selections; `PoolScheduler` lets a request succeed, fail or
be dropped at every stage, which covers whatever execution does with its lease, and lets any eligible candidate win,
which covers `RoutingPolicy`. `AccountRefresh` uses the schedule of `QuotaSchedule`, which the queue implements. Modules that
share state extend each other: `DesktopQuotaWorker` the queue, `DesktopWake` and `ServerWake` the coordinator,
`AccountRefresh` and `WeeklyCredit` the reducers.

`MCLive`, `MCGateway`, `MCStreams`, `MCDesktop` and `MCServer` put components that share nothing side by side for one run.
Their variable `part` names the component that moves, and where one is too large to explore at once, a scene of it; the
others rest in an initial state. A part of a run is therefore the component's own specification, restricted by its scene.
`QuotaRefreshQueue` and `DesktopWake` are run by themselves.

### What is abstracted

- Identifiers are model values or small sets of strings. Times are small naturals; deadlines that nothing compares may
  pass at any moment.
- A token pair is a number, and the provider honours the newest refresh token. A secret is its number or the map a file
  decrypts to.
- Upstream and provider answers are arbitrary members of the classes that the code tells apart. The recognition of their
  wording is left out.
- A request body is where its history is, whether it carries tool outputs, which item ids are malformed and whether it has
  encrypted reasoning. A stream is a sequence of event classes, which chunks may split.
- Health, quota and stored secret of a scheduler candidate are one flag, `usable`. Quotas and tolerances of `RoutingPolicy`
  are scaled down; prices and counts of an estimate saturate at a constant that stands for the largest `u64`.
- A cached catalog of a source is the version of the provider's catalog it was read from, and one model stands for all in the
  efforts it declares; a call that reads it has ended before the catalog would expire (`ScTick`: requests to providers are
  given up after ten seconds, and catalogs and throttle last eight hours).
- A store transaction is one step that happens or fails; a file operation is one step, and the process may stop between
  any two. Validation is an arbitrary refusal. Logging, metrics and wording are left out.

## What the runs show

Passing runs. The invariants that end in `Safe` conjoin the type invariant and the named properties of each component of
the run; those that end in `Steps` conjoin action properties.

| Run | What it checks |
| --- | --- |
| `quota_queue` | No pending refresh is lost to lazy deletion or compaction, storage is bounded, an entry in flight has exactly one permit that will be honoured, a refresh asked for during another survives it, and the queue implements `QuotaSchedule`. |
| `live` | Under fairness, whatever has begun ends (`BegunEnds`): due quota refreshes are claimed, requests are answered, moves of accounts finish, automatic wakes complete, the update helper ends. With it: every task is joined before the loop sleeps and no change is slept through, attempts are bounded and no candidate is asked the same thing twice, an account has one owner and never none, the saved wake state keeps the retry cap, and a working executable is kept. |
| `wake` | On the desktop: the retry cap, one carrier per wake in flight, an attempt left for each pending cycle, and finality of a confirmed wake, through crashes, failing saves and commands that write older state back. |
| `gateway` | Half-open marks are held by a request that will reopen them; concurrent token refreshes rotate once and lose nothing; a refused agent task is renewed once and not presented again; the search over accounts is bounded; no late answer shortens a cooldown and a transient failure leaves its model a candidate; a hint to wait is honoured by every later request and a fault of the request by nobody else; the chosen candidate's quota is within a bounded distance of the best although the preference is not transitive, and a storm holds for every key of its source; a continuation goes to the candidate that made its response, through rebuilds and evictions. |
| `streams` | A socket answers each request once and records each attempt once; a stream is stored only when whole and ends with a terminal event; an image that was made is delivered and billed once; the items a bridged stream shows are well formed and are the output; a bridged conversation is sent whole, with tool results paired to calls; no route of a source is asked for its catalog by two callers at a time, a cached catalog is never replaced by an older one, and the efforts shown are those declared; discovery keeps the routes of a source apart and reports the prices on which its catalogs agree. |
| `desktop` | Profile files never lose the user's own sign-in and can be restored from every stopping point; the profile's key is one the server accepts; sign-in, import and refresh keep the newest login; a configuration command changes store and gateway together or neither; deletions are complete or undone; ledger, totals and caches agree; a monitored account stays scheduled; a reset credit is spent once and on purpose; vault and keyring stay readable wherever a write stops. |
| `server` | An enabled gateway serves what is stored and every record has its secret, whatever handlers interleave; every request is charged once and a joined writer has recorded what it accepted; prices survive failing loads and every token is priced once; restore is all or nothing and an upgrade keeps every change; the scheduler's books are exact while candidates are drained, removed and revived. |

### Instances and bounds

Every bound is a constant given in the `.cfg` of the run. They are the smallest at which the interesting cases meet:

- `quota_queue`: three accounts compete for two entries, and five generations fill the heap past twice the capacity, so that
  compaction runs with stale elements present. The accounts are symmetric.
- `live`: two accounts and two task slots for the worker; an account, a native and a bridged source with two retries for a
  request; two accounts, one per batch, and two faults for a move, so that a retry can meet a lost answer; two
  transitions with two attempts each and one crash for the wakes; three versions and two faults for the update. No
  symmetry is used, since liveness is checked.
- `wake`: a queue of one makes the transitions of two accounts compete for its place, and two faults allow a stale
  write-back and a crash in one behaviour. The two workers are symmetric.
- `gateway`: two candidates of which one serves a second model, since with one a transient failure never cools anything, and
  a second instant, so that a cooldown expires; two requests and four token pairs, which allow a rotation, the
  retry of its save, a 401 and another rotation; a cache of one binding, so that each new one evicts another; for agent identities two requests, a job and a model discovery in three scenes (the requests
  alone, one of them beside the job and the tokens' writer, model discovery), three tasks, two runtimes and one fault, up to
  the first overlap of two writes; three accounts
  whose quotas straddle the tolerances and two keys of one source with a storm threshold of three.
- `streams`: two requests and four attempts on a socket, two retries; answers of three events; blocks on three indices and
  texts that repeat what was sent; conversations of three turns over a store of two. A prefetch, an explicit refresh and a catalog request meet on one route, two of them on two
  routes of which one is bridged, or all follow each other until catalogs and throttle expire, with a provider that
  changes its catalog once. Discoveries repeat without bound on sources with one to three routes, two models and two prices.
- `desktop`: two or three commands in a row, one or two faults each (a failing step, a crash, or a foreign edit), two
  accounts, and a token refresh beside each deletion. Where both are too many at once there are two scenes: one command
  with a fault, and commands in a row.
- `server`: pairs of handlers on the same records, in the scenes of `MCScenes`, with a fault in the smaller ones; three
  usage events over a channel of two; price records with equal, differing and missing tariffs; two stops of a restore; one
  candidate with both lanes, two requests and two fences for the books. That the books are exact for any number is proved.

Runs of components that end (a request, a session, a bounded number of commands) do not check for deadlock. `quota_queue` and
`wake` do.

### Fairness

Liveness is checked in `live`, under weak fairness of the steps that the program itself takes:

- the quota loop is scheduled by the async runtime, each of its tasks ends in a response or an error and is joined, and
  time passes. Nothing is assumed of callers, and the property speaks of sessions that stay active only;
- the loop of a request keeps going, which takes an upstream call to return at some point (the clients have time-outs);
- a command that moves accounts keeps going while the process lives, and after a stop the recovery at the next start runs;
- the server's wake job runs every 30 seconds and carries each batch to its end, except when it is cut short;
- the update helper is a process of its own and keeps going; that the applications it waits for ever end or answer is not
  assumed, since its waits have deadlines.

### Where the code and its tests or comments disagree

Five runs are expected to end in a counterexample. Each is described in `PROJECT.json` under `findings`, with the line it quotes.

| Run | What happens | How it is reached |
| --- | --- | --- |
| `rebuild_rotation` | `register()` overwrites a slot with a credential loaded before a rotation, and the next refresh presents a spent token. | A rebuild of the server's runtime that overlaps a refresh. |
| `server_confirmed` | `run_due` completes a permit on a coordinator loaded through the restart recovery. The outcome is dropped, and a confirmed wake with attempts left is sent again. | The first wake of a task with two attempts, with no other actor involved. |
| `pool_scope` | An account that is enabled while the gateway runs stays out of the scope of the clients' key until the next restart or scope update. | Start the gateway with the account disabled, then enable it. |
| `server_refresh` | A background refresh saves the record it read before awaiting the provider, over what an operator changed meanwhile. | `update_account` between the two. |
| `server_weekly_reset` | The server redeems a reset credit when the weekly window has just been renewed; the comment says when it reaches zero. | A refresh that sees the window full again. |

Some behaviours are reachable in the models and ruled out by no property, because nothing in the repository promises
otherwise or because the property states exactly what does hold. They are hazards with a note in `PROJECT.json`:

- a failed deletion or sign-in restores a clone of the whole refresh queue; an entry whose refresh settled in between is in
  flight again without a permit. `DesktopQuotaWorker` leaves this step out;
- an invalidation that saves owed tokens also clears the mark that the auth state is owed;
- a release clears the half-open marks of other requests, so that a second probe may start; the guard of the last
  candidate looks at the model of the failure only; a policy computed before a removal revives a candidate;
- tasks of agent identities and refreshed tokens are saved by reading the whole credential and writing it back without a
  lock, on both hosts: when two such writes overlap, the later puts back the older task or pair. `RetryIsRenewed` and `OneRenewal`
  are stated for as long as none have. Model discovery on the desktop renews without saying which task was refused, so
  that it presents the refused one again;
- the lock on the catalogs is released before the throttle is stored (`source_metadata.rs:452`), so that an explicit refresh
  which waited may repeat the requests of the one before it, which the comment at line 430 means to avoid; and of two calls
  the one that ends last decides which efforts are shown, even when it began first;
- of several routes of a source for one client protocol that have no lists yet, each accepts every model it is shown. The commands refuse
  the result, which no longer normalises, and the server's health probe stores it and then fails to rebuild. A source
  with a single bridge is stored without a list and serves no model from then on, since only a native route without a
  list stands for all models. `RoutesStayApart` says for which sources discovery keeps its promise;
- importing an agent identity alone over a stored OAuth login drops the refresh token;
- the cached usage totals leave the number of requests that reported cached input at zero (`usage_totals_from_sample`),
  whereas the scan counts it: `TotalsAddUp` compares every other column;
- `KeyAccepted`, `AccountKeepsLogin`, `LoginSurvivesImport`, `NewestPairIsHeld`, `EndsWithTerminal` and `AttemptsRecorded` name the
  exceptions that the code has (a commit carried out late, a rotation during a rollback, a failure frame in the middle of
  an event, and the like) in their comments.

## What is proved

The theorems hold for every value of the constants that satisfies the named assumption of the module; nothing else is
assumed. The bounds on time, tokens and generations are constants too, so that a theorem holds whatever they are.

### The refresh queue (`QuotaRefreshQueueProofs`, from `QueueAssumption`)

`SpecTypeOK`, `SpecPendingIsQueued`, `SpecInFlightHeldOnce` and `SpecStorageBounded` are the invariants of `quota_queue`,
`SpecDirtyMarkSurvives` is its action property and `SpecImplementsSchedule` its refinement.

`PendingIsQueued` is not inductive by itself: a claim removes the elements it pops, and that no other pending entry loses
its element depends on elements being told apart by their generation. The inductive invariant is

    IInv == TypeOK /\ GenerationsFresh /\ PendingIsQueued /\ InFlightHeld

`GenerationsFresh` says that every generation in the table, the heap and the permits is below the counter, that no permit
of a pending account has the generation of its entry, and that two permits of one account differ in generation.
`InFlightHeld` says that an entry in flight has a permit of its generation; that there is only one follows from the
last conjunct of `GenerationsFresh`. What each kind of change does to `IInv` is one lemma, and `NextIInv` combines them action by
action. The bounds on storage have an induction of their own (`NextBounded`): compaction leaves no more elements than there
are pending entries, and every other change that does not schedule only shrinks the heap.

The refinement needs one more invariant, `PendingIsClean`: only an entry in flight carries a dirty mark. Each operation is
then matched with a step of `QuotaSchedule`: scheduling and marking with asking (`ScheduleIsAsk`, `SetDirtyIsAsk`), a claim with
beginning the most urgent accounts that are ready (`ClaimIsBegin`, over a bijection between the elements popped and the
accounts they stand for), a settled permit with an end (`SettleIsEnd`), compaction and stale permits with stuttering.

### The quota loop (`QuotaRefreshQueueProofs`, from `QueueAssumption` and `WorkerAssumption`)

`SpecWorkerSafe`: whatever callers ask for, the desktop loop joins its batch before it waits and never sleeps past a pending
refresh unless a notification is stored for it. The inductive invariant is `IInv` of the queue with `WorkerSafe` and the finiteness of
the permits, since the batch is bounded by counting them: that a claim stays within the free slots needs one permit per entry in flight.

### The token authority (`TokenAuthorityProofs`, from `AuthorityAssumption`)

`SpecAuthoritySafe`: for any set of tasks, no spent refresh token is presented unless an answer was lost, the newest token is
in the vault or owed to it, a request is sent with tokens that the vault has, and a verdict that a login is needed is recorded
or owed. The inductive invariant `AuthorityInv` adds to the type invariant

- `OneSlot`: while the account lasts there is one slot in the life of the process, and every task at a slot is at that one;
- `Mutex`: the slot's lock admits one task;
- `Consistent`: the slot's pair is not older than the vault's, is the provider's unless an answer was lost, and what the
  stores do not have is marked as owed;
- `Fits`: what each waiting task remembers (the pair it presents, the verdict it may restore) agrees with the slot.

`SlotStep` reduces a step of the lock's holder to what it does to the slot, to itself and to the stores, and one lemma per
group of steps supplies that. The theorem is about `AuthSpec`. A rebuild, which `RebuildSpec` adds,
overwrites the slot with what it loaded earlier and so breaks `Consistent`; the run `rebuild_rotation` shows what follows. TLC has checked `AuthorityInv` as an invariant as well.

### Agent identities (`AgentIdentity`, from `AgAssumption`)

`SpecAgentSafe`: for any requests, jobs, runtimes and faults, as long as no two writes of the credential have overlapped, whoever
repeats a request after a refusal presents another task, and a task refused to several requests of a runtime is renewed by
one of them. Neither is inductive. `AgInv` adds that tasks are numbered in the order of issue and that, without an overlap,
nobody is ahead of the vault (`AgOrder`): no executor caches, and no caller carries, a task younger than the one stored; what a
caller has registered is younger than what it saw refused; the lock of an executor has one holder, which is in the middle
of a renewal; and the executor's task has passed every task that was renewed. `AgOrderStep` goes through the actions under
the hypothesis that the step causes no overlap, and `AgOverlapStays` covers the rest. `AgFrame` shows once that callers other than the
one that moves stay in order when the vault and the executors only grow.

### The pool scheduler (`PoolSchedulerProofs`, from `SchedulerAssumption`)

`SpecLeasesAreExact`: for any candidates, models, lanes, requests, guards and keys, both activity counters equal the leases
that exist, an account serves one image at a time, a removed candidate is kept exactly while a request holds it, a response key
names a candidate that is present, fences nest, and a half-open scope is held by a request that will reopen it. The inductive
invariant is

    Books == SchedulerTypeOK /\ Counted /\ OneImage /\ TombstoneIsHeld
             /\ OwnerIsPresent /\ FencesMatchGuards /\ HalfOpenIsHeld

in which `Counted` states the counters as cardinalities of sets of requests and `OneImage` states the lane limit in terms of the
counter that enforces it. The conjuncts need each other: that a candidate may be forgotten when its counters are zero
rests on the counters being exact (`IdleIsUnheld`), and that no lease is left behind rests on the tombstone. Calls that touch
no lease go through `QuietStep`; a reservation and a release add and remove one element of the counted sets
(`ReserveKeepsBooks`, `WithoutCounts`, `ReleaseKeepsBooks`).

`SpecCooldownSteps`: no step shortens a cooldown that is still running (`NextStands`), and a transient failure never leaves its
model without an eligible candidate (`CooldownStays`). Both need no more than the type invariant.

`SchedulerAssumption` asks for finite sets of candidates, requests and guards, since their leases are counted, and that
the names the model uses for "no candidate" and "every model" are not candidates or models.

### The retry loop (`RequestProofs`, from `ExecutionAssumption`)

`SpecExecutionSafe`: for any candidates, repairs and limits, the attempts made stay within the retry limit and the recoveries
used, no candidate is sent the same request twice, and tool outputs keep the calls they answer. The loop itself counts
something else: it gives an attempt back at a repair and forgets a candidate at every recovery. `ExecInv` ties the two together:
what was made is what `attempts` counts and what the repairs gave back, and a candidate that may be selected again owes each
earlier attempt to a recovery.

### The catalogs of sources (`SourceCatalog`, from `ScAssumption`)

`SpecCatalogSafe`: for any routes, callers, answers and calls, no route is asked by two callers at a time, one prefetch runs at a time and is
marked as pending exactly while it does, an answer in hand is never older than the catalog it replaces, and a call ends with catalogs
at least as new as those cached when it began. The first is not enforced where one would look for it, because callers
that find every catalog fresh proceed without the lock. `ScInv` supplies what is missing:

- `LockHeld`: the lock belongs to the one call that collects after it found that it must ask;
- `AsksLocked`: only such a call asks; one that may ask and did not take the lock has fresh catalogs on all its
  remaining routes, and they stay fresh for it;
- `InTime`: a call is dated no later than now and no longer ago than a catalog lasts. Without it a catalog remembered
  meanwhile, dated by a call that began much earlier, could be stale for a call that found a fresh one;
- `VersionsGrow`: what a call began with is behind what is cached, that is behind an answer in hand, and that is behind the
  provider.

`OneCallMoves` shows once that a step which changes one call and no catalog leaves the others sound, and `ScRemembers` treats the step
that replaces a catalog under them. `ScAssumption` asks that the life of a catalog is a natural number and that no caller has the name of the
free lock. TLC checks `ScInv` in `streams`.

### The server's wakes (`ServerWake`, from `WakeAssumption` and `ServerWakeAssumption`)

`SpecServerWakeSafe`: for any accounts, windows, batch size and number of crashes, the row stays loadable and no transition is sent more often
than its cycle allows. `SwInv` counts what may still leave as well: the attempts of a cycle cover what was sent for
its transition and the permit of the batch that is still to be executed, and neither the row nor the batch has a transition twice.

### The portable update (`PortableUpdate`, from `UpdateAssumption`)

`SpecUpdateSafe`: however often an update is tried, fails or is cut off, an older whole executable is in the target or the backup
until the new one has answered, and a helper that ends leaves the version it reports. `PuInv` says where the old and the
new executable are at each step of the helper, that a running application is the one in the target, and that an
acknowledgement found while a helper waits is its own.

### The cost estimate (`RequestProofs`, from `EqAssumption`)

`EstimateAddsUp`: for every usage report and every tariff, with any count or tariff missing, priced and unpriced tokens add
up to the total, and tokens written to a cache for an unknown time stay unpriced unless the counts saturate.

### What is only model-checked

- Liveness (`BegunEnds`): the prover has neither fairness nor ENABLED.
- The other properties of `SourceCatalog` (`LevelsAreDeclared`, `RoutesStayApart`, `PricesAgree`): the first is about folds over sequences of
  efforts, the others about discovery over the bounded records and answers of the run.
- What recursive definitions and folds compute: the selection of `RoutingPolicy`, the reducers, the index of `PricingCatalog`, the
  plans of `CodexProfile`. The induction they need cannot be instantiated with the provers at hand.
- Everything else under "What the runs show". These components are bounded sequences of commands with faults, for which
  an inductive invariant would have to describe each stopping point of each command.

## What is not modelled

The definitions stand for about 35,000 of the 114,000 lines of the implementation. `PROJECT.json` gives the limits of each
component; those left out altogether are

- the text editing of Codex configuration files (the order of its writes is in `CodexProfile`);
- the model catalog, a pure projection of the candidates;
- providers and transport, the ready API client and the deployment of a server over SSH: their answers are arbitrary;
- the local server host, the shell and the user interface.

Within components, the parsing of documents, headers and URLs, the mapping of single protocol fields, encryption, decimal
arithmetic and SQL are left out or replaced by what they compute.

## Running

    tlc -workers 2 -config QuotaRefreshQueue.cfg QuotaRefreshQueue
    tlapm QuotaRefreshQueueProofs.tla

`PROJECT.json` names the module and configuration of every run. The longest, `streams`, `desktop` and `server`, take about three minutes on
two cores and visit one to two million states each. The proofs take about eight minutes each for `PoolSchedulerProofs` and
`SourceCatalog` and less for the others.
