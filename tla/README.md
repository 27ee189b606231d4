# Relay Lifeline: a TLA+ model of the relay and its console

Relay Lifeline is a reverse proxy for slow, unreliable AI upstreams. It accepts a
request, keeps the client connection alive, and repeats the upstream attempt until a
complete response arrives, until a policy stops it, or until an operator decides what
became of an attempt whose fate is unknown. A management API and a web console show what
it does and let operators act on it. This directory models the relay's core and the
console with the handlers it talks to, checks them with TLC and proves parts of them with
TLAPS. Paths below are relative to the repository.

## 1. Inventory

| Part | State it keeps | Operations | Talks to |
|---|---|---|---|
| Concurrency limiter (`internal/proxy/limiter.go`) | active count, FIFO list of waiters, `changed` channel | `Acquire`, `Release`, removal of a canceled waiter | worker of every request; configuration (limits, hot-reloadable) |
| Gateway worker (`internal/proxy/gateway.go`, `retry_schedule.go`) | locals of `ServeHTTP`: outcome, attempt, `everWroteRequest`, `permitHeld`; the context | admission, attempt loop, `awaitRetry`, deferred finish | all other parts |
| Request registry (`internal/state/registry.go`) | one entry per live request: state, resolution, two one-slot channels, cancel function | `Add`, `UpdateMessage`, `Remove`, `CancelChecked`, `RetryNowChecked`, `ApplyRetryPolicy`, `ResolveUncertain` | worker, admin API, timeline |
| Lifecycle (`internal/lifecycle/state.go`) | none | transition table, terminal states | registry |
| Pause controller (`internal/state/registry.go`) | mode, resume channel | `Pause`, `Resume`, `Drain`, `Maintenance`, `Accepting`, `Wait` | worker, admin API |
| Timeline (`internal/timeline/store.go`) | active records, history | `Start`, `Add`, `Finish`, replay, orphaning, pruning | registry, journal |
| Journal (`internal/journal/store.go`) | append-only file with a hash chain, integrity anchor, degraded flag | `Append`, `Compact`, `Open` | timeline, incidents, repeat tasks, governance, policy releases |
| Upstream pool (`internal/upstream/manager.go`) | circuit state, counters and leases per target | `Select`, `Complete`, `Release`, `Apply` | worker, shadow traffic |
| Governance (`internal/governance`) | reservations, budget windows, usage ledger | `Admit`, `Bind`, `BeginAttempt`, `Record`, `Release`, `Compact`, replay | worker, journal |
| Traffic policy and releases (`internal/policy`) | rules, shadow budget, draft and release history | `Evaluate`, `AcquireShadow`, two-phase publication, `Reconcile` | worker, configuration, journal |
| Repeat tasks (`internal/repeat`) | tasks with a schedule, one goroutine each, and an execution | `Create`, `Pause`, `Resume`, `RunNow`, `Stop`, replay | gateway, journal, console |
| Configuration (`internal/config`) | current configuration, revisions | `Update`, `Reload`, `Subscribe` | everyone |
| Admin API (`internal/admin`) | sessions, confirmation tokens, one event ring per language for the management stream | handlers of settings, releases, requests, repeat tasks, queries, the stream | everyone |
| Monitoring events (`internal/monitoring/events.go`) | ring of numbered events | `RecordEvent`, `Events` | console |
| Console: client and session (`web/src/api.ts`, `App.tsx`) | CSRF token per client, session, what was loaded in it | sign in and out, change of language, bootstrap, every call | admin API |
| Console: event feed (`eventFeed.ts`, `App.tsx`) | cursor, merged events, the load under way | load page by page, merge, reset | monitoring events |
| Console: lists (`App.tsx`, `historyPagination.ts`) | filters, items, cursor of history and of incidents | apply filters, load more, poll, refresh | queries of the admin API |
| Console: settings (`SettingsView.tsx`, `App.tsx`) | the form, what it is compared with, drafts and releases shown | save, draft, publish, roll back, leave | configuration, releases |
| Console: realtime stream (`App.tsx`, `api.ts`) | `EventSource`, the domains shown | subscribe, reconnect, hide, refresh | stream of the admin API |
| Console: requests (`RequestsView.tsx`, `UncertainResolutionDialog.tsx`, `RetryPolicyDialog.tsx`, `RepeatTask*.tsx`) | a copy of the registry, selection, dialogs | batches, retry policies, decisions on uncertain requests, repeat tasks | registry, repeat tasks |
| Console: logs and captures (`LogsView.tsx`, `CapturesView.tsx`) | entries, pause, saved filters; records, preview | polls, pause, delete, clean, rewrap | run log, captures |
| Console: search, topology, theme (`GlobalSearch.tsx`, `SignalTopology.tsx`, `theme.ts`) | query and results; the scene and its renderer | type, answers; mount, dispose | queries; the browser |
| Captures, incidents, risk, notifications, counters, charts | derived state, logs, presentation | | |

What is hard about it:

* *Interleavings.* Each request has a goroutine; administrators, timers, the client
  connection, a reload and a degraded journal act on it at any point. Registry calls
  check under a lock and act after it (`ResolveUncertain`, `RetryNowChecked`,
  `CancelChecked`), and the worker reads the resolution in one critical section and
  removes the request in another.
* *Stale signals.* The retry and policy channels hold one token each, which outlives
  the wait it was meant for.
* *Silent refusals.* `UpdateMessage` and `Remove` ignore an invalid transition, so only
  the order of the calls keeps registry and worker together.
* *Permits.* The permit is given back and asked for again around every retry, with a
  dozen exits on the way.
* *Crashes.* Journal line, sync and integrity anchor are separate writes; replay
  rejects what it cannot explain. The same holds for a policy release, whose ledger and
  configuration are two files, and for an execution of a repeat task.
* *Answers of another time.* The console has many calls under way, each of which may be
  answered after the filter, the language, the session, the view or the dialog it was
  made for is gone. Some of its places drop such answers, some do not.
* *Copies.* The console acts on a copy of the registry and of the configuration, and two
  operators act on the same ones.

What makes each part correct: the limiter neither loses nor invents permits, wakes its
waiters and stays in its bounds; the gateway holds a permit exactly while it works,
shows the state it is in, ends every request with a true final entry, removes it, never
repeats an attempt in doubt without approval, and never loses an operator's decision;
the journal survives a crash at any point; the pool's circuit breakers let through the
probes they promise; governance neither leaks nor double-counts a reservation; a repeat
task is recorded before it is sent, stays in its limits and ends for good; a release
changes the policy and nothing else, and is in force exactly if its ledger says so; the
console shows no holes, comes to show what the server has, and carries out only what was
looked at. `PROJECT.json`
lists the hazards line by line, with the property that would catch each one.

## 2. Modules

| Module | Models | Used by |
|---|---|---|
| `PermitPool` | what `Acquire` and `Release` promise: sets of holders and of waiting callers, bounded by the configured limits | refined by `Limiter`, part of `Gateway` |
| `Limiter` | `limiter.go` down to its critical sections and the `changed` channel | `MCLimiter`, `LimiterProofs` |
| `Lifecycle` | the transition table and the administrator actions per state | `Gateway` |
| `Gateway` | `ServeHTTP`, `awaitRetry`, registry, controller, administrators, client, journal failure | `MCGateway`, `GatewayProofs` |
| `Ordering` | the numbers of a set in order, the part of a sequence at a set of positions | `Journal`, `Lists`, `Realtime` |
| `Journal` | `journal/store.go`: file, anchor, append, compaction, verification | `Timeline` |
| `Timeline` | `timeline/store.go` on its journal, the start of the process and the hourly compaction | `MCTimeline`, `TimelineProofs` |
| `UpstreamPool` | `upstream/manager.go` and those who take leases from it | `MCUpstreamPool`, `UpstreamPoolProofs` |
| `Governance` | `governance/manager.go` and `ledger.go`: budgets, reservations, the usage ledger and its replay | `MCGovernance` |
| `Client` | the calls of `api.ts`: method, token, the shape of an answer, what it does to the client | `Console` |
| `EventFeed` | `eventFeed.ts` and the load of `App.tsx` on the ring of `monitoring/events.go` | `Console` |
| `Console` | session, clients, bootstrap and confirmations of `App.tsx`, with the feed | `MCConsole`, `ConsoleProofs` |
| `Settings` | settings editor, configuration store, policy releases and their ledger | `MCSettings`, `SettingsProofs` |
| `Lists` | history and incidents | `Views`, `ViewsProofs` |
| `Realtime` | the management stream, from the ring to what is shown | `Views`, `ViewsProofs` |
| `Panels` | logs and captures | `Views`, `ViewsProofs` |
| `Requests` | the requests view and the handlers it calls | `Views`, `ViewsProofs` |
| `RetryForm` | the retry policy dialog as functions, against the server's validation | `Views`, `ViewsProofs` |
| `Repeat` | repeat tasks: manager, journal, API, dialog and panel | `Views`, `ViewsProofs` |
| `GlobalSearch` | the search of the header | `Views`, `ViewsProofs` |
| `SignalTopology` | the scene of the overview and the theme | `Views`, `ViewsProofs` |
| `Views` | the eight parts above side by side | `MCViews`, `ViewsProofs` |
| `LimiterProofs`, `GatewayProofs`, `UpstreamPoolProofs`, `ConsoleProofs`, `SettingsProofs`, `TimelineProofs`, `ViewsProofs` | theorems, see section 4 | |
| `OrderingProofs` | the facts about `Ordering` that two of them cite | `TimelineProofs`, `ViewsProofs` |
| `MCLimiter`, `MCGateway`, `MCTimeline`, `MCUpstreamPool`, `MCGovernance`, `MCConsole`, `MCSettings`, `MCViews` | instances for TLC | |

### Limiter

`active` and `waiters` are the fields of the struct. A caller's `pc` says where it is in
`Acquire`: `entering` has read the limits and waits for the mutex, `queued` has joined
the list, `parked` is in the `select` on the channel it remembered, `woken` is in the
same `select` after that channel was closed. Closing the channel (`signalLocked`) is the
operator `Signal`: it turns every `parked` into `woken`. A waiter therefore misses a
signal exactly if the code does. Limits are a variable that `Reload` changes at any
time; a caller keeps the limits it `read` before it took the mutex. `Cancel` ends a
context; a `woken` caller whose context is done may take either branch of the `select`.

### Gateway

One action per stretch of `ServeHTTP`/`awaitRetry` between two points at which another
goroutine can interfere; `pc[r]` names these points. `st`, `res`, `token`, `changed` are
the registry entry (state, resolution, the two channels), `tl` the timeline record,
`outcome`, `attempt`, `manual` the locals of the same names, `wrote` the flag
`everWroteRequest` together with whether what was written was answered. `ctx` and `gone` are the
context and `clientDisconnected`. An attempt is its result: `response` and `permanent`
(headers arrived), `lost` (written, no headers), `unsent` (error, not known to be
written: the write flag is set by another goroutine without synchronisation, so a
written request may look like this), `notarget` (no upstream selected, the result
repeats `everWroteRequest`). An attempt that starts with an ended context (`doomed`) is
refused by the HTTP client. Durations, the arithmetic of retry policies and the reasons of
refusals are nondeterministic choices: `Stop`, `Elapse`, `Deny`, `Governed`.

An administrator's call has two steps, because the code checks and records under the
lock and signals after it: `AdminCancel`, `AdminRetry`, `AdminPolicy`, `AdminResolve`
put the signal into `op`, `AdminSignal` delivers it. `Finish` and `Depart` are the two
critical sections of the deferred function. `Events` selects what the environment does
in a run.

`UpdateMessage` is `Move`: it ignores what `ValidTransition` does not allow. `Remove`
does the same, and keeps the entry if the journal refuses the final event.

### Journal and Timeline

`file`, `torn`, `durable` and `anchor` are what is on the disk: the lines, whether they
can be decoded, how many of them a power failure cannot take, and the sequence number in
the anchor. `entries`, `sequence` and `health` are the fields of the `Store`, lost when the
process ends. Since only the store writes the file, hash chain and sequence numbers say the same,
and a line keeps its number. An append is `Write`, `Sync`, `Commit` under one lock, each
with its failure; a compaction is `Compact`, which ends with the rename, and
`CompactCommit`, which writes the anchor. `Crash` keeps the durable lines and any number
of the others, whole or torn: a `partial` line cannot be decoded, a `bare` one lacks just
its newline. Whether an HMAC key is configured (`keyed`) is chosen in the initial state.
Time is counted in retention periods.

`Timeline` adds `active`, the map of records. `Begin` takes the lock and writes, `Succeed`
and `Fail` are the two ends of the append. `ActiveIDs` and `Compaction` are separate, as
in `maintainJournals`. `Startup` opens, verifies and replays; interrupted requests are then
finished as orphaned one by one, and `Restored` begins the compaction that `main` does
before the process serves. The ghost variables `mine` (workers of this life) and `told`
(what callers were told) are there for the properties. Request IDs are not used twice. An
anchor that cannot be created at the first start is a process that dies at once.

### UpstreamPool

`pool` is the map of `targetState`s, `conf` the configuration the manager was last given,
`cursor` the round-robin counter modulo a common multiple of the sums of weights. A call of
`Select` is `Leased` or `NotLeased`; both include what `candidatesLocked` does to the
circuits it looks at (`Thawed`). Attempts of a request (`Attempt`, `AttemptFails`,
`AttemptEnds`) carry the previous target, its domain and the write flag from one selection to
the next; shadow copies (`Shadow`) and repeat tasks (`Execute`, `ExecutionEnds`) carry
nothing. The open duration is the flag `ripe`, set by `Ripen`. `Apply` is a reload: a target
with the same address and another transport gets a new `targetState`, whose leases are
told from the old ones by a generation number, as the code tells them by the pointer in the
lease. `written` is a ghost: the targets and domains a request was written to.

### Governance

`usage` is the usage of every budget key in every window (a minute), `res` the map of
reservations with their attempts, `ledger` the lines of the usage journal. Replay treats
every reservation by itself and adds up, so only the order of the lines of one
reservation is kept. What a line does is one operator (`Admitted`, `Begun`, `Rebound`,
`Settled`, `Closed`), used by the live call and by `ReplayedLine`, because both call the same
functions of the manager; where replay differs, as in `ReplayedBound` and `ReplayedUsage`, the
operator does. A call that changes the ledger succeeds (`Appends`) or fails (`Degrades`, which may
leave the line in the file as `phantom`); `enforce` then gives up, `observe` goes on in memory.
The request goes `new`, `waiting`, `selecting`, (`bound`,) `sending` and back to `waiting`, or to
`leaving` and `done`; `After` has it go on after an error when the configuration it read at the
start of the attempt was not `enforce`. The three budgets of principal, tenant and model are a set
of fixed keys, costs behave like tokens, and the amount to reserve is configured: adaptive
estimates, soft thresholds and forecasts are left out, and so is a manager without a ledger.
`MaxEvents` bounds new windows, reloads, crashes and ledger failures taken together. `dropped`
and `reloaded` are ghosts.

### Client, EventFeed and Console

A call is the name of a method of the API client; `Calls` says its HTTP method, the shape
its answer must have and whether it carries a confirmation. `TokenSent` and `AfterAnswer` are what
`request` sends and what an answer leaves in the client: the CSRF token of a session, and the
callback for a 401 (`Notifies`). A change of the language makes a new client, without a
token, while the calls of the old one go on.

`EventFeed` is the server's ring (`RecordEvent`, `ServePage`) and a load of the console:
`refreshEvents`, one `TakePage` per page, `FinishLoad`, or a failure. The cursor moves only when a whole load is in.
A sign-out empties the feed and leaves a load alone that is under way; `crossed` remembers it.
`Console` has the session at the server (`issued`, `valid`), and in the browser
`authenticated`, `session`, the clients and, for each of the reads the screen needs, the session
it was read in. `Serve` and `Arrives` are the two ends of a call: calls overtake each
other. The code does not wait with a sign-in for what is under way. With `LateAnswers` any call of
one session may still be answered after the next sign-in; without it only those of loads that succeeded
or failed otherwise than by a 401 (`Answered`), which land on the screen of whatever session there is then.

### Settings

A configuration is a traffic policy and the rest; a revision is its content. The handler of
an ordinary save is two steps, `updateConfigChecks` and `updateConfigStores`, because the check that
the policy is unchanged is made before the lock of the store. A release holds `policyMu` and is
`PrepareCommit`, `ApplyRelease`, `FinalizeCommit`, with `Compensate` and `ReleaseRefused` on
the way; a `Crash` between any two of them is followed by `Reconcile`, the start's. The other
operator's calls are one step each. The console's fetches land after they were read
(`FetchReads`, `FetchLands`). `origin` and `op.shown` are history variables.

### The views

The views share no state but the server and the session, so a behaviour of `Views` is about one
of them, `part`, and the behaviours of `Views` are those of its parts.

* `Lists`: a record is a number, a filter a set of records. Reads are answered when they are made and
  applied later, by what they are for: replace, append (`LoadMore`), merge (`PollHistory`), or the
  overview, which also stores its cursor.
* `Realtime`: the feed's methods are one step each, under its lock. A handler takes a snapshot,
  publishes what changed, sends a sync or a replay (`after`), and ticks; the wire is lost with
  the connection, and the browser reconnects with its last number. A page that is hidden closes the stream, one
  that is shown again makes a new one, without a number, and refreshes, as at the start. A
  refresh reads all domains and is applied later; `overwritten` remembers where it put an old value back.
* `Panels`: each call remembers the view, the filter and the pause it was made with; `Applied` says
  what its answer changes. A timer keeps the function of the render that set it.
* `Requests`: `status` is the console's copy. An operation is chosen, confirmed, served one request
  at a time and answered; the server's part is `RetryNowChecked`, `CancelChecked`, `ApplyRetryPolicy`, and
  `Consume` for confirmation tokens. A retry reads the state under the lock (`retryChecked`) and puts a token into the
  channel of the worker after it (`retryPut`). Of the worker there is what the console can tell of it (`WorkerMoves`): the
  states it passes through, and that a token ends whatever wait it is in, also that of a request in doubt. That
  uncertain retries are allowed is not modelled here. `issued` and `decided` count previews and decisions.
* `RetryForm`: fields, lists, units and text of the dialog with the code's limits; a typed
  number is a fraction, rounded as `Math.round` does, and times count in half seconds.
* `Repeat`: one goroutine per task (`next`, `waitFor`, `beginExecution`, `finishExecution`), the calls
  of the API, and a journal that keeps the last snapshot of a task. `commitLocked` undoes what it
  cannot record. The API checks a request and creates its task in two steps. `Close`, `processEnds` and
  `replay` are a stop, a crash and the start.
* `GlobalSearch`: effects are disposed of by the next one; an answer carries the flag of its own. A search is
  four calls, any of which may fail.
* `SignalTopology`: a change of theme or width makes the effect due (`EffectDue`), and React runs it some time
  later (`runEffect`). A mount waits for an import; what follows runs before the next event of
  the browser. `live` are the renderers nobody has disposed of.

## 3. Runs

| Run | Instance | Checks |
|---|---|---|
| `limiter_reload` | 3 callers, 2 rounds, limits 1+2 and 2+0; fair | `PermitAccounting`, `QueueSound` (types, queue accounting, bounds), `NoLostWakeup`, refinement of `PermitPool` (`ImplementsPool`), `WaitersLeave` |
| `gateway_one` | 1 request, 3 attempts, all events but pauses (which the other two have; the theorem `RequestsEndRight` is about all), finish-attempt policy, `allow-uncertain-retry` reloaded | `EndsRight` (the final entry is justified, and nothing stays in the registry but two named kinds) |
| `gateway_operator` | 1 request, 3 attempts, operator, policies, pauses, journal failure; fair | `ResolutionHonoured`, `UncertainNeedsOperator`, `ResolutionWakes` |
| `gateway_live` | 2 requests, 2 attempts, limits 1+1 and 2+0 reloaded, deadlines, pauses; fair | `StateMatchesWorker`, `PermitDiscipline`, `EveryRequestEnds` |
| `timeline_crash` | 2 requests, 3 lives, 5 lines, 2 retention periods, with and without anchor | `ReplaySound` (types, `FileReplays`, `MemoryIsReplay`), `RestartSound` (`AcknowledgedSurvives`, `NoGhosts`, `CleanStopReopens`) |
| `upstream_pool` | 2 targets, 1 request with 2 attempts, 1 other lease holder, 2 configurations, 1 reload, one probe at a time | `LeasesSound` (types, `LeasesCounted`, `ProbesReturned`), `FailoverSafe` |
| `governance_budgets` | 2 requests of one principal, 2 and 1 attempts, 1 upstream, two strict configurations, usage of 1 and 3 on reservations of 2, 2 windows, 1 event | `BudgetsSound` (`ReservationsAccounted`, `BudgetsKept`) |
| `governance_ledger` | 1 request, 2 attempts, 2 upstreams, three modes, 2 windows, 2 events | `LedgerSound` (types, `ReservationsAccounted`, `LedgerReplays`, `RestartConserves`) |
| `console_session` | 2 sessions, 2 clients, ring of 2, pages of 1, 4 events; fair | `NoHoles`, `TokenBound`, `StaysComplete`, `SignInKept`, `ScreenRenewed`, `FeedFollows` |
| `console_settings` | 2 settings, 2 policies, 3 operations, 1 crash, a second operator | `LedgerAgrees`, `ReleaseKeepsSettings`, `ReviewedPublished` |
| `console_views` | the parts of `Views`, see below; stream and panels fair | `PagedRight`, `NothingMissed`, `StatusConverges`, `PausedFrozen`, `PanelsConverge`, `DecisionsPreviewed`, `UncertainUntouched`, `FormFaithful`, `RepeatSound`, `EndedForGood`, `SearchMatches`, `SceneOwned` |

What the runs of the console show:

* `console_session`: from the oldest event shown up to the cursor none is missing
  (`NoHoles`), a feed that shows all the server still holds goes on doing so unless a sign-out
  fell into the load (`StaysComplete`), and the
  cursor comes to the newest event if loads do not fail for ever (`FeedFollows`). An action
  never carries the token of another session (`TokenBound`); a session that the server
  honours is left only by signing out (`SignInKept`); what an earlier session left on the screen is
  replaced, also by its answers that arrive after the next sign-in, unless one of them lands on top of the
  session's own (`ScreenRenewed`).
* `console_settings`: once the start has reconciled, the policy a release put in force is the
  last one of the ledger (`LedgerAgrees`), a release or its compensation does not touch
  other settings that were stored meanwhile (`ReleaseKeepsSettings`), and what is published is
  what the operator saw (`ReviewedPublished`).
* `console_views`: lists have no gap, no duplicate and nothing of earlier filters
  (`PagedRight`: types, `NewestFirst`, `NothingSkipped`, `SettledMatches`); a console that has received all
  that was sent has been told the last value of every domain (`NothingMissed`) and comes to show it
  (`StatusConverges`); a paused log stands still and counts right (`PausedFrozen`), open
  panels come to show what there is (`PanelsConverge`); every decision used up a preview of
  that request and decision (`DecisionsPreviewed`), and no operation of the console, whatever state it was
  begun on, changes a request in doubt or grants it a token without a compensation (`UncertainUntouched`; a
  token granted while the request was still waiting releases it, which is what `gateway_stale_retry` shows); the form sends only what the server accepts,
  returns an untouched policy unchanged, and its presets are the quick policies
  (`FormFaithful`); a request has one repeat task, which stays within its limits, has a goroutine
  while it runs and is in the journal before it is sent (`RepeatSound`), and never comes
  back once it has ended (`EndedForGood`); found items are those of the query in the
  field (`SearchMatches`), and the page owns at most one renderer, the last effect's, drawn in the theme of the
  document once the effect has caught up (`SceneOwned`).

One run ends with a violation; it shows that the code does not do what documents and a test
of the repository say (quoted under `findings` in `PROJECT.json`):

* `gateway_stale_retry`: a retry-now token of an earlier wait releases a request from
  the uncertain state without confirmation.

Observations without a run of their own. The first group says which instance of the models shows it:

* `ResolutionHonoured` with `Events = {"resolve", "disconnect"}`: a resolution accepted between
  the two critical sections of the deferred function is lost (`gateway.go:286` and `:308`).
  It also fails, as does `StateMatchesWorker`, when `allow-uncertain-retry` is reloaded
  (`AllowChoices = {TRUE, FALSE}`).
* `ActiveRetained` on the instance of `governance_ledger`: a reservation that waits between two
  attempts, all settled, gets no heartbeat; once its lines are past retention they are
  compacted away, and what the request writes afterwards makes the next start fail
  (`manager.go:672`; `docs/operations.md:123`).
* `SaveKeepsPolicy` on the instance of `console_settings`: a release between the check and the
  store of an ordinary save is undone without a release (`handler.go:561` and `:576`; the
  repository's `README.md:160`: "they cannot hot-apply an unreviewed route or deny rule").
* `NothingMissed` under `SharedSpec`: another console of the same language may publish between the
  snapshot of a new stream and its cursor; the new console keeps an old value until the next
  change (`realtime.go:198`; `docs/architecture.md:38`).
* `SignInKept` and `TokenBound` with `LateAnswers = TRUE`: a 401 of a call of the session before ends the next
  one, and the answer to its `session` puts the old token back.
* `ScreenRenewed` without the exception `LoadOvertaken`: an answer to a load of the session before that lands
  after the session's own stays on the screen, since only the failure of a load asks whether its start has been
  disposed of (`App.tsx:286` and `:289`).
* `BudgetsKept` without `beyond`: usage is charged as the upstream reports it, also above the
  reservation, so that attempts that were admitted within the limit take the budget past it
  (`governance/manager.go:1219`).
* `StatusConverges` without `overwritten`: a refresh that was read before the last message of the stream and
  lands after it puts old values back until the next change (`App.tsx:218`).
* `NothingSkipped` with `"reorder"` or `"overlap"` in `Races`: answers in another order, or a page
  that is appended to a list that was replaced, leave a gap.
* `PagedRight` with `MaxRecords - Recorded > PageSize`: when more requests complete between two
  polls than a page holds, the merged history has a hole (`NothingSkipped`), and loading more
  appends what is missing behind older records (`NewestFirst`; `App.tsx:188`, `historyPagination.ts:3`).
* `SettledMatches` with `"apply"` in `Fallible`: when the read for new filters fails, the list
  of the old ones stays under them (`App.tsx:206`).

The others were met while reading:

* A request canceled while it waits for the permit of a retry ends as `rejected`, which is
  no successor of `waiting`, so it never leaves the registry. This is one of the two
  exceptions `LeavesRegistry` names.
* A stop between the rename of a compaction and its anchor leaves a journal that is
  refused at the next start; `CleanStopReopens` speaks of the states outside a compaction.
* A target with an empty idempotency domain is compared with no other (`manager.go:378`): a request with a
  key may cross from it, or to it, although crossing is not allowed. The theorem on failover assumes that
  targets name their domains.
* With two half-open probes, the one that ends after the other has opened the circuit
  again keeps its slot, and the target runs out of probes. `ProbesReturned` holds with one
  probe at a time, the default.
* A reservation that was admitted in one minute and is bound in the next does not count
  itself against the upstream's limit on concurrency and may exceed it. `BudgetsKept` is
  about the concurrency of the keys that are fixed at admission.
* A request whose writes were all answered becomes uncertain when the next attempt finds
  no upstream (the result repeats `everWroteRequest`).
* A journal whose last line lost just its newline is accepted, so that the next append
  makes it unreadable.
* A confirmation token issued in one uncertain episode of a request is accepted in a later one
  (`uncertain_api.go:67`; `docs/operations.md:138`).
* When the selected requests leave the list, a batch silently addresses all that are shown
  (`RequestsView.tsx:82`).
* The preview of a deleted capture may stay open (`CapturesView.tsx:77`); edits of the SLO alone
  cannot be saved (`SettingsView.tsx:18`); a bootstrap that runs again overwrites unsaved edits
  (`App.tsx:289`); the settings can be left while a save is under way (`App.tsx:245`).
* Restoring a configuration backup changes the policy without a release (`config_history.go:82`).
* A repeat task can be created of a request that became uncertain after the handler's check
  (`repeat_api.go:24` and `:50`); one that ends at its number of executions is not recorded as such,
  so that a restart calls it interrupted (`repeat/manager.go:383`); with a degraded journal
  `Stop` is refused (`:311`); and after `Stop` a new task of the same request may start
  while the old execution winds down.
* A failing execution whose result carries no usage pauses a task with a token limit before its failures are
  compared with their limit (`repeat/manager.go:441` and `:460`), so that the task, once resumed, is executed
  past its failure limit; `docs/architecture.zh-CN.md:36` says that the limits hold together.
  `WithinLimits`, a part of `RepeatSound`, claims the failure limit for tasks without a token limit.
* The write flag of an attempt is set and read by two goroutines (`transport.go:75`); `Accepting` reads
  the mode twice (`registry.go:769`); the body of an admitted request is read while the
  gateway may stop accepting (`gateway.go:166`).

`PermitPool` lets a new caller take a free permit ahead of the queue (`Grab`), as `Acquire`
does: the list orders the waiters among themselves, and a new arrival may overtake it.

*Bounds.* Three callers with one permit and two places are one owner and a full queue;
with two permits and no places the third is refused, and a reload from one to the other
leaves a queue beyond its limit. A second round lets a caller meet its own leftovers. Three
attempts are one to leave a stale token, one in doubt and one that must not happen. Two
requests are enough for one to take the permit that the other has given back. In the last
attempt `MaxAttempts` allows only results that end the request; this is
`retry.max-attempts`, which ends them in the code too. Five lines are two complete
requests and one line more; two periods let a compaction remove one request and
keep the other; three lives are a crash, a crash during the recovery from it, and the
start after that. The two requests are interchangeable, and the run, which checks invariants only,
uses that symmetry. Two failures let a circuit open, half open and open again; one other
lease holder beside the request is enough for a lease that was taken before a circuit
changed or a reload and that comes back after it. Two attempts of one request are a settled
and an outstanding one, the least that tells rebinding from charging anew; the second request
competes for the limits, which are within one or two attempts of being used up; with reservations of two a usage of
one gives something back and a usage of three goes beyond. Replay is
evaluated in every state, so one event already shows what a crash at any point would find.

For the console: two sessions and two clients are one to go and one to come; a ring of two and
pages of one let the ring drop an event between two pages of a load. Two policies and
three operations are a release, a save or draft of the other operator between its checks,
and a roll back. In `console_views` lists have two filters, one of them applied once, pages of two, and three records
that become up to five, just what one poll can bring; three reads under way let a page be loaded
after a poll has moved the list (filters applied more often are covered by the theorem of section 4); the stream has two
domains, a ring of two and four things that happen to it: up to three changes and one lost connection, so that
the ring overflows during it, and a page that is hidden and shown again, with changes meanwhile;
requests are one that waits and one in doubt, with up to three operations of the console and two
steps of workers, other operators or the clock of a token, four in all: a batch can be begun on the waiting one, whose attempt
then begins and ends in doubt, before it is served; the form has times on, between and beyond the limits, in half seconds, and
one edit after opening on each of the policies; a repeat task allows two executions, two failures and two tokens, with two operations
and one crash or failing write (three operations, and an input whose failures are used up under a token limit, were
checked once for this part alone: 975,229 states). The search has a short word, two that overlap and one item for each of its calls; the scene sees four effects.

*Deadlock* is checked in the gateway and pool runs that pass: a request always gets on. It is
not checked for the limiter, where callers stop after their last round, for the timeline,
whose process may be down for good or refuse to start, for governance, where requests
stop after their last attempt, for the console, whose operators stop after a number of
steps, nor in the violation run without an operator: there a request in doubt may wait
for ever.

*Fairness.* Weak fairness of a worker's steps and of the second step of an accepted
call is the Go scheduler's. `WF(Deadline)` is the timer of
`lifecycle.max-request-duration` and counts only where the option is set; its default is
no limit, and then a request in doubt keeps its permit until an operator decides. Weak
fairness of `Release` in `Limiter` stands for the end of attempts and is to be read with
the same reservation. No fairness is assumed of clients, administrators and reloads.
In the console weak fairness is assumed of what the browser and the server do by themselves: a call
is served and its answer arrives, the timers of polls go off, the handler of a stream ticks and
`EventSource` reconnects. The stream has one such assumption for its handler, one for what the browser does with the
`EventSource` and one for a refresh: the handler is one goroutine and the other two are sequential, so that at most one
step of each is possible at a time. Operators, failures, lost connections and changes at the server have none,
and since they are bounded, the convergence properties say what happens once they end.

## 4. Proofs

The theorems hold for every value of the constants that satisfies the assumptions declared
with them; `PROJECT.json` lists them with the property of a run that each one states.

`LimiterProofs` (any set of callers, any limits):

* `TypeCorrect`: the types, with `RemoveAtType` for the removal from the list.
* `PermitsAccounted`: `PermitAccounting` is inductive with the types; the work is in the
  cardinality of a set that gains or loses one caller.
* `WakeupsNotLost`: `NoLostWakeup`, an action property, from the types alone. `Take`,
  `Release` and `Abandon` leave nobody parked; the other actions keep the active count and
  the head of the list, or park a caller whose test has just failed.
* `QueueIsSound`: `QueueSound`. A caller is in the list exactly while it is in the loop, once; the
  bounds on list and owners follow because a caller keeps limits that were configured.
* `LimiterIsPool`: the refinement of `PermitPool`. Initial states map to initial states, and each
  action maps to an action of the pool or to no change. That the counter and the list's length are the sizes of
  the pool's sets is `PermitAccounting` and `QueueSound`, used as invariants.

`GatewayProofs` (any requests, limits, bounds and events):

* `TypeCorrect`.
* `PermitsDisciplined`: `PermitDiscipline` is inductive with the types; `StaysInside` and
  `StaysOutside` treat the steps that do not touch the limiter.
* `RegistryTellsTheTruth`: `StateMatchesWorker`, assuming that `allow-uncertain-retry` is
  not reloaded. By itself it is not inductive: `WorkerState` adds the states in which
  `awaitRetry` can find a request, that a blocked request is shown as uncertain, that
  nothing past the block is blocked, and that a lost attempt was written. `ReliedOn` lists
  the entries of the transition table the workers depend on, `WorkerLocal` and `Frame`
  say that a worker touches only its own request.
* `RequestsEndRight`: `EndsRight`, with all events. `EndInv` says for every point of a worker which
  outcomes it can carry to its end, and which entry of the registry it meets there.
* `NoRetryUnasked`: `UncertainNeedsOperator`, where the option is not reloaded and RetryNow is not used.
  `ApprovedInv` says that what a request blocked in doubt finds in its channels is an approval. Without
  the second hypothesis the statement is false: it is the finding of `gateway_stale_retry`.
* `VerdictsAreFinal`: `ResolutionHonoured`, where uncertain retries are forbidden and only a verdict ends a context.
  `DecidedInv` follows a verdict from the registry to the final entry. A disconnect, a
  deadline, a cancellation or a late retry may overtake a verdict (section 3), which is why the
  hypothesis excludes them.

`UpstreamPoolProofs` (any targets, callers and configurations). `StepOfPool` reduces the actions to what
they do to the pool: a lease is handed out, refused or given back, a reload, a circuit's time. `ChosenOne` says that the
weighted choice picks one of the targets it is given; it rests on `FiniteExtremes`, an induction over finite
sets by a smallest counterexample.

* `LeasesAreCounted` and `LeasesAreSound`: `LeasesCounted`, and `LeasesSound` if every configuration
  lets through one probe at a time, the default. The invariant `Probing` says that a slot in use belongs to a
  half-open circuit with a lease out. With more probes a slot is lost (section 3).
* `NoSecondTarget` and `FailoverIsSafe`: without a key a request is written to one target; `FailoverSafe` if
  every target names its domain. `Memory` says what a request remembers of where it was written, `Bound` that
  the lease it holds agrees with that: circuits and configurations may change while the lease is out.

`ConsoleProofs` (any capacity, page limit and number of events; any number of sessions, clients and
calls under way, in any order of answers):

* `FeedInvariant`: `FeedInv` is inductive. `NoHoles` by itself is not: it also needs that the
  cursor is not ahead of the server (`cursor <= latest`), what a load has collected so far
  (`BatchRight`), and what the page that is on its way holds (`PageRight`), though the ring has moved on since it
  was read. `ServedRight` is about the server's page, `CollectedRight` about adding it to
  the batch, `MergeUpward` and `MergeKeepsNewest` about the merge that keeps the newest
  `Capacity` events, `FinishRight` about the end of a load.
* `NoHolesShown` and `CompletenessKept`: `NoHoles`, and the action property `StaysComplete`, of the feed by itself.
* `ConsoleFeed`: the console implements the feed, every step of its session, its calls
  and its confirmations being a step of `EventFeed` or none. `ConsoleNoHoles` and
  `ConsoleCompletenessKept` carry the two properties over.
* `ConsoleTypes`: the types, the feed's included.
* `TokensAreBound` and `SignInsAreKept`: `TokenBound` and `SignInKept`, if nothing of a session but answers to
  its loads arrives after the next sign-in (`~LateAnswers`). `InTime` is inductive: it says of every client and call
  which session it can belong to; a load that is answered is of no concern to either. Without the hypothesis TLC finds
  both violated.

`SettingsProofs` (any policies, settings, revisions and operators' steps): `SettingsInvariant` is the
inductive invariant. For each phase of a publication it says what store, ledger and operation
have in common (`CommitSound`), and what the operator was shown (`PressedSound`); a policy in force is backed
by the ledger or by an open intent (`Backed`), which is what a crash between two phases leaves for the
start. `LedgerIsTrue`, `ReleasesSpareSettings` and `ShownIsPublished` are `LedgerAgrees`,
`ReleaseKeepsSettings` and `ReviewedPublished`.

`OrderingProofs` (any finite set of whole numbers, any sequence):

* `Ranks`: each element of a set of n numbers has a rank of its own in `1 .. n`, and every rank is taken. This rests on the
  library's facts about cardinalities, so that no induction over the set is needed.
* `AscendingOrder`, `DescendingOrder`, `SubsequenceOf`: what the operators of `Ordering` return, so that
  nothing rests on the recursive definitions of `SelectSeq` and `SortSeq`.

`TimelineProofs` (any requests, retention, number of lines and restarts, synced writes or not, with an HMAC key or
without, every way a write may fall short): `TimelineReplays` and `RestartsAreSound` are `ReplaySound`
and `RestartSound`. They speak of what memory and the whole lines on the disk have in common, which is not
inductive: in the middle of an append, a sync, a compaction or a start the two differ. `TimelineInv` says how far.

* `MemoryInv`: the file is what memory holds, or one line longer: that of the call under way, or that of
  the failed call with which the store degraded. A line that was written and not told survives, and replay accepts it.
* `CallInv`: the line under way is of a request it may be about: a start of one not told of before, an
  orphan during the start of the process, anything else of what is active.
* `SnapInv`: a compaction protects what was active when it began, or will find a recent line of what became
  active since. `KeptReplays` shows that a journal without the requests that are neither is again a chain that replays.
* `WorkInv`: everything active in a running process has a worker that was told of the start, and what nobody
  was told has ended has no final line.
* `ToldInv`: with synced writes, what callers were told is said by the synced part of the file and by all that may
  follow it, so that any power failure leaves it (`Survives`).

`ViewsProofs`, for any values of the constants of each part:

* `SceneIsOwned`: a renderer alive is that of the last effect or of a mount about to settle (`LiveOwned`), and mounts
  stand in the order of their effects (`MountsOrdered`); an effect that is not due has seen the last theme and width.
* `SearchAnswersMatch`: a call that is not disposed of asked for the query in the field (`SearchInv`).
* `PausedLogFrozen`: a log that is not paused shows all it has, and the count is that of the entries that wait (`Counted`).
* `DecisionsArePreviewed`: previews are at least as many as decisions and unused tokens together (`TokensCounted`).
* `UncertainIsUntouched`: by what each handler checks of the request itself, not of the console's copy. In the model
  a token does release a request in doubt; the theorem says that none is granted to it or put for it but by a
  compensation, and that its worker then has nothing to take. Tokens granted earlier are its stated exception.
* `RepeatIsSound` and `EndedTasksStayEnded` (any tasks, requests, crashes and failing writes): `RepeatSound` and
  `EndedForGood`. `RepeatInv` says task by task how memory, journal and
  goroutine stand to each other: the last snapshot counts no more executions than were begun (`InJournal`); while the
  journal works memory is the snapshot or has ended, and an execution is in flight exactly if the goroutine
  executes it (`Agreed`); a task that can run has a goroutine nobody has cancelled (`Attended`).
* `FormIsFaithful`: `FormFaithful`, for any policies of requests and anything typed. What is to be shown is arithmetic:
  a duration is split into a number and the largest unit that divides it, and put together again by a product that is
  rounded (`PolicyKept`); what the form lets through keeps the server's limits in every unit; the
  presets build the quick policies (`QuickBuilt`).
* `NothingIsMissed`: `NothingMissed`. That a console which has received everything was told the last values is not
  inductive: a connection may be lost between any two messages. `Told` therefore speaks of every
  beginning of what is on the wire: after it, a domain of which the ring holds no newer event has its last value. `RingInv`
  is about the ring, in which the newest event of a domain has the value the feed remembers, `ConnInv` about what a
  handler has published and sent at each of its steps, `WireInv` and `ValuesInv` about the numbers of events and the
  values. It is a theorem of `StreamSpec`, where a console is the only one of its language; under
  `SharedSpec` the property fails (section 3).
* `PagesMakeOneList`: `PagedRight`. A page under way is right for the filters and the newest record of the moment it was
  asked for, which may be old. `ListsInv` therefore keeps for each read what these were (`Timed`), says which reads
  are still for the filters of now (`SameFilters`, `Firsts`, `Furthers`), and explains the list as what the last
  answered read made of it: complete from its newest record to the cursor (`Listed`, `Reaches`), or waiting for a read
  that replaces it (`Awaited`). The hypotheses are in `ListsInOrder`: answers arrive in the order of their
  reads, nothing more is loaded while a read replaces the list, such a read does not fail, and what is new fits on
  one page. Without each of the four TLC finds the property violated (section 3).
* `ViewsAreSafe` and `ViewsListsAreRight`: `ViewsSpec` implies all of these, since a behaviour of `Views` is one of each
  of its parts (`ViewsParts`).

Assumptions: the finiteness and types of the constants (`LimiterAssumption`,
`GatewayAssumption`, `PoolAssumption`, `FeedAssumption`, `ConsoleAssumption`, `SettingsAssumption`,
`InputAssumption` and those of the views), evaluated by TLC in every run. The hypotheses named above are
those of single theorems and are written in their statements.

Model-checked only:

* liveness (`WaitersLeave`, `ResolutionWakes`, `EveryRequestEnds`, `ScreenRenewed`,
  `FeedFollows`, `StatusConverges`, `PanelsConverge`), which needs fairness and is out of the prover's reach;
* `BudgetsSound` and `LedgerSound` of `Governance`: sums over the reservations and the usage a fold over the lines of a
  ledger gives. What these recursive definitions give after one more line or reservation is an
  induction over data.

## 5. Plan

1. Limiter, permit pool, lifecycle, gateway with registry (done).
2. `Journal` and `Timeline` (done). Left: an abstract durable log they implement, the cap
   on a record's events, unsynced writes with an anchor, the other journals' compaction
   without protection.
3. `UpstreamPool` (done). Left: shadow selections move an open circuit to half-open,
   leases taken before a circuit opened and the slots they give back.
4. `Governance` (done). Left: adaptive reservations, the late binding above.
5. Console with client, session and feed; settings with configuration store and
   releases; the views; repeat tasks; confirmation tokens (done). Left: the composition
   of views with the session, and of the requests view with `Gateway`.
6. The cache budget of replay buffers, the server's computation of retry delays against a reference.
7. Proofs: limiter with its refinement, gateway, timeline and journal, upstream pool, settings, console, repeat tasks
   and the views (done). Left: `ReservationsAccounted` of `Governance`, for which the reserved amounts
   would have to be stated without sums.

## 6. Not modelled

Time (durations are nondeterministic, except in the retry policy form), message contents,
protocol validation, the evaluation of policy rules and shadow traffic, encryption
and export of captures, single sign-on, incidents, risk, notifications, counters, telemetry,
localisation and the test upstream. Of the console: what is drawn, charts, tables, file
names, and texts. These parts are marked `not_modelled` or `partly` in `PROJECT.json`. One administrator's call of each
kind per request is in flight at a time in `Gateway`; in `Requests` one operation of the console
beside those of its dialog.
