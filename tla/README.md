# Expensor, modelled and verified

Expensor reads bank mail (Gmail through OAuth, Thunderbird mailboxes on disk), extracts transactions, and keeps
them per tenant in PostgreSQL, where users label, categorise and mute them. This directory holds TLA+ models of
its backend (`src/backend`), the TLC configurations that check them on small instances, and theorems about them
that TLAPS proves for every value of their constants.

| Module | What it is |
|---|---|
| `DaemonController` | the interactive scan daemon: `internal/daemon/controller.go` |
| `DaemonService` | what the controller promises; `DaemonController` refines it |
| `ScanScheduler` | scheduled scanning: `internal/daemon/scheduler`, its rows, the handlers that share them |
| `ScanPipeline` | one reader's scans: `daemon/runner.go`, `transaction_sink.go`, `pkg/reader/*` |
| `MailDelivery` | what scanning promises of a tenant's mail; `ScanPipeline` refines it |
| `TransactionLabels` | labels, their sources and merchant mappings, statement by statement |
| `Classification` | mutes, categories and buckets, by hand, by merchant, and by ingestion |
| `Spending` | the read side: dashboard, heatmap, breakdowns, facets, filtered and paged listings |
| `Accounts` | users, sessions, access tokens, account set-up |
| `ProviderTokens` | connection to an OAuth mail provider: states, tokens, revocation |
| `Rules` | extraction rules, documents, and the rules a scan starts with |
| `LLMProviders` | LLM providers and the drafting of rules |
| `Community` | shared content, its syncs and the category resolver |
| `Application` | startup, HTTP server, shutdown; it extends `Community` |
| `*Proofs` | theorems about the module they are named after |
| `TransactionsProofs` | theorems about `Classification`, `TransactionLabels` and `Spending` |
| `AssistantProofs` | theorems about `Rules` and `LLMProviders` |
| `MC*` | instances for TLC: symmetry sets, small tables, bounds |

`tlc -config ScanPipeline_safety.cfg MCScanPipeline` checks a configuration, `tlapm ScanPipelineProofs.tla` a
proof. `PROJECT.json` maps every definition that models code to its lines.

## 1. Inventory

Paths are relative to `src/backend/`. "Correct" lists what must hold of each part.

### Scanning

**Daemon controller** (`internal/daemon/controller.go`). State: a queue of commands and `closed` under `queueMu`;
the wake-up channel of capacity one; under `mu` the active request, `running`, the run's cancel function and done
channel, the last error. Operations: `Start`, `Stop`, `Rescan`, `Restart`, `RefreshResolver`, `Status`, `Close`;
handlers call them concurrently (`handlers_daemon.go`, `handlers_scanning.go`, `handlers_reader_auth.go`,
`handlers_config.go`, `handlers_rules.go`), the community service calls `RefreshResolver`. One worker goroutine
executes the commands; each launched run is a goroutine that calls `ScanService.Run`. Hard: a run ending by itself
while its successor is launched, commands racing each other and `Close`, `Stop` waiting for a worker that a
shutdown ends, stale reads in `RefreshResolver`. Correct: never two runs alive, every live run can be cancelled,
the last command wins, `Stop` waits, nothing is launched after `Close`, every caller gets its answer.

**Scan scheduler** (`internal/daemon/scheduler/scheduler.go`, `scan_runner.go`). State: `running`, the tenants with
a run, under `s.mu`; the wait group of runs; the rows of `tenant_scanning_state` and `scheduler_config`. A ticker
starts rounds (`Reconcile`): seed rows, read the limit, list runnable rows, start runs while capacity lasts. A run
writes `running`, scans once, writes its outcome, frees its slot. Hard: the round works from a list that requests
and ending runs make stale; rows are overwritten without version checks; crashes leave any state behind. Correct:
one run per tenant, the limit holds, waiting tenants are reached, a shutdown ends and leaves no run.

**Scanning state** (`internal/store/postgres/scanning_repository.go`, `internal/httpapi/handlers_scanning.go`). State:
one row per tenant: reader, enabled, state, reason, retry count and time. Each operation is one SQL statement; what
makes them hard is who else writes the row between two of them. Correct: an enabled and usable tenant is runnable.

**Scan pipeline** (`internal/daemon/runner.go`, `transaction_sink.go`, `scan.go`, `internal/state/state.go`). State:
two channels of capacity 100, the sink's batch, the processed messages and the checkpoint in the database. The reader
queues transactions, the sink writes batches and acknowledges, the reader's second goroutine marks messages as
processed. Hard: bounded channels in both directions, cancellation and errors between a write and its
acknowledgement, a checkpoint saved before the writes. Correct: processed means stored, a run without error stored
what it sent, no mail is skipped, runs end.

**Mail readers** (`pkg/reader/gmail/gmail.go`, `pkg/reader/thunderbird/thunderbird.go`). State: `lastScanAt`,
`forceFullScan`. Gmail evaluates up to five rules at a time against the API and keeps its checkpoint on any error;
Thunderbird walks mailbox files and logs what it cannot read. Correct: the checkpoint never hides unread mail.

**Rules** (`internal/rules`, `rules_repository.go`, `handlers_rules.go`, `seeder_repository.go`). State: the table
`rules` with predefined rows of the build and rows of tenants. Requests create, update, delete, import and export;
every scan merges the tenant's rules over those of the binary; creating a rule clears the checkpoint and restarts the
daemon. Hard: conversions in both directions, upgrades, scans that began before a rule was made. Correct: one current
rule per name, a new rule is tried on old mail, an export can be imported and restores the rules.

**LLM providers and drafts** (`internal/llm`, `internal/assistant/rule_draft.go`, `handlers_llm.go`,
`handlers_rule_drafts.go`, `runtime_repository.go`). State: one row per provider, one of them active. A health check or
activation reads the row in two statements and asks the provider for up to 75 seconds; a draft that fails its validation
is sent back once. Correct: the provider shown as ready answers; the matches and issues shown are those of the draft.

**Mail formats and extraction** (`internal/extractor`, `pkg/reader/thunderbird/mime.go`, `profile.go`). Pure functions.

### Transactions

**Ingestion** (`internal/store/postgres/ingestion.go`). One database transaction per batch: upsert by message id,
then labels, categories and mutes by merchant. Correct: a batch is stored once or not at all, user edits survive.

**Labels** (`label_repository.go`, `transactions_repository.go`). State: `label_merchants`, `transaction_label_sources`,
`transaction_labels`, `labels`. Hard: every request is several statements under READ COMMITTED next to ingestion.
Correct: a transaction shows exactly the labels it has a source for, by hand or by pattern; manual labels stay;
a mapping reaches old and new transactions.

**Categories, buckets, mutes** (`label_repository.go`, `community_repository.go`, `transactions_repository.go`,
`handlers_taxonomy.go`, `handlers_transactions.go`). State: `merchant_categories`, `muted_merchants`, the taxonomies,
columns of `transactions`. Hard: a mute has two reasons (hand and pattern) in two columns; mappings race ingestion and
the deletion of names. Correct: mutes follow the patterns, edits by hand survive re-ingestion, deleted names stay gone.

**Analytics, listings, facets** (`analytics_repository.go`, `filters.go`, `transactions_repository.go`,
`handlers_stats.go`, `handlers_transactions.go`). State: none; some twenty queries over the same rows, with months as
UTC ranges in some and as formatted local months in others. Correct: a slice and the listing it opens show the same
transactions, the views of one month agree, the pages of a listing hold everything once.

### Accounts, readers, content

**Provider connection** (`internal/httpapi/handlers_reader_auth.go`, `handlers_reader_config.go`,
`internal/oauth/oauth.go`). State: pending OAuth states in memory, secrets and tokens in the database. Hard: tokens
refreshed by scans, searches and status requests are written back while the user revokes or reconnects. Correct: one
authorization is exchanged once, nothing but a reader under way brings a removed token back.

**Accounts** (`handlers_auth.go`, `auth_middleware.go`, `auth_repository.go`). State: users, sessions, access tokens,
set-up tokens. Hard: a request is authenticated first and acts later, in statements of its own. Correct: no credential
without a user, an administrator remains, set-up tokens are used once.

**Community sync** (`internal/community/service.go`, `community_repository.go`). State: `closed` and a wait group of manual
syncs. Periodic and manual syncs fetch and store shared content and refresh the resolver. Hard: syncs overlap, fail
half-way and time out, and each sets the resolver to what it read. Correct: the resolver catches up with the store.

**Application** (`internal/app/app.go`, `cmd/server/main.go`). Seeds, starts the workers and the server; `Close` stops
community sync, controller and workers within a deadline, then closes the store. Correct: everything is at rest when
the store closes, and the shutdown needs no deadline.

**Runtime store** (`runtime_repository.go`). Secrets, tokens, processed messages, settings, LLM rows: single statements.

**Others**: configuration, plugins registry, error kinds, observability, migrations, the React frontend.

## 2. The models

### DaemonController

The variables are the fields of `Controller`, the position of the worker (`wpc`), of each calling handler (`cpc`) and
of the goroutine in `Close` (`xpc`), and the set of run goroutines. A step is one critical section or one channel
operation. `Start`, `Rescan`, `StopIfRunning`, `RestartIfRunning` and `Refresh` begin the calls the handlers make,
with the check of `Status` that precedes them where the handler has one; `SubmitPending` is `enqueue`, `Signal` the send
to `wake`. The worker's transitions are `TakeCommand`, `Decide` (the start that changes nothing), `StopCurrent`,
`AwaitRun`, `ClearActive`, `CheckContext`, `PersistActiveReader` and `Launch`; `ModeOf` and `Entry` say what the four kinds
of commands differ in. A run takes the resolver, returns, and ends in its last critical section. `RunRequest` (tenant and
reader) is one model value. `last`, the last accepted command, is the only history variable.

`DaemonService` is the abstract view: runs are launched one at a time while the service is open, end, and the service
closes. `ImplementsService` maps the ids of the live runs, the number launched and "Close has not returned" to it.

### ScanScheduler

`row` is the table, `older` the part of `updated_at` that matters: which of two rows was written first, which
`ListRunnableScanningStates` sorts by. The loop goroutine executes a round as one step per store call (`Poll`,
`ReadConfig`, `ListRunnable`) or critical section (`ComputeCapacity`, `SkipTenant`, `StartTenant`), on the rows `list` as
they were read. A run goroutine is `MarkRunning`, `Scan`, `WriteResult`, `ClearRunning`. Requests write the same rows:
`PatchSettings`, `PatchLimit`, `ConnectReader`, `RevokeToken`, `DisconnectReader`; those of several store calls leave the
rest in `handlers`. Any store call may fail. `ReaderBreaks` is a token or configuration that stops working outside the
program. `Shutdown` cancels the context, `StopRuns` and `Exit` are the end of `Start`, `Restart` is a crash or restart of
the process at any point. Delays are a flag `waiting` that `RetryTimePasses` clears.

### ScanPipeline

One tenant and reader at a time, over any number of runs. `rpc` and `spc` place the reader and the sink, `out` and `ack`
are the channels. An iteration lists visible mail (not before the checkpoint less a margin), skips processed messages,
sends the others, may fail to read them, then saves the checkpoint or not: `FailsIteration` holds the difference of the two
readers. The sink is `transactionSink.Write` and `flushBatch` branch by branch, `select` being any of the ready cases. A
write is atomic in the database but its reply may be lost. `Cancel` is the run's context, `Crash` the process. Time is
counted in units; a scan may take `MaxScan` of them. A rescan has neither checkpoint nor state manager.

`MailDelivery` is the abstract view, from the mailbox and the database: a run takes mail that has arrived, stores any of what
it took, marks what it took and stored (a rescan marks nothing), and may end at any time, but with success only when all it
took is stored. `ImplementsDelivery` maps `date`, `persisted`, `processed`, `mode`, `sent` and `outcome` to its variables and
leaves out goroutines, channels, batches, checkpoints and errors.

### TransactionLabels

`db` is the set of committed rows; each connection has the rows its open transaction inserted and deleted. `View` is what
its next statement sees under READ COMMITTED, `Execute` waits for rows that another transaction has written, so lock waits
and deadlocks exist, and any open transaction may roll back. This part is PostgreSQL's and marked external. The requests
are the repositories' methods, one step per statement, `removeOrphanedTransactionLabels` one per affected transaction.
Ingestion may change the merchant of a transaction that is ingested again (`Upsert`).

The model knows which requests must not overlap: `Interfere` is true of a removal with anything else, and of a new mapping
with an ingestion. These are the races the code has: `RemoveLabelByMerchant` counts the remaining sources of a
transaction and then deletes its label, while another connection adds one; ingestion and a new mapping each miss the
other's rows. `overlapped` remembers that such requests ran together, and `LabelsHaveSources` and `MappingsReachAll` speak
of the other histories, in which additions, ingestions and deletions of mappings overlap freely. `ManualLabelsStay` speaks
of all histories. It allows what the code does in the first of these races, and no more: the removal of a mapping may take
a label that was given by hand while that removal was under way. `kept`, history as well, has the sources by hand that were
there when each removal began and have stayed; their labels survive it.

### Classification

The other columns of the same transactions. A request is one step, since each is one database transaction whose only wait
is for a row that an ingestion holds; ingestion (`ingestion.go`) is four statements, `upsert`, `applyMerchantCategories`,
`applyMutedMerchants` and the commit, each of which reads what is committed then, while its own row is locked in
`draft`. `PATCH` of a transaction validates a name in one statement and stores it in another; `PruneMapping` follows the
deletion of a name in a third. Empty strings and NULL are told apart where the code does: in mappings. `Rank` is the order
in which mappings apply (longest fragment first). `excused` and `gone` are history: mutes decided otherwise by the user
or by patterns that changed meanwhile, and names deleted everywhere.

### Spending

The queries as operators over one tenant's rows, in a calendar of a few hours, days and months and with time zones
as offsets: `dashboardMonthBounds`, the statistics and charts, `GetHeatmap`, `GetLabelMonthlySpend`, `buildListWhere` with
its filters, `ListTransactions` with its pages (`transactionOffset` refuses an offset beyond an int), facets. The
actions are the writes between queries, the clock and the setting of the time zone. ILIKE is a containment relation. A
page holds the transactions whose `Position` in the order of timestamps lies between its offset and its end. `SUM` is
`SumOver`, for which TLC and TLAPS use the same definition, a fold of the community modules.

### Accounts

A request is a record: its next statement, the credential it presented, the principal it has read. Authentication, the
role check and the act itself are steps of their own, each a statement or a transaction that keeps its rows locked
(`Locked`), and others run in between. `Bootstrap` counts users in one statement and inserts in another. Credentials of
the three tables are rows of one function `creds`, with their expiry (`Expire`) and revocation. `Abort` is a client that
leaves or an error at any point.

### ProviderTokens

A process is a request or a client that reads a token, has it refreshed and writes it back. Authorization is `AuthStart`,
then `AuthCallback` or `AuthExchange` (which look the state up and delete it under one lock), the exchange, the save, the
queueing of the tenant. A token is the user's grant and the number of its refreshes. Revocation and disconnection are
statement by statement, as in the handlers. `Expire` and `Lapse` are time.

### Rules and LLMProviders

`Rules` keeps the table, one step per statement: `CreateRule` inserts, reads the active reader, clears the checkpoint and
asks for a restart of the daemon; conversions (`ruleMutationToRow`, `ParseDocument`, `ExportRules`, `MergeRules`) are
operators over texts as sequences of words, which keep what trimming, lower case and labels do; the order of a tenant's own
rules in a document is left open, as no one depends on it. `Expressions` are the texts that are regular expressions, any
set of them. A request is validated before it is trimmed, so that a row may hold an expression that is none:
`LoadPersisted` skips that row, and `Valid` refuses its export. The optional expression for currencies is treated by the
code as the one for merchants is, and has no field of its own. A scan is the rules it listed, whether it started from a checkpoint, and the checkpoint it saves. `owed` is history: rules whose creation cleared
the checkpoint and which no full scan has tried yet. `Upgrade` is a new build that seeds its rules.

`LLMProviders` has the rows, the two reads of an activation, the provider's answer, the transaction that activates
(`ClearActive`, `CommitActive`, which fails on the unique index when another provider was activated meanwhile), and the
drafting: kept samples, first draft, validation, one repair. `saved` and `dropped` are history: providers whose settings
changed after they were checked, or that were disconnected while they were activated.

### Community and Application

`Community` has the goroutine of `Run` and those of `Trigger`, which read the setting, fetch two files, store them entry by
entry, load a snapshot and set the resolver; statements and fetches fail, deadlines pass. An entry is reduced to the
release it comes from. `Application` extends it with the process: `Boot` seeds, requests arrive and start syncs and
commands, the signal cancels the contexts, `Close` goes through its phases, the store closes. Scheduler and controller
appear by whether they are at rest, which `ShutdownCompletes` and `CallersReturn` show they come to.

## 3. What the runs check

| Run | Instance | States | Properties |
|---|---|---|---|
| `controller_safety` | `DaemonController`: 2 requests, 2 callers, 2 calls | 326 k | `TypeOK`, `NoOrphanRun`, `LastCommandWins`, `ResolverApplied`, `StopWaits`, `ImplementsService`, `CallersReturn`, `CommandsExecuted` |
| `scheduler_safety` | `ScanScheduler`: 2 tenants, limits 1 and 2, 2 requests, 1 failed call | 2.6 M | `OneRunPerTenant`, `LimitRespected`, `PauseTakesEffect` |
| `scheduler_liveness` | 2 tenants, limit 1, 1 failed call, 1 crash, 1 retry | 103 k | `FairScans`, `ShutdownCompletes` |
| `scheduler_reconnect` | 2 tenants, limit 1, 1 request | | violation of `ReconnectContinues` |
| `pipeline_safety` | `ScanPipeline`: 2 messages, batches of 2, channels of 1, Gmail, all modes, 1 fault, 1 stop | 4.5 M | `ProcessedArePersisted`, `NoMailSkipped`, `ImplementsDelivery`, `FailedReadsStayVisible` |
| `pipeline_end` | 2 messages, Thunderbird, 1 fault, 1 stop, 1 clear | 463 k | `RunsEnd` |
| `transactions_safety` | `TransactionLabels` and `Classification` side by side | 1.8 M | `LabelsHaveSources`, `MappingsReachAll`, `ManualLabelsStay`, `MutesFollowPatterns`, `DeletedNamesStayGone`, `EditsPreserved` |
| `accounts_safety` | `Accounts` | 338 k | `CredentialsHaveUsers`, `OnlyStaleRequestsStrand`, `SetupTokenUsedOnce` |
| `providers_safety` | `ProviderTokens`: three processes | 683 k | `ExchangedOnce`, `OnlyReadersBeforeRestore` |
| `spending_safety` | `Spending`: 2 transactions, short calendar | 25 k | `SlicesOpen`, `WindowsAgree`, `PagesCover` |
| `application_safety` | `Application` with `Community` | 121 k | `StoreClosedLast`, `ResolverCatchesUp`, `ShutdownReturns` |
| `assistant_safety` | `Rules` and `LLMProviders` side by side | 501 k | `ScansUseOwnRules`, `NewRulesReachOldMail`, `ImportRestoresExport`, `ReadyProviderAnswers`, `DraftsMatchSamples` |

The comment on each property says what it means and which statement of the code or its documentation it is about. Each
property of a passing run has a mutant: a variant of one definition, written before it under a comment "Fault:", with
which TLC finds the property violated. The two runs of two modules put parts side by side that share no
variable and no row: a mapping of labels never reads a category, a rule never reads a provider. What
they check of one part is what a run of its own would check; one bound on requests then keeps the product small.

**Bounds, and why they are enough.** Two tenants, messages, requests or connections are the least at which one can
overtake, starve or block another, and the components treat them alike, so that more of them only repeat pairwise
conflicts. Two callers with two calls in all leave a command under execution with another that races it. Channels of
capacity one with two messages make every send a possible wait, which capacity 100 would hide, and batches of two
leave an incomplete last batch. One failure, stop or crash can hit every step; a second one hits a state the first has
left. With two merchant patterns a label has up to three reasons, manual and two patterns. The label model needs no
bound on the number of requests: its state space is finite. Requests on rules and providers are bounded
(`MaxRuleRequests`, `MaxLLMRequests`), enough for a save or a disconnection inside an activation that follows another.
`Spending` has tables of two rows, three names of which one contains another and one is "Uncategorized", in a calendar whose months are long enough for a time zone to move a row from one
to the next. Symmetry is used in runs without liveness only, over sets whose elements nothing tells apart.
Deadlock checking is off where the system may stop: a controller with no calls left, a scheduler or application after its
shutdown, a pipeline with its bounds used up, connections that wait for each other.

**Fairness.** Weak fairness of a goroutine's step: the Go scheduler runs every goroutine that can proceed, and tickers
tick. In the controller, calls, signals, `Close` and the end of a run by itself are not fair: they may never happen; a
cancelled run does return, because what a scan waits for takes its context or is a file on disk. In the scheduler a scan
ends (a scheduled run is a single iteration, which `RunsEnd` checks) and retry delays pass; requests, shutdown, crashes
and failures are not fair. In the pipeline the only strong fairness is on the reader's `Return`: a Go `select` whose ticker
and cancelled context are both ready picks either with equal probability, so it does not pick the ticker for ever.
In the application the steps of a sync, its ticker and the answers to requests are weakly fair, and so are the phases of
`Close` and the return of scheduler and controller, which the models of those two show. `RunReturns`, the end of the periodic
goroutine once its context is done, is strongly fair: its ticks are an interval apart, so that the `select` sees the
cancelled context alone between two of them. Fetches and statements end because they carry deadlines.

**Disagreements with the code's own words.** `scheduler_reconnect` shows one: a run that failed on the missing token
writes `needs_auth` over the row that a completed reconnection has just queued, and the tenant is not scanned again.
These others were found while modelling; the models contain the behaviour, and the properties are stated about what
remains true:

- `controller.go:174`: a `Stop` between `RefreshResolver`'s read of the active request and its `Restart` is undone, although
  the comment (`:161`) says a refresh only concerns an active scan.
- `scheduler.go:157`: a round starts a tenant from the row as it was listed, although its run has parked it or a request
  has paused it since. `PauseTakesEffect` says that this happens once, and to tenants listed before the pause only.
- `scheduler.go:309`: a tenant paused during a run that then fails keeps the message that scanning will be retried.
- `thunderbird.go:237`: a mailbox that could not be read still moves the checkpoint (comments `:62`, `:68`); Gmail keeps it.
- `thunderbird.go:394`: an error of `NextMessage` that does not go away keeps the loop over a mailbox going.
- `gmail.go:157`: the checkpoint is saved when mail was queued; a batch that then cannot be written is not read again.
- `gmail.go:191`: a rescan clears `forceFullScan` after its first iteration and goes on without a state manager.
- `handlers_config.go:218`: the checkpoint is cleared while a scan is under way, whose end writes it back.
- `handlers_config.go:225`: one daemon serves all tenants; restarting it after a check of its status may act for another.
- `handlers_scanning.go:115`: daemon and scheduler may scan the same tenant at once; each writes the checkpoint of its own.
- `oauth.go:96`, `handlers_reader_auth.go:501`: a token refreshed by a scan under way is saved after a revocation.
- `auth_repository.go:42`: the bootstrap counts users and inserts the first in two statements.
- `label_repository.go:250`, `ingestion.go:163`: the overlaps that `Interfere` names leave a source without its label or a
  transaction without a mapped one; a label given by hand while a mapping is removed may go with it; two removals may block each other (`:93`) until PostgreSQL fails one.
- `ingestion.go:105`: one transaction that the database always rejects fails its batch, the run, and every retry.
- `ingestion.go:203`: ingestion ignores a mapping that has a bucket only (comment `:186`), and re-ingestion mutes by
  pattern what the user has unmuted.
- `service.go:115`: after a restart bundled content is seeded again, and the first automatic sync does not refresh the
  resolver.
- `persisted.go:21`: when the rules of a tenant cannot be listed, a scan runs with the embedded ones and moves the checkpoint.
- `handlers_rules.go:286`: "all rules are fully editable", while `UpdateRule` refuses predefined ones; only `CreateRule`
  clears the checkpoint, so an update or an import reaches new mail only; a name of blanks passes validation, is trimmed,
  and makes an export that cannot be imported.
- `handlers_rules.go:102`: expressions are trimmed after `validation.go:99` has compiled them untrimmed, so that `INR\ ` is
  accepted and stored as `INR\`, which does not compile: scans skip the rule (`persisted.go:32`), use the binary's of that
  name if there is one, and an import refuses the tenant's whole export (`document.go:174`).
- `analytics_repository.go:159`: nothing keeps a user from calling a category, bucket or label "Uncategorized"; its slice is
  then also that of the transactions without one, and opens those only. `SlicesOpen` excepts such a column.
- `runtime_repository.go`: the second of two concurrent activations fails on the unique index; a disconnection during a
  health check is followed by an active row without credentials.
- `app.go`: requests that outlive the ten seconds of `Server.Shutdown` may use the closed store.

## 4. What is proved

For all constants that satisfy the modules' assumptions (named `...Assumption`), TLAPS checks:

- **Controller** (`DaemonControllerProofs`): `TypeCorrect`, `NoRunIsOrphaned`, `StopWaitsForRun`,
  `LastCommandIsObeyed`, `ResolverIsApplied`, `ServiceImplemented`. Type correctness needs `HoldsCommand` (who is
  about to act on a command has one). `NoOrphanRun` is not inductive: that a run is launched only when none is alive
  depends on where worker and `Close` are. `RunInv` adds `OneRun` (at most one run, the one `done` names, no id above
  `launched`), `WorkerView` and `CloseView` (whoever has passed its wait sees no run, and a wait is for the run that
  lives). `StopWaits` and the refinement follow from the invariant step by step. `CommandInv` says which commands the
  worker may be executing and what they amount to, `LastInv` that the last accepted command is the last one queued,
  the one under execution, or obeyed, and `StaleInv` that a run with a replaced resolver has its restart due, queued
  or under way.
- **Scheduler** (`ScanSchedulerProofs`): `TypeCorrect` (with `ResultsKnown`), `OneRun`, `PausesTakeEffect`,
  `LimitHolds`. `RunInv` adds `Tracked`: until the shutdown empties `s.running`, a live run's tenant is in it, which
  is why a round does not start the tenant twice. The limit needs `CapacityFits`: the remaining capacity and the
  tracked tenants together stay within the limit that was read; with one run per tenant the number of runs follows (a
  bijection of runs and tenants). `PausesTakeEffect` needs `ListedOnce`: a round's list names a tenant once, so the round
  that listed it before the pause starts it at most once.
- **Pipeline** (`ScanPipelineProofs`): `TypeCorrect` (with `BatchHasRoom`: a batch that waits is not full),
  `MarkedIsStored`, `CleanScanStores`, `NoMailIsSkipped`, `GmailKeepsFailedReads`, `DeliveryImplemented`. `FlowInv` says where a message is:
  what is acknowledged, or being acknowledged, is stored; what was sent is stored, queued or in the batch unless the
  run is failing; a sink that is done left nothing. `NoMailSkipped` needs times: `ClockInv` orders arrival, listing
  and clock, `CalmRun` describes a run in which nothing has failed, and `MailView` says every message that arrived is
  handled or will be listed. `FailedReadsStayVisible` needs `UnreadView`: unread mail is visible from both
  checkpoints, and an iteration that has not got to it has, or will have, an error. It is proved for Gmail
  (Thunderbird logs failed reads and moves on), and for rescans as long as no checkpoint is cleared meanwhile. The
  refinement needs `DeliveryView` next to `FlowInv`: what the goroutines hold was sent by this run, nothing is left over
  between runs, and what the reader has yet to read has arrived. Each step is then shown to take, store or mark as
  `MailDelivery` may, or to stutter; `CleanScanStores` states what a successful end means by itself.
- **Accounts** (`AccountsProofs`): `AccountsTypes`, `NoCredentialIsOrphaned`, `SetupTokenIsUsedOnce` and
  `AdministratorsRemain`. `AccountsInv` describes every request under way: what it has read, and which rows it keeps
  locked, since those are what nobody else may change between its statements.
- **Provider connection** (`ProviderTokensProofs`): `TokenTypes`, `StateIsExchangedOnce` (a state that was exchanged
  is neither pending nor held by a callback that has yet to exchange it), `OnlyReadersRestore` (a removed token comes
  back from those who had read it before).
- **Classification** (`TransactionsProofs`): `ClassificationTypes`, `MutesFollow`, `DeletedNames`,
  `EditsArePreserved`. `ClassInv` relates the rows of an ingestion under way, which nobody else sees, to the
  statements it has executed.
- **Labels** (`TransactionsProofs`): `LabelTypes`, `LabelsSourced`, `MappingsReach`, `ManualStays`, for any number of
  connections, transactions, labels and patterns, of which the model only assumes that the empty pattern is none of a
  merchant (`PatternAssumption`). What is committed says nothing while requests are half done, so the invariant is about
  the open ones: `Session` and `Held` say which rows each may have written, inserted or deleted, at each of its statements,
  and `Detail` how far it has come: a request that adds has the source of every label it adds (`Adds`), one that removes has
  left none of what it removed (`Removes`), and `RemoveLabelByMerchant`, which looks at one transaction after another, is
  right about those it has examined (`Unapplies`). `Detail` holds only while no interfering requests run together, which
  `Apart` states, and `LabelsInv` carries it for the histories without such an overlap. The commit is then the only step
  that can violate a property: `CommitOther` says what it leaves to the others, `CommitLabels` and `CommitMappings` that
  the committed rows are again as they should be. `ManualStays` excludes no overlap and rests on another invariant: `AimInv`
  says of the rows each removal has deleted, or waits to delete, that a source by hand is among them only where the user
  takes the label off, and a label in the removal of a mapping only where no source by hand has been there since it began.
- **Spending** (`TransactionsProofs`): `Slices`, `Windows`, `Pages`, for any finite number of transactions, any columns, names
  and fragments, and any lengths of days, weeks, months and years. The state changes freely here; what has to be proved is
  that different queries compute the same. The lemmas are about sums (`SumNext` unfolds the fold; that its recursion
  defines a function at all is `SumsExist`; `SumRemove` says that order does not matter; `SumOfGroups` that the sum of a
  `GROUP BY` is the total of its rows), about the calendar (`MonthBounds`, `MonthsSince`, `NestedQuotient`), about each
  filter (`LikeWhere`, `ExcludeWhere`, `CellWhere`, ...) and about positions, which distinct timestamps make distinct.
  Assumed: amounts and times are integers, no value is empty (the empty one is `Untagged`), a name contains itself, the
  breakdown has at least two months, and there are not more transactions than the largest int.
- **Rules** (`AssistantProofs`): `TableHolds` (rows keep their types and identities, names stay unique per tenant),
  `NewRulesReach`, `ScansUseRules`, `ExportsRestore`. `OwedInv` says that whatever is owed to a tenant, a rule that no full
  scan has tried, will have been made good by the scans under way when they save their checkpoint, or still has an empty
  checkpoint before it. `RowsNormal` says that a tenant's rows are as `ruleMutationToRow` leaves them (trimmed, senders in
  lower case and without duplicates), since exporting and parsing returns only such rows unchanged; that their expressions
  compile is no part of it, since requests may leave others. Statements that run over
  a list of rules are reasoned about through the tables they lead through, one rule after the other. Assumed: a
  request's expressions compile before they are trimmed, lower case is idempotent and makes no address blank, the marker of an absent row is no row, and a build embeds
  at most one rule of a name.
- **LLM providers** (`AssistantProofs`): `LLMTypes`, `ActiveProviderAnswers`, `DraftsAreChecked`. `ActiveInv` says
  at most one row is active, that its provider answered with the settings it has, and what each call knows at its
  position; `DraftInv` that every result under way is the validation of the draft it carries.
- **Application** (`ApplicationProofs`): `AppTypes`, `NothingUsesClosedStore`. `CloseInv` says what each phase of
  `Close` has established and what keeps it so: `closed` keeps new syncs out of the wait group, the closed controller
  new commands, and what was waited for stays at rest.

Every invariant and every action property of the runs is stated by one of these theorems. Only model-checked: what holds
under fairness (`CallersReturn`, `CommandsExecuted`, `FairScans`, `ShutdownCompletes`, `RunsEnd`, `ResolverCatchesUp`,
`ShutdownReturns`), since liveness is outside what the prover can do.

## 5. What is left out

- Data: amounts, dates beyond the calendar of `Spending`, merchants' names, MIME, SQL of searches; wording of
  messages; logging and metrics.
- The exponential delays of `retryDelay`, whose count is kept (`retry`) and whose length is "some time".
- What Thunderbird compares with the checkpoint is the `Date` header the sender wrote (`thunderbird.go:174`), not the time of
  arrival: mail with a date before the margin is skipped there. `NoMailSkipped` is
  model-checked for Gmail; of Thunderbird its theorem speaks as far as that header is the time of arrival.
- Gmail's day-granular `after:` filter (`gmail.go:330`): it lists more than the model's margin, never less, as long as the
  process and the mail server count days in the same time zone.
- A database that rejects the same transaction for ever: failures of the models are transient.
- Several processes on one database: the code has no provision for it, and the models have one process.
- Rows of `labels` (names, colours).
- `Spending`: matching within strings, the wildcards `%` and `_` of ILIKE in what a user types, ties of timestamps, conversion of currencies (`TotalBase` is in the base currency),
  changes of daylight saving; filters by merchant, currency and text; a dashboard's statements, which have no snapshot in
  common, are taken one at a time.
- `Application`: one entry stands for any of a file; `content_sync_status`; two overlapping `RefreshResolver` may set the
  older snapshot until the next one; deadlines of `Close` that expire and skip its waits; an empty community address.
- `LLMProviders`: truncation, prompts, redaction, usage; the code registers one provider and is written for several, as
  the model is.
- The components listed as `not_modelled` in `PROJECT.json`, each with its reason: pure functions, generated code, wiring,
  and the frontend, which keeps no state the backend depends on.

## 6. Plan

Done, the most central first: controller and its abstract service, scheduler, pipeline and the delivery it implements, labels; then classification,
provider tokens, accounts, spending, rules, LLM providers, community and application; theorems about all of them.
Left, in this order:

1. `TenantScans`: scheduler and controller over one tenant's pipeline, both writing one checkpoint, as an
   implementation of a `MailDelivery` with two runs.
2. Runs of the label races that `Interfere` excludes and of a cleared checkpoint that a scan under way writes back.
3. Proofs of item 1's refinement, from `FlowInv` and `DeliveryView`, and of what `Community` alone promises.
4. Concurrent dashboards: the statements of one page interleaved with ingestion.
